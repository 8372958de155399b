------------------------------- MODULE ScuDsp -------------------------------
(***************************************************************************)
(* The SCU's geometry DSP (src/runner/src/scu_dsp.c).  A word has WordBits *)
(* bits, the multiplier and accumulator half as many again, a bank         *)
(* BankSize words and the program ProgSize.  An instruction is decoded: a  *)
(* parallel operation, a load of an immediate, a DMA, a jump, a loop or an *)
(* end.  The next instruction is fetched before the current one runs, so   *)
(* the instruction after a jump still executes.                            *)
(***************************************************************************)
EXTENDS Integers, Bitwise
CONSTANTS WordBits,         \* even
          BankSize, ProgSize,
          LoopLimit         \* the loop counter wraps here

AccBits == WordBits + (WordBits \div 2)
LowWord(v) == v % (2^WordBits)
IntOf(v) == IF v >= 2^(WordBits-1) THEN v - 2^WordBits ELSE v
Acc(v) == v % (2^AccBits)                   \* sign extended when v is signed
Widened(v) == Acc(IntOf(v))
Banks == 0..3
NextCt(d, b) == (d.ct[b] + 1) % BankSize
At(d, b) == d.data[b][d.ct[b]]

(***************************************************************************)
(* The arithmetic unit: overflow is sticky, the others follow the result.  *)
(***************************************************************************)
AluCarry(op, a, p, wa, wp) ==
    CASE op = "add" -> a + p >= 2^WordBits
      [] op = "sub" -> a < p
      [] op = "ad2" -> wa + wp >= 2^AccBits
      [] op \in {"sr", "rr"} -> a % 2 = 1
      [] op \in {"sl", "rl"} -> a >= 2^(WordBits-1)
      [] op = "rl8" -> (a \div 2^(WordBits - (WordBits \div 4))) % 2 = 1
      [] OTHER -> FALSE
AluWord(op, a, p) ==
    LET quarter == WordBits \div 4
    IN  CASE op = "and" -> a & p
          [] op = "or"  -> a | p
          [] op = "xor" -> a ^^ p
          [] op = "add" -> LowWord(a + p)
          [] op = "sub" -> LowWord(a - p)
          [] op = "sr"  -> LowWord(IntOf(a) \div 2)
          [] op = "rr"  -> (a \div 2) + (a % 2) * 2^(WordBits-1)
          [] op = "sl"  -> LowWord(2 * a)
          [] op = "rl"  -> LowWord(2 * a) + (a \div 2^(WordBits-1))
          [] op = "rl8" -> LowWord(a * (2^quarter)) + (a \div 2^(WordBits - quarter))

Negative(v, bits) == v >= 2^(bits-1)
AluOp(d, op) ==
    LET a == LowWord(d.ac)
        p == LowWord(d.p)
        wide == op = "ad2"
        r == IF wide THEN Acc(d.ac + d.p) ELSE AluWord(op, a, p)
        bits == IF wide THEN AccBits ELSE WordBits
        x == IF wide THEN d.ac ELSE a
        y == IF wide THEN d.p ELSE p
        crossed == CASE op \in {"add", "ad2"} -> /\ Negative(x, bits) = Negative(y, bits)
                                                 /\ Negative(x, bits) # Negative(r, bits)
                     [] op = "sub" -> /\ Negative(x, bits) # Negative(y, bits)
                                      /\ Negative(x, bits) # Negative(r, bits)
                     [] OTHER -> FALSE
    IN  IF op = "nop" THEN [d EXCEPT !.alu = d.ac]
        ELSE [d EXCEPT !.alu = IF wide THEN r ELSE (d.ac - a) + r,
                       !.zero = r = 0, !.sign = Negative(r, bits),
                       !.carry = AluCarry(op, a, p, d.ac, d.p),
                       !.overflow = @ \/ crossed]

(* After an instruction: the one under LPS repeats until the counter is down. *)
IncPc(d) ==
    IF d.looping
    THEN [d EXCEPT !.looping = d.loopCount # 0,
                   !.pc = IF d.loopCount = 0 THEN (@ + 1) % ProgSize ELSE @,
                   !.loopCount = (@ - 1) % LoopLimit]
    ELSE [d EXCEPT !.pc = (@ + 1) % ProgSize]

Cond(d, flags, want) ==
    (\/ "z" \in flags /\ d.zero
     \/ "s" \in flags /\ d.sign
     \/ "c" \in flags /\ d.carry
     \/ "t" \in flags /\ d.dmaRun) = want

(***************************************************************************)
(* DMA between a bank, or program memory, and the bus: all of it at once,  *)
(* when the next instruction starts.  bus is a function of addresses and   *)
(* holds a word at each; dmaStep is the distance of two accesses.  The     *)
(* halves a word is cut into on the B-bus are not told apart.              *)
(***************************************************************************)
BusSize == 8
MovedAddr(d) == (d.dmaAddr + d.dmaStep) % BusSize
MoveWord(d) ==
    LET next == [d EXCEPT !.dmaAddr = MovedAddr(d), !.dmaCount = @ - 1,
                          !.ct = IF d.dmaBank \in Banks THEN [@ EXCEPT ![d.dmaBank] = NextCt(d, d.dmaBank)]
                                 ELSE @]
        b == d.dmaBank
    IN  CASE d.dmaOut -> [next EXCEPT !.bus[d.dmaAddr] =
                                IF b \in Banks THEN At(d, b) ELSE 2^WordBits - 1]
          [] ~d.dmaOut /\ b \in Banks -> [next EXCEPT !.data[b][d.ct[b]] = d.bus[d.dmaAddr]]
          [] ~d.dmaOut /\ b = 4 -> [next EXCEPT !.program[d.dmaPc] = d.busCode[d.dmaAddr],
                                                !.dmaPc = (@ + 1) % ProgSize]
          [] OTHER -> next

\* The address register a transfer without hold leaves behind; m is d with the words moved.
Addressed(d, m) ==
    CASE d.dmaHold -> m
      [] ~d.dmaHold /\ d.dmaStep = 0 /\ d.dmaOut -> [m EXCEPT !.writeAddr = (@ + 1) % BusSize]
      [] ~d.dmaHold /\ d.dmaStep = 0 /\ ~d.dmaOut -> [m EXCEPT !.readAddr = (@ + 1) % BusSize]
      [] ~d.dmaHold /\ d.dmaStep # 0 /\ d.dmaOut ->
            [m EXCEPT !.dmaAddr = (@ - d.dmaStep) % BusSize,
                      !.writeAddr = ((m.dmaAddr - d.dmaStep) + 1) % BusSize]
      [] OTHER -> [m EXCEPT !.readAddr = m.dmaAddr]

RunDma(d) ==
    LET moved[k \in 0..d.dmaCount] == IF k = 0 THEN d ELSE MoveWord(moved[k-1])
        done == [Addressed(d, moved[d.dmaCount]) EXCEPT !.dmaRun = FALSE, !.dmaPc = d.dmaPc]
    IN  CASE ~d.dmaRun -> d
          [] d.dmaRun /\ ~d.dmaOut /\ d.dmaBank = 4 ->
                [done EXCEPT !.nextInstr = [cls |-> "op0"], !.pc = d.loopTop]
          [] OTHER -> done

(* A bank in the way of a transfer waits for it. *)
Settled(d, b) == IF d.dmaRun /\ b = d.dmaBank THEN RunDma(d) ELSE d

(***************************************************************************)
(* One parallel operation, in the order the code does it.  Sources are     *)
(* <<"bank", b>>, <<"next", b>> (which moves the bank's counter), "alu"    *)
(* and "aluh"; inc is the set of counters to move at the end.              *)
(***************************************************************************)
IsBank(s) == s[1] \in {"bank", "next"}
Given(now, s) ==
    [d |-> IF s[1] = "next" THEN [now EXCEPT !.inc = @ \cup {s[2]}] ELSE now,
     v |-> CASE IsBank(s) -> At(now, s[2])
             [] s[1] = "alu"  -> LowWord(now.alu)
             [] s[1] = "aluh" -> LowWord(now.alu \div 2^(WordBits \div 2))
             [] OTHER -> 2^WordBits - 1]
ReadSource(d, s) == Given(IF IsBank(s) THEN Settled(d, s[2]) ELSE d, s)

Put(d, b, v) == [d EXCEPT !.data[b][d.ct[b]] = v]

WriteD1(d, dst, v) ==
    CASE dst[1] = "bank" -> [Put(Settled(d, dst[2]), dst[2], v) EXCEPT !.inc = @ \cup {dst[2]}]
      [] dst[1] = "ct"   -> [Settled(d, dst[2]) EXCEPT !.ct[dst[2]] = v % BankSize, !.inc = @ \ {dst[2]}]
      [] dst[1] = "rx"   -> [d EXCEPT !.rx = v]
      [] dst[1] = "p"    -> [d EXCEPT !.p = Widened(v)]
      [] dst[1] = "ra"   -> [d EXCEPT !.readAddr = v % BusSize]
      [] dst[1] = "wa"   -> [d EXCEPT !.writeAddr = v % BusSize]
      [] dst[1] = "lop"  -> [d EXCEPT !.loopCount = v % LoopLimit]
      [] dst[1] = "top"  -> [d EXCEPT !.loopTop = v % ProgSize]
      [] OTHER -> d

Multiplied(d, i) == IF i.mul THEN [d EXCEPT !.p = Acc(IntOf(d.rx) * IntOf(d.ry))] ELSE d

\* What a bus delivers lands in P or RX, in the accumulator or RY.
XLanded(got, i) == [got.d EXCEPT !.p = IF i.xp THEN Widened(got.v) ELSE @,
                                 !.rx = IF i.xr THEN got.v ELSE @]
YLanded(got, i) == [got.d EXCEPT !.ac = IF i.ya = "load" THEN Widened(got.v) ELSE @,
                                 !.ry = IF i.yr THEN got.v ELSE @]

XBusLate(d, i) ==
    Multiplied(IF i.xp \/ i.xr THEN XLanded(ReadSource(d, i.xsrc), i) ELSE d, i)

XBus(d, i) ==
    IF i.xp \/ i.xr THEN XLanded(ReadSource(Multiplied(d, i), i.xsrc), i) ELSE Multiplied(d, i)

YBus(d, i) ==
    LET first == CASE i.ya = "clear" -> [d EXCEPT !.ac = 0]
                   [] i.ya = "alu"   -> [d EXCEPT !.ac = d.alu]
                   [] OTHER -> d
    IN  IF i.ya = "load" \/ i.yr THEN YLanded(ReadSource(first, i.ysrc), i) ELSE first

Reads(i) == {s[2] : s \in {t \in {IF i.xp \/ i.xr THEN i.xsrc ELSE <<"none">>,
                                  IF i.ya = "load" \/ i.yr THEN i.ysrc ELSE <<"none">>,
                                  IF i.d1 = "move" THEN i.dsrc ELSE <<"none">>} : IsBank(t)}}

(* A bank that was read is not written; RX and P yield to the X bus. *)
Refused(i) == i.dst[1] = "bank" /\ i.dst[2] \in Reads(i)
Yields(i) == (i.dst[1] = "rx" /\ i.xr) \/ (i.dst[1] = "p" /\ (i.xp \/ i.mul))
D1Landed(got, i) == IF Yields(i) THEN got.d ELSE WriteD1(got.d, i.dst, got.v)

D1Bus(d, i) ==
    CASE i.d1 = "imm" /\ Refused(i) -> [d EXCEPT !.ct[i.dst[2]] = @ - (@ % 2)]
      [] i.d1 = "imm" /\ ~Refused(i) -> IF Yields(i) THEN d ELSE WriteD1(d, i.dst, LowWord(i.imm))
      [] i.d1 = "move" /\ Refused(i) ->
            IF i.dsrc[1] = "next" /\ i.dst[2] # i.dsrc[2]
            THEN [d EXCEPT !.inc = @ \cup {i.dsrc[2]}] ELSE d
      [] i.d1 = "move" /\ ~Refused(i) ->
            IF i.dst[1] = "rx" /\ Yields(i) THEN d ELSE D1Landed(ReadSource(d, i.dsrc), i)
      [] OTHER -> d

CountersMoved(d) ==
    [d EXCEPT !.ct = [b \in Banks |-> IF b \in d.inc THEN NextCt(d, b) ELSE @[b]], !.inc = {}]

Operation(d, i) == CountersMoved(D1Bus(YBus(XBus(AluOp(IncPc(d), i.alu), i), i), i))

(***************************************************************************)
(* The other commands.                                                     *)
(***************************************************************************)
WriteImm(d, dst, v) ==
    CASE dst[1] = "bank" -> LET now == Settled(d, dst[2])
                            IN  [Put(now, dst[2], LowWord(v)) EXCEPT !.ct[dst[2]] = NextCt(now, dst[2])]
      [] dst[1] = "pc" -> [d EXCEPT !.loopTop = d.pc, !.pc = v % ProgSize,
                                    !.dmaPc = IF d.dmaRun THEN v % ProgSize ELSE @]
      [] dst[1] \in {"rx", "p", "ra", "wa", "lop"} -> WriteD1(d, dst, LowWord(v))
      [] OTHER -> d

Load(d, i) ==
    LET stepped == IF i.dst # <<"pc">> THEN IncPc(d)
                   ELSE IF d.looping THEN [d EXCEPT !.looping = d.loopCount # 0,
                                                    !.loopCount = (@ - 1) % LoopLimit]
                   ELSE d
    IN  IF i.cond /\ ~Cond(d, i.flags, i.want) THEN stepped
        ELSE WriteImm(stepped, i.dst, i.imm)

Started(ready, i) ==
    LET count == IF i.counted THEN At(ready, i.cb) ELSE i.imm
        counted == IF i.counted /\ i.cinc THEN [ready EXCEPT !.ct[i.cb] = NextCt(ready, i.cb)] ELSE ready
    IN  [counted EXCEPT !.dmaRun = TRUE, !.dmaOut = i.out, !.dmaHold = i.hold,
                        !.dmaCount = IF count = 0 THEN 2^WordBits ELSE count,
                        !.dmaBank = i.bank, !.dmaStep = i.step,
                        !.dmaAddr = IF i.out THEN ready.writeAddr ELSE ready.readAddr]
StartDma(d, i) == Started(RunDma(IncPc(d)), i)

Jump(d, i) == IF i.cond /\ ~Cond(d, i.flags, i.want) THEN IncPc(d)
              ELSE [IncPc(d) EXCEPT !.pc = i.imm % ProgSize]

(* BTM closes a loop of several instructions, LPS repeats the one that follows. *)
Bottom(d) == LET up == IF d.loopCount # 0 THEN [d EXCEPT !.pc = d.loopTop] ELSE IncPc(d)
             IN  [up EXCEPT !.loopCount = (@ - 1) % LoopLimit]

Repeat(d) == IncPc([d EXCEPT !.looping = TRUE])

(* An end that signals does so once for every time its flag is read. *)
End(d, i) ==
    LET stopped == [IncPc(d) EXCEPT !.executing = FALSE]
    IN  IF i.signal /\ ~d.ended THEN [stopped EXCEPT !.ended = TRUE, !.raised = @ + 1] ELSE stopped

Command(d, i) ==
    CASE i.cls = "op"   -> Operation(d, i)
      [] i.cls = "op0"  -> [IncPc(d) EXCEPT !.alu = d.ac]
      [] i.cls = "load" -> Load(d, i)
      [] i.cls = "dma"  -> StartDma(d, i)
      [] i.cls = "jump" -> Jump(d, i)
      [] i.cls = "btm"  -> Bottom(d)
      [] i.cls = "lps"  -> Repeat(d)
      [] i.cls = "end"  -> End(d, i)
      [] OTHER -> d                     \* no such class: the counter stays

(***************************************************************************)
(* An instruction takes two clocks; an odd clock waits for the next call.  *)
(***************************************************************************)
OneInstr(d) ==
    LET op == d.nextInstr
        fetched == [d EXCEPT !.nextInstr = d.program[d.pc]]
        moved == IF d.dmaRun THEN RunDma([fetched EXCEPT !.dmaPc = d.pc]) ELSE fetched
    IN  IF (~d.executing /\ ~d.step) \/ d.paused THEN RunDma(d)
        ELSE [Command(moved, op) EXCEPT !.step = FALSE]

Tick(d, cycles) ==
    LET n == (cycles + d.spill) \div 2
        after[k \in 0..n] == IF k = 0 THEN [d EXCEPT !.spill = (cycles + d.spill) % 2]
                             ELSE OneInstr(after[k-1])
    IN  after[n]

(* The host's registers. *)
ReadStatus(d) == [d EXCEPT !.overflow = FALSE, !.ended = FALSE]
WriteControl(d, i) ==
    LET placed == IF i.load THEN [d EXCEPT !.pc = i.pc, !.nextInstr = [cls |-> "op0"]] ELSE d
    IN  CASE i.pause -> [placed EXCEPT !.paused = TRUE]
          [] ~i.pause /\ i.resume -> [placed EXCEPT !.paused = FALSE]
          [] OTHER -> [placed EXCEPT !.executing = i.exec, !.step = i.one]
Idle(d) == ~d.executing \/ d.paused
WriteProgram(d, op) ==
    IF Idle(d) THEN [d EXCEPT !.program[d.pc] = op, !.pc = (@ + 1) % ProgSize] ELSE d
WriteData(d, v) ==
    IF Idle(d) THEN [d EXCEPT !.data[d.hostBank][d.hostAt] = v,
                              !.hostAt = (@ + 1) % BankSize,
                              !.hostBank = IF d.hostAt + 1 = BankSize THEN (@ + 1) % 4 ELSE @]
    ELSE d
ReadData(d) == [v |-> IF Idle(d) THEN d.data[d.hostBank][d.hostAt] ELSE 2^WordBits - 1,
                d |-> IF Idle(d) THEN WriteData(d, d.data[d.hostBank][d.hostAt]) ELSE d]
SoftReset(d, fresh) == [fresh EXCEPT !.program = d.program, !.data = d.data]
=============================================================================
