---------------------------- MODULE MCProcessors ----------------------------
(***************************************************************************)
(* The processors and the units beside them over bounded inputs, each      *)
(* against a reference written another way.  The instruction cache and the *)
(* timer are specifications of their own and keep state: from a few starts *)
(* the run takes a bounded number of their steps, one of the two at a time *)
(* while everything else rests.                                            *)
(***************************************************************************)
EXTENDS Sh2Core, Sh2Cache, OnChip, Sequences, TLC
VARIABLE input

Dsp == INSTANCE ScuDsp WITH WordBits <- 4, BankSize <- 4, ProgSize <- 8, LoopLimit <- 8

(***************************************************************************)
(* Inputs.                                                                 *)
(***************************************************************************)
(* Registers at the ends of their range and in each partition; the stack pointer in work RAM. *)
Files == {<<0, 1, 127, 8>>, <<128, 255, 3, 16>>, <<6, 77, 200, 9>>, <<50, 64, 5, 12>>}
RegsOf(f) == [n \in Regs |-> f[n + 1]]
RamOf(seed) == [o \in 0..(RamBytes - 1) |-> (seed * (o + 1) + (o \div 3)) % (2^B)]

Core(f, seed, t, s) ==
    [r |-> RegsOf(f), t |-> t, q |-> seed % 2 = 1, m |-> FALSE, s |-> s, i |-> 0,
     mach |-> seed * 9, macl |-> 120 + seed, gbr |-> 7, vbr |-> 48, pr |-> 4, pc |-> 0,
     cycles |-> 0, sleeping |-> FALSE, halted |-> FALSE, ends |-> FALSE, slave |-> FALSE,
     ckchg |-> FALSE, ipend |-> {}, imask |-> {}, frt |-> 0, dmac |-> 0, frtIrq |-> FALSE,
     ram |-> RamOf(seed), array |-> [j \in 0..3 |-> j], onchip |-> [j \in 0..3 |-> (j + seed) % 4]]

Insn(op, n, m, d, k, x) == [op |-> op, n |-> n, m |-> m, d |-> d, k |-> k, x |-> x]
Plain(op, n, m) == Insn(op, n, m, 0, 0, "pr")
WithD(op, n, d) == Insn(op, n, 0, d, 0, "pr")

Accesses == {Insn(op, n, m, d, k, "pr") : op \in LoadOps \cup StoreOps, n \in {0, 1, 3},
                                          m \in {0, 1, 2, 3}, d \in {0, 8}, k \in {1, 2, 4}}
Systems == {Insn(op, n, 0, 0, 4, x) : op \in {"STS", "LDS", "STSL", "LDSL"}, n \in Regs,
                                      x \in {"sr", "mach", "macl", "pr", "gbr", "vbr"}}
Registers == {Insn(op, n, m, d, 0, "pr") :
                op \in FastOps \ (LoadOps \cup StoreOps), n \in Regs, m \in Regs, d \in {0, -3, 2}}
FastInputs == {i \in Accesses \cup Systems \cup Registers : Handles(i)}

(***************************************************************************)
(* The dispatcher written inline does what the reference does, for every   *)
(* instruction it takes: overlapping registers, sign extension, alignment, *)
(* mirrors, ROM and the partitions that are not memory                     *)
(* (FAST_SIMPLE against exec_one).                                         *)
(***************************************************************************)
FastMatchesReference ==
    input.kind = "insn" =>
        \A f \in Files, seed \in {0, 5}, t \in BOOLEAN :
            LET c == Core(f, seed, t, seed = 5)
            IN  FastSimple(c, input.i) = Exec(c, input.i)

(***************************************************************************)
(* A slice of clocks leaves the core as stepping would: every program of   *)
(* three instructions from a menu of branches, calls, slots and traps, and *)
(* the wait loops that are folded, in each state a slice can start from    *)
(* (sh2_run against sh2_step).  A slave whose timer interrupt is up while  *)
(* delivery is switched off is left out, see EnginesAlwaysAgree, and so is *)
(* a master where it may not fetch, see EnginesAgreeAnywhere: the programs *)
(* lie where a core may fetch them.                                        *)
(***************************************************************************)
Menu == {WithD("ADD_I", 1, -1), Plain("DT", 1, 0), Plain("MULUW", 1, 2),
         Insn("LDS", 1, 0, 0, 4, "pr"), Insn("STSL", SP, 0, 0, 4, "pr"),
         Insn("LDS", 2, 0, 0, 4, "sr"), Plain("SLEEP", 0, 0), WithD("BT", 0, 0),
         WithD("BFS", 0, 2), WithD("BTS", 0, 6), WithD("BRA", 0, 0), WithD("BSR", 0, 4),
         Plain("RTS", 0, 0), Plain("RTE", 0, 0), Plain("JSR", 2, 0), Plain("BRAF", 0, 0),
         WithD("TRAPA", 0, 1), [op |-> "UNDEF"]}
Programs == {(0 :> p[1]) @@ (2 :> p[2]) @@ (4 :> p[3]) @@ (6 :> Plain("RTE", 0, 0))
                @@ (8 :> Plain("NOP", 0, 0)) : p \in Menu \X Menu \X Menu}

Idle(t) == [Core(<<0, 2, 4, 8>>, 1, t, FALSE) EXCEPT !.pr = 2]
Starts == {Idle(TRUE), Idle(FALSE)} \cup
    {[Idle(TRUE) EXCEPT !.ipend = {2}],
     [Idle(FALSE) EXCEPT !.ipend = {1, 3}, !.imask = {1}, !.i = 1],
     [Idle(FALSE) EXCEPT !.frt = 2, !.frtIrq = TRUE],
     [Idle(FALSE) EXCEPT !.dmac = 1, !.sleeping = TRUE],
     [Idle(TRUE) EXCEPT !.ckchg = TRUE, !.sleeping = TRUE],
     [Idle(FALSE) EXCEPT !.slave = TRUE, !.dmac = 3, !.ipend = {1}],
     [Idle(TRUE) EXCEPT !.slave = TRUE, !.frt = 3, !.sleeping = TRUE, !.i = 3]}

Same(c, prog, target, turns) == Run(c, prog, target, turns) = Stepped(c, prog, target, turns)

Waiting == {[c |-> [Core(<<v, a, v, 9>>, 0, t, FALSE) EXCEPT !.onchip[1] = n % 4], target |-> n, turns |-> 40] :
              v \in {0, 1, 2, 3, 5}, a \in {8, 40, 50, 193}, n \in {1, 6, 23}, t \in BOOLEAN}
Working == {[c |-> c, target |-> 9, turns |-> 14] : c \in Starts}

RunIsSteps ==
    input.kind \in {"prog", "wait"} =>
        \A s \in (IF input.kind = "prog" THEN Working ELSE Waiting) :
            Same(s.c, input.prog, s.target, s.turns)

Wait(p) == [a \in {2 * (j - 1) : j \in DOMAIN p} |-> p[(a \div 2) + 1]]
Waits == {Wait(<<Plain("DT", 0, 0), WithD("BF", 0, 0)>>),
          Wait(<<Plain("DT", 2, 0), WithD("BF", 0, 2)>>)} \cup
         {Wait(<<Insn("LD", 0, m, 0, 1, "pr"), WithD("AND_I", 0, d), Plain("TST", 0, z),
                 WithD("BT", 0, 0)>>) : m \in {0, 1}, d \in {1, 2, 3}, z \in {0, 2}} \cup
         {Wait(<<Insn("LD", n, 1, 0, 2, "pr"), Plain("EXTUW", n, n), Plain("TST", n, n),
                 WithD("BTS", 0, 0), WithD("MOV_I", n, d)>>) : n \in {1, 2}, d \in {0, 1}}

(* tests/sh2_fastpath_fuzz.c:5 "The two MUST be observationally identical": whatever is pending. *)
EnginesAlwaysAgree ==
    input.kind = "prog" =>
        Same([Idle(FALSE) EXCEPT !.slave = TRUE, !.frt = 3], input.prog, 9, 14)

(* tests/sh2_fastpath_fuzz.c:5 again, of a master that jumped to words it is not to fetch: *)
(* sh2_step sends it back to PR, the inline dispatch of sh2_run executes them.             *)
MovedTo(a, prog) == [p \in {a + o : o \in DOMAIN prog} |-> prog[p - a]]
EnginesAgreeAnywhere ==
    input.kind = "prog" => Same([Idle(FALSE) EXCEPT !.pc = BadPc], MovedTo(BadPc, input.prog), 9, 14)

(* The comment at the gate of take_interrupt: the way out is taken when "nothing can fire". *)
SkipProvesNothing ==
    input.kind = "prog" =>
        \A c \in Starts : NothingPossible(c) => ~FrtPending(c) /\ ~DmacPending(c)

(***************************************************************************)
(* Sums the programmer's manual builds out of single steps come out right: *)
(* an unsigned division of a double register, a signed division, sums and  *)
(* differences carried over two registers (DIV0U, DIV0S, DIV1, ROTCL,      *)
(* ADDC, SUBC of exec_one).                                                *)
(***************************************************************************)
Sequence(c, is) == LET after[k \in 0..Len(is)] == IF k = 0 THEN c ELSE Exec(after[k-1], is[k])
                   IN  after[Len(is)]
Steps(lo, hi, d) == LET two == <<Plain("ROTCL", lo, 0), Plain("DIV1", hi, d)>>
                    IN  [k \in 1..(2 * W) |-> two[((k - 1) % 2) + 1]] \o <<Plain("ROTCL", lo, 0)>>
With(r0, r1, r2, t) == [Core(<<r0, r1, r2, 0>>, 1, t, FALSE) EXCEPT !.q = TRUE, !.m = TRUE]

UnsignedDivision(hi, lo, d) ==
    hi < d => Sequence(With(d, lo, hi, TRUE), <<Plain("DIV0U", 0, 0)>> \o Steps(1, 2, 0)).r[1]
                = (hi * 2^W + lo) \div d
SignedDivision(a, d) ==
    d # 0 /\ ~(a = 2^(W-1) /\ d = 2^W - 1) =>
        Sequence(With(d, a, a, TRUE),
                 <<Plain("MOV_RR", 3, 1), Plain("ROTCL", 3, 0), Plain("SUBC", 2, 2),
                   Plain("XOR", 3, 3), Plain("SUBC", 1, 3), Plain("DIV0S", 2, 0)>>
                 \o Steps(1, 2, 0) \o <<Plain("ADDC", 1, 3)>>).r[1]
          = Wrap(Quot(Signed(a, W), Signed(d, W)))
WideSums(hi, lo, d) ==
    LET x == hi * 2^W + lo
        y == d * 2^W + d
        Is(g, v) == g.r[2] * 2^W + g.r[1] = v % (2^(2 * W)) /\ g.t = (v \notin 0..(2^(2 * W) - 1))
    IN  \A s \in {<<"ADDC", 0, 0, x + y>>, <<"SUBC", 0, 0, x - y>>, <<"NEGC", 1, 2, 0 - x>>} :
           Is(Sequence(With(d, lo, hi, FALSE), <<Plain(s[1], 1, s[2]), Plain(s[1], 2, s[3])>>), s[4])

ArithmeticIsExact ==
    input.kind = "arith" => /\ UnsignedDivision(input.hi, input.lo, input.d)
                            /\ SignedDivision(input.lo, input.d)
                            /\ WideSums(input.hi, input.lo, input.d)

(* bus.c:356 "3 cycles of partial shift-subtract reach the result registers", in both widths. *)
ZeroDivideIsThreeSteps ==
    \A lo \in Operands :
        Divu32(lo, 0, TRUE) = Divu64(IF lo >= HalfWord THEN Word - 1 ELSE 0, lo, 0, TRUE)

(***************************************************************************)
(* The cache: lines of one set that do not all fit, and one of another.    *)
(* It starts cold, or on and full.                                         *)
(***************************************************************************)
LinesDef == {<<0, t>> : t \in 0..4} \cup {<<1, 0>>}
OrdersDef == {{}, {0, 2, 5}, {3, 4, 5}}          \* two orders, and one that is none
ControlOf(on, noFill, twoWay, wayBits, purge) ==
    [on |-> on, noFill |-> noFill, twoWay |-> twoWay, wayBits |-> wayBits, purge |-> purge]
ControlsDef == {ControlOf(TRUE, FALSE, two, 3, purge) : two, purge \in BOOLEAN}
               \cup {ControlOf(on, on, FALSE, 0, FALSE) : on \in BOOLEAN}
MemoriesDef == {[line \in LinesDef |-> line[2] % 2]}
FullCache(two) ==
    [ColdCache EXCEPT !.on = TRUE, !.twoWay = two, !.tag[0] = [w \in Ways |-> w],
                      !.valid[0] = [w \in Ways |-> TRUE], !.data[0] = [w \in Ways |-> w % 2]]
UsedCaches == {FullCache(two) : two \in BOOLEAN} \cup {[ColdCache EXCEPT !.on = TRUE]}
CacheRests == UNCHANGED <<cache, mem, age>>

(***************************************************************************)
(* The timer starts at the reset, or close to a wrap and to its matches;   *)
(* the divider and the DMA controller do one thing.                        *)
(***************************************************************************)
DividersDef == <<1, 2, 2, 0>>
TiersDef == {{}, {"ICF"}, {"OVF", "OCFB"}}
UsedTimers == {[FrtReset(TRUE) EXCEPT !.frc = frc, !.ocra = a, !.ocrb = b, !.div = d, !.tier = {"ICF"}] :
                 frc \in {0, 6}, a \in {1, 2, 7}, b \in {3, 6}, d \in {1, 2}}
OnChipRests == UNCHANGED <<frt, base, since, seen, unseen, given>>

(* Channels of the DMA controller, and memory for it to move. *)
ChannelsDef == [de : {TRUE}, te : {FALSE}, ie : {TRUE}, ts : {3}, sm : {1}, dm : {1},
                sar : {0, 4, 16}, dar : {0, 4, 12}, tcr : 0..5]
AddressesDef == 0..47
ContentsDef == {[a \in AddressesDef |-> a]}

(***************************************************************************)
(* A parallel operation of the DSP reads everything before it writes       *)
(* anything: the three buses, the multiplier and the counters see the      *)
(* values of the start (cmd_operation).                                    *)
(***************************************************************************)
NoInstr == [cls |-> "op0"]
Fresh == [ac |-> 45, p |-> 9, alu |-> 0, rx |-> 5, ry |-> 14, zero |-> FALSE, sign |-> FALSE,
          carry |-> FALSE, overflow |-> FALSE, pc |-> 0, nextInstr |-> NoInstr, looping |-> FALSE,
          loopCount |-> 0, loopTop |-> 0, data |-> [b \in 0..3 |-> [k \in 0..3 |-> (5 * b + 3 * k) % 16]],
          ct |-> [b \in 0..3 |-> (b + 3) % 4], inc |-> {}, dmaRun |-> FALSE, dmaOut |-> FALSE,
          dmaHold |-> FALSE, dmaCount |-> 0, dmaBank |-> 0, dmaStep |-> 0, dmaAddr |-> 0,
          readAddr |-> 1, writeAddr |-> 2, dmaPc |-> 0, bus |-> [a \in 0..7 |-> 15 - a],
          busCode |-> [a \in 0..7 |-> NoInstr], program |-> [a \in 0..7 |-> NoInstr],
          executing |-> FALSE, step |-> FALSE, paused |-> FALSE, ended |-> FALSE, raised |-> 0,
          spill |-> 0, hostBank |-> 0, hostAt |-> 0]

DspSources == {<<"bank", 0>>, <<"next", 0>>, <<"next", 1>>}
Dests == {<<"bank", b>> : b \in 0..2} \cup {<<"rx">>, <<"p">>, <<"lop">>, <<"ct", 0>>}
DspOps == [cls : {"op"}, alu : {"add", "sub", "ad2", "rl8", "nop"}, mul : BOOLEAN, xp : BOOLEAN,
           xr : BOOLEAN, xsrc : DspSources, ya : {"keep", "clear", "alu", "load"}, yr : BOOLEAN,
           ysrc : {<<"next", 0>>, <<"bank", 1>>}, d1 : {"none", "imm", "move"},
           dst : Dests, dsrc : {<<"next", 0>>, <<"next", 2>>, <<"alu">>},
           imm : {6}]
Encodable(i) == /\ ~(i.mul /\ i.xp)
                /\ (~i.xp /\ ~i.xr) => i.xsrc = <<"bank", 0>>
                /\ (i.ya # "load" /\ ~i.yr) => i.ysrc = <<"bank", 1>>
                /\ i.d1 # "move" => i.dsrc = <<"alu">>
                /\ i.d1 = "none" => i.dst = <<"rx">>

OperationIsParallel ==
    input.kind = "dspop" =>
        LET i == input.i
            d == [Fresh EXCEPT !.rx = input.rx]
            alu == Dsp!AluOp(d, i.alu).alu
            From(s) == CASE s[1] = "alu" -> alu % 16
                         [] OTHER -> d.data[s[2]][d.ct[s[2]]]
            read == Dsp!Reads(i)
            wins == /\ i.d1 # "none" /\ i.dst \notin {<<"bank", b>> : b \in read}
                    /\ ~(i.dst = <<"rx">> /\ i.xr) /\ ~(i.dst = <<"p">> /\ (i.xp \/ i.mul))
            v == IF i.d1 = "imm" THEN 6 ELSE From(i.dsrc)
            used == (IF i.xp \/ i.xr THEN {i.xsrc} ELSE {})
                    \cup (IF i.ya = "load" \/ i.yr THEN {i.ysrc} ELSE {})
                    \cup (IF i.d1 = "move" /\ ~(i.dst = <<"rx">> /\ i.xr) /\ ~(i.dst[1] = "bank" /\ i.dsrc = <<"next", i.dst[2]>>)
                          THEN {i.dsrc} ELSE {})
            moves == {b \in 0..3 : <<"next", b>> \in used} \cup {b \in 0..3 : wins /\ i.dst = <<"bank", b>>}
            evened == {b \in read : i.d1 = "imm" /\ i.dst = <<"bank", b>>}
            n == Dsp!Operation(d, i)
        IN  /\ n.alu = alu
            /\ n.rx = CASE i.xr -> From(i.xsrc) [] wins /\ i.dst = <<"rx">> -> v [] OTHER -> d.rx
            /\ n.ry = IF i.yr THEN From(i.ysrc) ELSE d.ry
            /\ n.ac = CASE i.ya = "keep" -> d.ac [] i.ya = "clear" -> 0 [] i.ya = "alu" -> alu
                         [] i.ya = "load" -> Dsp!Widened(From(i.ysrc))
            /\ n.p = CASE i.mul -> Dsp!Acc(Dsp!IntOf(d.rx) * Dsp!IntOf(d.ry))
                        [] i.xp -> Dsp!Widened(From(i.xsrc))
                        [] wins /\ i.dst = <<"p">> -> Dsp!Widened(v)
                        [] OTHER -> d.p
            /\ n.loopCount = IF wins /\ i.dst = <<"lop">> THEN v % 8 ELSE d.loopCount
            /\ \A b \in 0..3 :
                 /\ n.ct[b] = CASE wins /\ i.dst = <<"ct", b>> -> v % 4
                                [] OTHER -> ((IF b \in evened THEN d.ct[b] - (d.ct[b] % 2) ELSE d.ct[b])
                                             + Bit(b \in moves)) % 4
                 /\ n.data[b] = IF wins /\ i.dst = <<"bank", b>> THEN [d.data[b] EXCEPT ![d.ct[b]] = v] ELSE d.data[b]

(***************************************************************************)
(* A program of the DSP does the same however its clocks are sliced; a     *)
(* loop, by LPS or by BTM, runs one more time than its counter; and an end *)
(* that signals is one interrupt until the host reads the status; a pause  *)
(* loses nothing, and the ports read back what was written, but not while  *)
(* a program runs (scu_dsp_tick, inc_pc, cmd_special, scu_dsp_read_reg,    *)
(* scu_dsp_write_reg).                                                     *)
(***************************************************************************)
DspOp(ya, dst, dsrc, d1) ==
    [cls |-> "op", alu |-> "nop", mul |-> FALSE, xp |-> FALSE, xr |-> FALSE, xsrc |-> <<"bank", 0>>,
     ya |-> ya, yr |-> FALSE, ysrc |-> <<"bank", 1>>, d1 |-> d1, dst |-> dst, dsrc |-> dsrc, imm |-> 2]
DspLoad(dst, v) == [cls |-> "load", dst |-> dst, imm |-> v, cond |-> FALSE]
Count == DspOp("keep", <<"bank", 0>>, <<"alu">>, "move")            \* moves counter 0 along
TheEnd == [cls |-> "end", signal |-> TRUE]
LoopPrograms(k) ==
    {<<DspLoad(<<"lop">>, k), [cls |-> "lps"], Count, TheEnd>>,
     <<DspLoad(<<"lop">>, k), DspOp("keep", <<"top">>, <<"alu">>, "imm"), Count, [cls |-> "btm"], NoInstr, TheEnd>>}
Started(p) == [Fresh EXCEPT !.program = [a \in 0..7 |-> IF a < Len(p) THEN p[a + 1] ELSE NoInstr],
                            !.executing = TRUE, !.ct[0] = 0]
(* What goes in through the ports, which are shut while a program runs. *)
Port(load, exec, pause, resume) ==
    [load |-> load, pc |-> 0, exec |-> exec, one |-> FALSE, pause |-> pause, resume |-> resume]
ThroughPort(p) ==
    LET loaded[k \in 0..Len(p)] ==
            IF k = 0 THEN Dsp!WriteControl([Fresh EXCEPT !.ct[0] = 0], Port(TRUE, FALSE, FALSE, FALSE))
            ELSE Dsp!WriteProgram(loaded[k-1], p[k])
    IN  Dsp!WriteControl(loaded[Len(p)], Port(TRUE, TRUE, FALSE, FALSE))
PortsAreMemory(p) ==
    LET d == ThroughPort(p)
        written == Dsp!WriteData(Dsp!WriteData([Fresh EXCEPT !.hostBank = 1, !.hostAt = 3], 7), 8)
        again == Dsp!ReadData([written EXCEPT !.hostBank = 1, !.hostAt = 3])
    IN  /\ d = Started(p)
        /\ Dsp!WriteProgram(d, TheEnd) = d /\ Dsp!WriteData(d, 3) = d
        /\ Dsp!ReadData(d) = [v |-> 15, d |-> d]
        /\ again.v = 7 /\ Dsp!ReadData(again.d).v = 8 /\ Dsp!ReadData(again.d).d = written
Paused(d, cycles) ==
    Dsp!WriteControl(Dsp!Tick(Dsp!WriteControl(d, Port(FALSE, FALSE, TRUE, FALSE)), cycles),
                     Port(FALSE, FALSE, FALSE, TRUE))

LoopsRunTheirCount ==
    input.kind = "dsprun" =>
        \A p \in LoopPrograms(input.k) :
            LET whole == Dsp!Tick(Started(p), 60)
                cut == Dsp!Tick(Dsp!Tick(Dsp!Tick(Started(p), input.n), input.m), 60 - input.n - input.m)
                Again(d) == Dsp!Tick([d EXCEPT !.executing = TRUE, !.pc = Len(p) - 1, !.nextInstr = NoInstr], 20)
            IN  /\ whole = cut
                /\ PortsAreMemory(p)
                /\ Dsp!Tick(Paused(Dsp!Tick(Started(p), input.n), 4), 60 - input.n) = whole
                /\ ~whole.executing /\ whole.ct[0] = (input.k + 1) % 4
                /\ Again(whole).raised = 1 /\ Again(Dsp!ReadStatus(whole)).raised = 2

LevelsDef == <<3, 1, 2>>
Inputs == [kind : {"insn"}, i : FastInputs] \cup [kind : {"prog"}, prog : Programs]
          \cup [kind : {"wait"}, prog : Waits]
          \cup [kind : {"arith"}, hi : {0, 1, 2, 100, 127, 254}, lo : {0, 1, 77, 127, 128, 200, 255},
                d : {0, 1, 3, 100, 127, 128, 129, 255}]
          \cup [kind : {"dspop"}, i : {i \in DspOps : Encodable(i)}, rx : {3, 12}]
          \cup [kind : {"dsprun"}, k : 0..3, n : {0, 1, 3, 8}, m : {1, 5, 10}]
NoInput == [kind |-> "none"]
CacheSteps == [kind |-> "cache", left |-> 3]
TimerSteps == [kind |-> "timer", left |-> 3]
UnitSteps  == [kind |-> "units", left |-> 1]

CacheStart == \/ CacheInit
              \/ mem \in Memories /\ age = [s \in Sets |-> [w \in Ways |-> w]] /\ cache \in UsedCaches
TimerStart == (FrtInit \/ \E f \in UsedTimers : FrtStart(f)) /\ given = Nothing
OnChipReset == FrtStart(FrtReset(TRUE)) /\ given = Nothing
Init == \/ input \in Inputs /\ CacheInit /\ OnChipReset
        \/ input \in {NoInput, UnitSteps} /\ CacheInit /\ OnChipReset
        \/ input = CacheSteps /\ CacheStart /\ OnChipReset
        \/ input = TimerSteps /\ CacheInit /\ TimerStart

More(kind) == input.kind = kind /\ input.left > 0 /\ input' = [input EXCEPT !.left = @ - 1]
MoreCache == More("cache") /\ CacheNext /\ OnChipRests
MoreTimer == More("timer") /\ FrtNext /\ UNCHANGED given /\ CacheRests
MoreUnits == More("units") /\ (Divide \/ Transfer) /\ UNCHANGED frtVars /\ CacheRests
Next == MoreCache \/ MoreTimer \/ MoreUnits
Spec == Init /\ [][Next]_<<input, cache, mem, age, frt, base, since, seen, unseen, given>>
=============================================================================
