------------------------------- MODULE Sh2Core -------------------------------
(***************************************************************************)
(* Control flow of an SH-2 core (src/runner/src/sh2_interp.c): one         *)
(* instruction with its delay slot, interrupts at the boundary, the        *)
(* faults, and the two engines that run a slice of clocks.  Step is        *)
(* sh2_step.  RunOnce is one turn of the loop of sh2_run, which folds      *)
(* wait loops, dispatches common instructions inline and gives the rest    *)
(* to Step.  A program is a function from even addresses to decoded        *)
(* instructions, wherever they lie; words outside it decode to nothing.    *)
(* A master's inline dispatch does not ask whether it may fetch from where *)
(* it is, as Step does: the two agree only of programs that lie where a    *)
(* core may fetch them.                                                    *)
(***************************************************************************)
EXTENDS Sh2Alu, FiniteSets
CONSTANTS Levels,     \* SCU source -> level: the sources in the order they are scanned
          BadPc       \* from here on an address is no place to fetch from

Op(prog, pc) == IF pc \in DOMAIN prog THEN prog[pc] ELSE [op |-> "UNDEF"]

BranchOps == {"BRA", "BSR", "BT", "BF", "BTS", "BFS", "BRAF", "BSRF", "JMP", "JSR", "RTS",
              "RTE", "TRAPA"}
CallOps   == {"BSR", "BSRF", "JSR"}
Slotless  == {"BT", "BF", "TRAPA"}

(***************************************************************************)
(* Interrupts.  ipend and imask are the SCU's; frt and dmac say that the   *)
(* core's own timer or DMA channel has an enabled flag up, with its level. *)
(***************************************************************************)
Deliverable(c) == {b \in c.ipend : b \notin c.imask}

ScuPending(c) ==
    LET up == {b \in Deliverable(c) : Levels[b] > c.i}
    IN  IF up = {} THEN 0 ELSE CHOOSE b \in up : \A o \in up : b <= o
FrtPending(c)  == c.frt > c.i /\ (c.frtIrq \/ c.slave)
DmacPending(c) == c.dmac > c.i
FrtPend(c)     == c.frtIrq /\ c.frt > 0       \* the flag the fast paths look at

Push(c, v) == LET at == Wrap(c.r[SP] - 4) IN BusWrite(SetR(c, SP, at), at, 4, v)
Vectored(c, vector, cost) ==
    [c EXCEPT !.pc = BusRead(c, Wrap(c.vbr + 4 * vector), 4), !.cycles = @ + cost]
Entered(c, savedPc, vector, cost) == Vectored(Push(Push(c, PackSR(c)), savedPc), vector, cost)

(* What the early way out of take_interrupt knows: the SCU has nothing to deliver. *)
NothingPossible(c) == ~c.slave /\ ~FrtPend(c) /\ Deliverable(c) = {}

TakeInterrupt(c) ==
    LET scu == IF c.slave THEN 0 ELSE ScuPending(c)
        own == FrtPending(c) \/ DmacPending(c)
        level == IF scu # 0 THEN Levels[scu]
                 ELSE IF FrtPending(c) THEN c.frt ELSE c.dmac
    IN  IF NothingPossible(c) \/ (scu = 0 /\ ~own) THEN c
        ELSE [Entered([c EXCEPT !.ipend = @ \ {scu}], c.pc, level, 13)
                EXCEPT !.i = level, !.sleeping = FALSE]

(***************************************************************************)
(* Faults.  A master that was called from work RAM is sent back to its     *)
(* caller; any other core halts.                                           *)
(***************************************************************************)
Fault(c) == IF ~c.slave /\ Region(c.pr) = "ram" THEN [c EXCEPT !.pc = c.pr, !.ends = TRUE]
            ELSE [c EXCEPT !.halted = TRUE, !.ends = TRUE]
Fetchable(pc) == pc < BadPc

(* The clock change the SMPC finished: an interrupt no mask can hold off. *)
ClockChanged(c) ==
    [Entered([c EXCEPT !.ckchg = FALSE, !.ipend = {}], c.pc, 1, 0) EXCEPT !.sleeping = FALSE]

Taken(c, i) == CASE i.op \in {"BT", "BTS"} -> c.t
                 [] i.op \in {"BF", "BFS"} -> ~c.t
                 [] OTHER -> TRUE
BranchTarget(c, i, pc) ==
    CASE i.op \in {"BRAF", "BSRF"} -> Wrap(pc + 4 + c.r[i.n])
      [] i.op \in {"JMP", "JSR"}   -> c.r[i.n]
      [] i.op = "RTS" -> c.pr
      [] OTHER -> i.d

(* A return from an interrupt takes PC and SR off the stack. *)
Restored(c) == [SetR(c, SP, Wrap(c.r[SP] + 8)) EXCEPT !.pc = BusRead(c, c.r[SP], 4)]
Called(c, i) == IF i.op \in CallOps THEN [c EXCEPT !.pr = Wrap(c.pc + 4)] ELSE c
SlotFaults(slot) == slot.op \in BranchOps \cup {"UNDEF"}

(* The target, PR and a restored stack come before the slot; the restored SR after it. *)
Branch(c, i, prog) ==
    LET pc   == c.pc
        ret  == i.op = "RTE"
        slot == Op(prog, Wrap(pc + 2))
        ready == IF ret THEN Restored(c) ELSE Called(c, i)
        SrAfter(b) == IF ret THEN UnpackSR(b, BusRead(c, Wrap(c.r[SP] + 4), 4)) ELSE b
    IN  CASE i.op = "TRAPA" -> Entered(c, Wrap(pc + 2), i.d, 8)
          [] i.op \in {"BT", "BF"} ->
                IF Taken(c, i) THEN [c EXCEPT !.pc = i.d, !.cycles = @ + 3]
                               ELSE [c EXCEPT !.pc = Wrap(pc + 2), !.cycles = @ + 1]
          [] i.op \notin Slotless /\ SlotFaults(slot) ->
                Fault([ready EXCEPT !.pc = IF slot.op = "UNDEF" THEN pc ELSE Wrap(pc + 2)])
          [] OTHER -> [SrAfter(Exec(ready, slot)) EXCEPT
                          !.pc = CASE ret -> ready.pc
                                   [] ~ret /\ Taken(c, i) -> BranchTarget(c, i, pc)
                                   [] OTHER -> Wrap(pc + 4),
                          !.cycles = @ + 2]

Executed(c, prog) ==
    LET i == Op(prog, c.pc)
    IN  CASE ~Fetchable(c.pc) -> IF c.slave THEN Fault(c) ELSE [c EXCEPT !.pc = c.pr]
          [] i.op = "UNDEF" -> Fault(c)
          [] i.op \in BranchOps -> Branch(c, i, prog)
          [] OTHER -> [Exec(c, i) EXCEPT !.pc = Wrap(@ + 2), !.cycles = @ + 1]

Awake(c, prog) == IF c.sleeping THEN [c EXCEPT !.cycles = @ + 1] ELSE Executed(c, prog)
Step(c, prog) == IF c.ckchg /\ ~c.slave THEN ClockChanged(c) ELSE Awake(TakeInterrupt(c), prog)

(***************************************************************************)
(* The loop of sh2_run.                                                    *)
(***************************************************************************)
(* Whether nothing can interrupt: the slave asks its own devices, the master the SCU. *)
MayFast(c) == IF c.slave THEN ~FrtPend(c) /\ ~DmacPending(c)
              ELSE ~FrtPend(c) /\ Deliverable(c) = {}

IsCode(prog, pc, ops) == \A j \in DOMAIN ops : Op(prog, pc + 2 * (j - 1)).op = ops[j]

(* DT Rn; BF back to it: the counter runs down to one, or as far as the clocks allow. *)
CountFold(c, prog, target) ==
    LET pc == c.pc
        n  == prog[pc].n
        left == (target - c.cycles) \div 4
        reps == IF left > c.r[n] - 1 THEN c.r[n] - 1 ELSE left
    IN  IF /\ IsCode(prog, pc, <<"DT", "BF">>)
           /\ pc % 16 <= 12
           /\ c.r[n] > 1
           /\ prog[pc + 2].d = pc
           /\ reps > 0
        THEN {[c EXCEPT !.r[n] = @ - reps, !.t = FALSE, !.cycles = @ + 4 * reps]}
        ELSE {}

(* MOV.B @Rm,R0; AND #mask,R0; TST R0,R0; BT back: a flag that is down stays down. *)
FlagFold(c, prog, target) ==
    LET pc == c.pc
        m  == prog[pc].m
        plain == PlainToRead(c.r[m]) \/ (Region(c.r[m]) = "onchip" /\ c.r[m] % 4 = 1)
        flag  == BusRead(c, c.r[m], 1)
    IN  IF /\ IsCode(prog, pc, <<"LD", "AND_I", "TST", "BT">>)
           /\ pc % 16 <= 8
           /\ target - c.cycles >= 6
           /\ prog[pc].k = 1 /\ prog[pc].n = 0 /\ m # 0
           /\ prog[pc + 4].n = 0 /\ prog[pc + 4].m = 0
           /\ prog[pc + 6].d = pc
           /\ plain
           /\ flag & Low(prog[pc + 2].d, 1) = 0
        THEN {[c EXCEPT !.r[0] = 0, !.t = TRUE,
                        !.cycles = @ + 6 * ((target - c.cycles) \div 6)]}
        ELSE {}

(* MOV.W @Rm,Rn; EXTU.W Rn,Rn; TST Rn,Rn; BT/S back; MOV #0,Rn: an empty mailbox. *)
MailFold(c, prog, target) ==
    LET pc == c.pc
        n  == prog[pc].n
        m  == prog[pc].m
    IN  IF /\ IsCode(prog, pc, <<"LD", "EXTUW", "TST", "BTS", "MOV_I">>)
           /\ pc % 16 <= 6
           /\ target - c.cycles >= 5
           /\ prog[pc].k = 2 /\ n # m
           /\ \A j \in {2, 4} : prog[pc + j].n = n /\ prog[pc + j].m = n
           /\ prog[pc + 6].d = pc
           /\ prog[pc + 8].n = n /\ prog[pc + 8].d = 0
           /\ PlainToRead(Aligned(c.r[m], 2))
           /\ FastRead(c, c.r[m], 2) = 0
        THEN {[c EXCEPT !.r[n] = 0, !.t = TRUE,
                        !.cycles = @ + 5 * ((target - c.cycles) \div 5)]}
        ELSE {}

Folded(c, prog, target) ==
    IF c.pc \notin DOMAIN prog THEN {}
    ELSE CASE prog[c.pc].op = "DT" -> CountFold(c, prog, target)
           [] prog[c.pc].op = "LD" /\ prog[c.pc].k = 1 -> FlagFold(c, prog, target)
           [] prog[c.pc].op = "LD" /\ prog[c.pc].k = 2 -> MailFold(c, prog, target)
           [] OTHER -> {}

(* Branches whose slot the dispatcher knows; PR is written before the slot runs. *)
FastBranches == {"BTS", "BFS", "BRA", "BSR", "RTS", "JSR", "JMP", "BSRF", "BRAF"}
Landed(c, i, ran) ==
    [ran EXCEPT !.pc = IF Taken(c, i) THEN BranchTarget(c, i, c.pc) ELSE Wrap(c.pc + 4),
                !.cycles = @ + 2]
FastBranchLatePr(c, i, slot) ==
    [Landed(c, i, FastSimple(c, slot)) EXCEPT
        !.pr = IF i.op \in CallOps THEN Wrap(c.pc + 4) ELSE @]

FastBranch(c, i, slot) == Landed(c, i, FastSimple(Called(c, i), slot))

(* The dispatcher: the state it leaves, or nothing where it gives up. *)
Inline(c, prog) ==
    LET i == Op(prog, c.pc)
        slot == Op(prog, Wrap(c.pc + 2))
    IN  CASE Handles(i) -> {[FastSimple(c, i) EXCEPT !.pc = Wrap(c.pc + 2), !.cycles = @ + 1]}
          [] i.op \in {"BT", "BF"} ->
                {IF Taken(c, i) THEN [c EXCEPT !.pc = i.d, !.cycles = @ + 3]
                                ELSE [c EXCEPT !.pc = Wrap(c.pc + 2), !.cycles = @ + 1]}
          [] i.op \in FastBranches /\ Handles(slot) -> {FastBranch(c, i, slot)}
          [] i.op \notin BranchOps \cup {"UNDEF"} /\ Fetchable(c.pc) ->
                {[Exec(c, i) EXCEPT !.pc = Wrap(c.pc + 2), !.cycles = @ + 1]}
          [] OTHER -> {}
(* The call it gave up has written PR already. *)
GivenUp(c, i) == IF i.op \in FastBranches THEN Called(c, i) ELSE c

OrElse(made, otherwise) == IF made # {} THEN CHOOSE b \in made : TRUE ELSE otherwise

(* A turn of a core that is awake or has just looked for a reason to wake. *)
Turned(c, prog, target) ==
    CASE c.sleeping /\ ~(c.ckchg /\ ~c.slave) -> [c EXCEPT !.cycles = target]
      [] ~c.sleeping /\ ~c.ckchg /\ (~c.slave \/ Fetchable(c.pc)) /\ MayFast(c) ->
            OrElse(Folded(c, prog, target),
                   OrElse(Inline(c, prog), Step(GivenUp(c, Op(prog, c.pc)), prog)))
      [] OTHER -> Step(c, prog)

RunOnce(c, prog, target) ==
    Turned(IF c.sleeping /\ ~(c.ckchg /\ ~c.slave) THEN TakeInterrupt(c) ELSE c, prog, target)

(* A slice: turns until the clocks are used up, a fault, or the bound on turns. *)
Slice(Turn(_), c, target, turns) ==
    LET after[k \in 0..turns] ==
            IF k = 0 THEN c
            ELSE LET b == after[k-1]
                 IN  IF b.cycles >= target \/ b.halted \/ b.ends THEN b ELSE Turn(b)
    IN  [after[turns] EXCEPT !.ends = FALSE]

Stepped(c, prog, target, turns) ==
    LET Turn(b) == Step(b, prog) IN Slice(Turn, c, target, turns)
Run(c, prog, target, turns) ==
    LET Turn(b) == RunOnce(b, prog, target) IN Slice(Turn, c, target, turns)
=============================================================================
