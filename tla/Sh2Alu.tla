------------------------------- MODULE Sh2Alu -------------------------------
(***************************************************************************)
(* What the instructions of the SH-2 do (src/runner/src/sh2_interp.c),     *)
(* twice, as the code has it: Exec is exec_one, the reference, and         *)
(* FastSimple is the dispatcher written a second time inline for the       *)
(* instructions that dominate real programs.  A byte has B bits and the    *)
(* other sizes follow: a word is two bytes, a register four, MACH and MACL *)
(* together eight, the saturating accumulator six.  An instruction is a    *)
(* decoded record: op, registers n and m, displacement or immediate d,     *)
(* access size k in bytes, and system register x.                          *)
(***************************************************************************)
EXTENDS Integers, Bitwise
CONSTANT B                          \* bits of a byte
ASSUME BytesHaveBits == B \in Nat \ {0}

W == 4 * B
Regs == 0..3                        \* the last one is the stack pointer
SP == 3
RamBytes == 16                      \* work RAM, mirrored throughout its region

Wrap(v) == v % (2^W)
Signed(v, bits) == IF v >= 2^(bits-1) THEN v - 2^bits ELSE v
Sext(v, k) == Wrap(Signed(v, k * B))            \* a k-byte value, sign extended
Low(v, k) == v % (2^(k * B))
Sign(v) == v \div 2^(W-1)
Bit(b) == IF b THEN 1 ELSE 0

(* The status register: T, S, two mask bits, Q and M. *)
PackSR(c) == Bit(c.t) + 2 * Bit(c.s) + 4 * c.i + 16 * Bit(c.q) + 32 * Bit(c.m)
UnpackSR(c, v) == [c EXCEPT !.t = v % 2 = 1, !.s = (v \div 2) % 2 = 1,
                            !.i = (v \div 4) % 4, !.q = (v \div 16) % 2 = 1,
                            !.m = (v \div 32) % 2 = 1]

(***************************************************************************)
(* The address space, a partition to each quarter: memory, where ROM       *)
(* follows work RAM; the cache purge area; the cache's data array; and the *)
(* on-chip registers, which belong to the core.  Accesses are forced down  *)
(* to the size's own boundary and are big-endian.                          *)
(***************************************************************************)
Region(a) ==
    LET part == a \div 2^(W-2)
    IN  CASE part = 1 -> "purge"
          [] part = 2 -> "array"
          [] part = 3 -> "onchip"
          [] OTHER    -> IF a < 3 * 2^(W-4) THEN "ram" ELSE "rom"

Aligned(a, k) == a - (a % k)
RomByte(a) == Bit(a % 4 = 2)
PurgePattern(a, k) == Low(1 + (a % 2), k)

ByteAt(c, a) == CASE Region(a) = "ram"    -> c.ram[a % RamBytes]
                  [] Region(a) = "array"  -> c.array[a % 4]
                  [] Region(a) = "onchip" -> c.onchip[a % 4]
                  [] OTHER                -> RomByte(a)

Joined(F(_), k) == LET join[j \in 0..k] == IF j = 0 THEN 0
                                           ELSE join[j-1] * (2^B) + F(j-1)
                   IN  join[k]
ByteOf(v, k, j) == (v \div 2^(B * (k-1-j))) % (2^B)

BusRead(c, a, k) ==
    IF Region(a) = "purge" THEN PurgePattern(a, k)
    ELSE LET Here(j) == ByteAt(c, Aligned(a, k) + j) IN Joined(Here, k)

Stored(bytes, a, k, v, size) ==
    [o \in DOMAIN bytes |->
        LET j == (o - Aligned(a, k)) % size
        IN  IF j < k THEN ByteOf(v, k, j) ELSE bytes[o]]

BusWrite(c, a, k, v) ==
    CASE Region(a) = "ram"    -> [c EXCEPT !.ram = Stored(@, a, k, v, RamBytes)]
      [] Region(a) = "array"  -> [c EXCEPT !.array = Stored(@, a, k, v, 4)]
      [] Region(a) = "onchip" -> [c EXCEPT !.onchip = Stored(@, a, k, v, 4)]
      [] OTHER                -> c                     \* ROM is ROM

(* The shortcut of the inline dispatcher: plain memory by pointer, and the bus for the rest. *)
PlainToRead(a)  == a < 2^(W-2)
PlainToWrite(a) == a < 3 * 2^(W-4)

FastRead(c, a, k) ==
    IF PlainToRead(a)
    THEN LET b == Aligned(a, k)
             Here(j) == IF b < 3 * 2^(W-4) THEN c.ram[(b % RamBytes) + j]
                                           ELSE RomByte(b + j)
         IN  Joined(Here, k)
    ELSE BusRead(c, a, k)

FastWrite(c, a, k, v) ==
    IF PlainToWrite(a)
    THEN LET b == Aligned(a, k) % RamBytes
         IN  [c EXCEPT !.ram = [o \in DOMAIN @ |->
                 IF o \in b..(b + k - 1) THEN ByteOf(v, k, o - b) ELSE @[o]]]
    ELSE BusWrite(c, a, k, v)

(***************************************************************************)
(* The reference: exec_one.                                                *)
(***************************************************************************)
SetR(c, n, v) == [c EXCEPT !.r[n] = v]
SetT(c, b) == [c EXCEPT !.t = b]
SetRT(c, n, v, b) == [c EXCEPT !.r[n] = v, !.t = b]
SetMac(c, v) == [c EXCEPT !.mach = Wrap(v \div 2^W), !.macl = Wrap(v)]
MacOf(c) == Signed(c.mach * (2^W) + c.macl, 2 * W)

Sys(c, x) == IF x = "sr" THEN PackSR(c) ELSE c[x]
SetSys(c, x, v) == IF x = "sr" THEN UnpackSR(c, v) ELSE [c EXCEPT ![x] = v]

LoadOps  == {"LD", "LDP", "LD0", "LDD", "LDG", "LDPC"}
StoreOps == {"ST", "STP", "ST0", "STD", "STG"}

LoadFrom(c, i) ==
    CASE i.op \in {"LD", "LDP"} -> c.r[i.m]
      [] i.op = "LD0"  -> Wrap(c.r[0] + c.r[i.m])
      [] i.op = "LDD"  -> Wrap(c.r[i.m] + i.d)
      [] i.op = "LDG"  -> Wrap(c.gbr + i.d)
      [] i.op = "LDPC" -> i.d
LoadTo(i) == IF i.op = "LDG" \/ (i.op = "LDD" /\ i.k < 4) THEN 0 ELSE i.n

(* The post-increment comes after the load, and not when it would undo it. *)
Load(c, i) ==
    LET loaded == SetR(c, LoadTo(i), Sext(BusRead(c, LoadFrom(c, i), i.k), i.k))
    IN  IF i.op = "LDP" /\ i.n # i.m
        THEN SetR(loaded, i.m, Wrap(loaded.r[i.m] + i.k)) ELSE loaded

(* The pre-decrement store writes its source before the pointer moves. *)
Store(c, i) ==
    CASE i.op = "ST"  -> BusWrite(c, c.r[i.n], i.k, Low(c.r[i.m], i.k))
      [] i.op = "STP" -> LET a == Wrap(c.r[i.n] - i.k)
                         IN  SetR(BusWrite(c, a, i.k, Low(c.r[i.m], i.k)), i.n, a)
      [] i.op = "ST0" -> BusWrite(c, Wrap(c.r[0] + c.r[i.n]), i.k, Low(c.r[i.m], i.k))
      [] i.op = "STD" -> IF i.k < 4
                         THEN BusWrite(c, Wrap(c.r[i.m] + i.d), i.k, Low(c.r[0], i.k))
                         ELSE BusWrite(c, Wrap(c.r[i.n] + i.d), i.k, c.r[i.m])
      [] i.op = "STG" -> BusWrite(c, Wrap(c.gbr + i.d), i.k, Low(c.r[0], i.k))

(* Instructions that give a register a value and touch nothing else. *)
ValueOps == {"MOV_RR", "MOV_I", "MOVA", "MOVT", "SWAPB", "SWAPW", "XTRCT", "ADD",
             "ADD_I", "SUB", "NEG", "EXTSB", "EXTSW", "EXTUB", "EXTUW", "AND", "OR",
             "XOR", "NOT", "AND_I", "OR_I", "XOR_I", "SHLL2", "SHLR2", "SHLL8",
             "SHLR8", "SHLL16", "SHLR16"}
ValueTo(i) == IF i.op \in {"MOVA", "AND_I", "OR_I", "XOR_I"} THEN 0 ELSE i.n
Value(c, i) ==
    LET a == c.r[i.n]
        b == c.r[i.m]
        half == 2^(2 * B)
    IN  CASE i.op = "MOV_RR" -> b
          [] i.op \in {"MOV_I", "MOVA"} -> Wrap(i.d)
          [] i.op = "MOVT"   -> Bit(c.t)
          [] i.op = "SWAPB"  -> (b - Low(b, 2)) + Low(b, 1) * (2^B) + Low(b \div 2^B, 1)
          [] i.op = "SWAPW"  -> Wrap((b \div half) + b * half)
          [] i.op = "XTRCT"  -> Wrap(b * half) + (a \div half)
          [] i.op = "ADD"    -> Wrap(a + b)
          [] i.op = "ADD_I"  -> Wrap(a + i.d)
          [] i.op = "SUB"    -> Wrap(a - b)
          [] i.op = "NEG"    -> Wrap(0 - b)
          [] i.op = "EXTSB"  -> Sext(Low(b, 1), 1)
          [] i.op = "EXTSW"  -> Sext(Low(b, 2), 2)
          [] i.op = "EXTUB"  -> Low(b, 1)
          [] i.op = "EXTUW"  -> Low(b, 2)
          [] i.op = "AND"    -> a & b
          [] i.op = "OR"     -> a | b
          [] i.op = "XOR"    -> a ^^ b
          [] i.op = "NOT"    -> (2^W - 1) - b
          [] i.op = "AND_I"  -> c.r[0] & Wrap(i.d)
          [] i.op = "OR_I"   -> c.r[0] | Wrap(i.d)
          [] i.op = "XOR_I"  -> c.r[0] ^^ Wrap(i.d)
          [] i.op = "SHLL2"  -> Wrap(a * 4)
          [] i.op = "SHLR2"  -> a \div 4
          [] i.op = "SHLL8"  -> Wrap(a * (2^B))
          [] i.op = "SHLR8"  -> a \div 2^B
          [] i.op = "SHLL16" -> Wrap(a * half)
          [] i.op = "SHLR16" -> a \div half

(* Instructions that only decide T. *)
TestOps == {"CMPEQ_I", "CMPEQ", "CMPHS", "CMPGE", "CMPHI", "CMPGT", "CMPPZ", "CMPPL",
            "CMPSTR", "TST", "TST_I", "CLRT", "SETT"}
Test(c, i) ==
    LET a == c.r[i.n]
        b == c.r[i.m]
    IN  CASE i.op = "CMPEQ_I" -> Signed(c.r[0], W) = i.d
          [] i.op = "CMPEQ"   -> a = b
          [] i.op = "CMPHS"   -> a >= b
          [] i.op = "CMPGE"   -> Signed(a, W) >= Signed(b, W)
          [] i.op = "CMPHI"   -> a > b
          [] i.op = "CMPGT"   -> Signed(a, W) > Signed(b, W)
          [] i.op = "CMPPZ"   -> Signed(a, W) >= 0
          [] i.op = "CMPPL"   -> Signed(a, W) > 0
          [] i.op = "CMPSTR"  -> \E j \in 0..3 : ByteOf(a, 4, j) = ByteOf(b, 4, j)
          [] i.op = "TST"     -> a & b = 0
          [] i.op = "TST_I"   -> c.r[0] & Wrap(i.d) = 0
          [] i.op = "CLRT"    -> FALSE
          [] i.op = "SETT"    -> TRUE

(* Instructions that change a register and T together. *)
Overflows(v) == v > 2^(W-1) - 1 \/ v < 0 - 2^(W-1)
CarryOps == {"ADDC", "ADDV", "SUBC", "SUBV", "NEGC", "DT", "SHLL", "SHLR", "SHAL",
             "SHAR", "ROTL", "ROTR", "ROTCL", "ROTCR"}
Carry(c, i) ==
    LET a == c.r[i.n]
        b == c.r[i.m]
        t == Bit(c.t)
        SignedSum(s) == SetRT(c, i.n, Wrap(Signed(a, W) + s * Signed(b, W)),
                              Overflows(Signed(a, W) + s * Signed(b, W)))
        Less(x, y) == SetRT(c, i.n, Wrap(Wrap(x - y) - t),
                            x < Wrap(x - y) \/ Wrap(x - y) < Wrap(Wrap(x - y) - t))
    IN  CASE i.op = "ADDC" -> LET t1 == Wrap(a + b)
                                  res == Wrap(t1 + t)
                              IN  SetRT(c, i.n, res, t1 < a \/ res < t1)
          [] i.op = "ADDV" -> SignedSum(1)
          [] i.op = "SUBC" -> Less(a, b)
          [] i.op = "SUBV" -> SignedSum(-1)
          [] i.op = "NEGC" -> Less(0, b)
          [] i.op = "DT"   -> SetRT(c, i.n, Wrap(a - 1), Wrap(a - 1) = 0)
          [] i.op \in {"SHLL", "SHAL"} -> SetRT(c, i.n, Wrap(2 * a), Sign(a) = 1)
          [] i.op = "SHLR"  -> SetRT(c, i.n, a \div 2, a % 2 = 1)
          [] i.op = "SHAR"  -> SetRT(c, i.n, Wrap(Signed(a, W) \div 2), a % 2 = 1)
          [] i.op = "ROTL"  -> SetRT(c, i.n, Wrap(2 * a) + Sign(a), Sign(a) = 1)
          [] i.op = "ROTR"  -> SetRT(c, i.n, (a \div 2) + (a % 2) * 2^(W-1), a % 2 = 1)
          [] i.op = "ROTCL" -> SetRT(c, i.n, Wrap(2 * a) + t, Sign(a) = 1)
          [] i.op = "ROTCR" -> SetRT(c, i.n, (a \div 2) + t * 2^(W-1), a % 2 = 1)

(* One step of a division: Q and M choose between adding and subtracting. *)
Divided(c, n, res, crossed) ==
    LET q == (crossed = (Sign(c.r[n]) = 1)) = c.m
    IN  [c EXCEPT !.r[n] = res, !.q = q, !.t = q = c.m]
Div1(c, n, m) ==
    LET shifted == Wrap(2 * c.r[n]) + Bit(c.t)
        sum     == Wrap(shifted + c.r[m])
        dif     == Wrap(shifted - c.r[m])
    IN  IF c.q # c.m THEN Divided(c, n, sum, sum < shifted)
                     ELSE Divided(c, n, dif, dif > shifted)

(* Saturation keeps six of the eight bytes for MAC.L, and MACL alone for MAC.W. *)
Clamped(v, bits) == IF v > 2^(bits-1) - 1 THEN 2^(bits-1) - 1
                    ELSE IF v < 0 - 2^(bits-1) THEN 0 - 2^(bits-1) ELSE v
Popped(c, n, k) == SetR(c, n, Wrap(c.r[n] + k))
SumL(c, sum) == SetMac(c, IF c.s THEN Clamped(sum, 6 * B) ELSE sum)
SumW(c, sum) == [c EXCEPT !.macl = Wrap(Clamped(sum, W)),
                          !.mach = IF Overflows(sum) THEN @ | 1 ELSE @]

\* k-byte operands from the two pointers, each moved on; they may be one register.
Product(c, n, m, k) ==
    Signed(BusRead(c, c.r[n], k), k * B) * Signed(BusRead(c, Popped(c, n, k).r[m], k), k * B)
MacL(c, n, m) == SumL(Popped(Popped(c, n, 4), m, 4), MacOf(c) + Product(c, n, m, 4))
MacW(c, n, m) ==
    IF c.s THEN SumW(Popped(Popped(c, n, 2), m, 2), Signed(c.macl, W) + Product(c, n, m, 2))
           ELSE SetMac(Popped(Popped(c, n, 2), m, 2), MacOf(c) + Product(c, n, m, 2))

(* Read-modify-write on memory. *)
ByteOps == {"ANDB", "ORB", "XORB", "TSTB", "TAS"}
ByteResult(op, v, d) ==
    CASE op = "ANDB" -> v & d
      [] op = "ORB"  -> v | d
      [] op = "XORB" -> v ^^ d
      [] op = "TAS"  -> v | 2^(B-1)
OnByteAt(c, i, a, v) ==
    IF i.op = "TSTB" THEN SetT(c, v & Low(i.d, 1) = 0)
    ELSE BusWrite(IF i.op = "TAS" THEN SetT(c, v = 0) ELSE c, a, 1,
                  ByteResult(i.op, v, Low(i.d, 1)))
OnByte(c, i) ==
    LET a == IF i.op = "TAS" THEN c.r[i.n] ELSE Wrap(c.gbr + c.r[0])
    IN  OnByteAt(c, i, a, BusRead(c, a, 1))

Exec(c, i) ==
    LET a == c.r[i.n]
        b == c.r[i.m]
    IN  CASE i.op \in LoadOps  -> Load(c, i)
          [] i.op \in StoreOps -> Store(c, i)
          [] i.op \in ValueOps -> SetR(c, ValueTo(i), Value(c, i))
          [] i.op \in TestOps  -> SetT(c, Test(c, i))
          [] i.op \in CarryOps -> Carry(c, i)
          [] i.op \in ByteOps  -> OnByte(c, i)
          [] i.op = "DIV0U"  -> [c EXCEPT !.m = FALSE, !.q = FALSE, !.t = FALSE]
          [] i.op = "DIV0S"  -> [c EXCEPT !.q = Sign(a) = 1, !.m = Sign(b) = 1,
                                          !.t = Sign(a) # Sign(b)]
          [] i.op = "DIV1"   -> Div1(c, i.n, i.m)
          [] i.op = "DMULS"  -> SetMac(c, Signed(a, W) * Signed(b, W))
          [] i.op = "DMULU"  -> SetMac(c, a * b)
          [] i.op = "MULL"   -> [c EXCEPT !.macl = Wrap(a * b)]
          [] i.op = "MULSW"  -> [c EXCEPT !.macl = Wrap(Signed(Low(a, 2), 2 * B) * Signed(Low(b, 2), 2 * B))]
          [] i.op = "MULUW"  -> [c EXCEPT !.macl = Low(a, 2) * Low(b, 2)]
          [] i.op = "MACL"   -> MacL(c, i.n, i.m)
          [] i.op = "MACW"   -> MacW(c, i.n, i.m)
          [] i.op = "CLRMAC" -> [c EXCEPT !.mach = 0, !.macl = 0]
          [] i.op = "SLEEP"  -> [c EXCEPT !.sleeping = TRUE]
          [] i.op = "STS"    -> SetR(c, i.n, Sys(c, i.x))
          [] i.op = "LDS"    -> SetSys(c, i.x, a)
          [] i.op = "STSL"   -> LET at == Wrap(a - 4)
                                IN  BusWrite(SetR(c, i.n, at), at, 4, Sys(c, i.x))
          [] i.op = "LDSL"   -> SetR(SetSys(c, i.x, BusRead(c, a, 4)), i.n, Wrap(a + 4))
          [] i.op = "NOP"    -> c

(***************************************************************************)
(* The same instructions in the inline dispatcher; the ones it does not    *)
(* know go to the reference.                                               *)
(***************************************************************************)
FastSys(i) == \/ /\ i.op \in {"LDS", "STSL", "LDSL"}
                 /\ i.x \in {"mach", "macl", "pr"}
              \/ /\ i.op = "STS"
                 /\ i.x \in {"sr", "mach", "macl"}
FastOps == LoadOps \cup StoreOps \cup
    {"ADD_I", "MOV_I", "MOV_RR", "NOT", "SWAPB", "SWAPW", "NEG", "EXTUB", "EXTUW", "EXTSB",
     "EXTSW", "TST", "AND", "XOR", "OR", "XTRCT", "CMPEQ", "CMPHS", "CMPGE", "CMPHI", "CMPGT",
     "ADD", "SUB", "DIV1", "DMULU", "DMULS", "DT", "SHLL", "SHLR", "SHLL2", "SHLR2", "SHLL8",
     "SHLR8", "SHLL16", "SHLR16", "SHAR", "ROTCL", "ROTCR", "CMPPZ", "CMPPL", "CMPEQ_I",
     "MOVA", "TST_I", "AND_I", "XOR_I", "OR_I", "NOP", "CLRT", "SETT", "DIV0U", "CLRMAC",
     "MOVT", "MACL"}
Handles(i) == i.op \in FastOps \/ FastSys(i)

(* Here the pointer moves first and the loaded value lands last. *)
FastLoad(c, i) ==
    LET v == Sext(FastRead(c, LoadFrom(c, i), i.k), i.k)
        moved == IF i.op = "LDP" /\ i.n # i.m THEN SetR(c, i.m, Wrap(c.r[i.m] + i.k)) ELSE c
    IN  SetR(moved, LoadTo(i), v)

FastStore(c, i) ==
    LET a == CASE i.op = "ST"  -> c.r[i.n]
               [] i.op = "STP" -> Wrap(c.r[i.n] - i.k)
               [] i.op = "ST0" -> Wrap(c.r[0] + c.r[i.n])
               [] i.op = "STD" -> Wrap((IF i.k < 4 THEN c.r[i.m] ELSE c.r[i.n]) + i.d)
               [] i.op = "STG" -> Wrap(c.gbr + i.d)
        from == IF i.op = "STG" \/ (i.op = "STD" /\ i.k < 4) THEN 0 ELSE i.m
        done == FastWrite(c, a, i.k, Low(c.r[from], i.k))
    IN  IF i.op = "STP" THEN SetR(done, i.n, a) ELSE done

FastShift(c, i) ==
    LET a == c.r[i.n]
    IN  CASE i.op = "SHLL"  -> SetRT(c, i.n, Wrap(a * 2), a >= 2^(W-1))
          [] i.op = "SHLR"  -> SetRT(c, i.n, a \div 2, a % 2 # 0)
          [] i.op = "SHAR"  -> SetRT(c, i.n, (a \div 2) + Sign(a) * 2^(W-1), a % 2 # 0)
          [] i.op = "ROTCL" -> SetRT(c, i.n, Wrap(a * 2) + Bit(c.t), a >= 2^(W-1))
          [] i.op = "ROTCR" -> SetRT(c, i.n, (a \div 2) + Bit(c.t) * 2^(W-1), a % 2 # 0)
          [] i.op = "DT"    -> SetRT(c, i.n, (a - 1) % (2^W), a = 1)

FastSum(c, r) ==
    LET top == 2^(6 * B - 1) - 1
    IN  SetMac(c, CASE c.s /\ r > top      -> top
                    [] c.s /\ r < -top - 1 -> -top - 1
                    [] OTHER               -> r)
FastMac(c, i) ==
    LET x == Signed(FastRead(c, c.r[i.n], 4), W)
        step1 == SetR(c, i.n, Wrap(c.r[i.n] + 4))
        y == Signed(FastRead(step1, step1.r[i.m], 4), W)
    IN  FastSum(SetR(step1, i.m, Wrap(step1.r[i.m] + 4)), MacOf(c) + x * y)

FastSimple(c, i) ==
    LET a == c.r[i.n]
    IN  CASE i.op \in LoadOps  -> FastLoad(c, i)
          [] i.op \in StoreOps -> FastStore(c, i)
          [] i.op \in {"SHLL", "SHLR", "SHAR", "ROTCL", "ROTCR", "DT"} -> FastShift(c, i)
          [] i.op = "MACL" -> FastMac(c, i)
          [] i.op = "CMPEQ_I" -> SetT(c, c.r[0] = Wrap(i.d))
          [] i.op = "MOVT" -> SetR(c, i.n, IF c.t THEN 1 ELSE 0)
          [] i.op = "STS"  -> SetR(c, i.n, Sys(c, i.x))
          [] i.op = "LDS"  -> SetSys(c, i.x, a)
          [] i.op = "STSL" -> FastWrite(SetR(c, i.n, Wrap(a - 4)), Wrap(a - 4), 4, Sys(c, i.x))
          [] i.op = "LDSL" -> SetR(SetSys(c, i.x, FastRead(c, a, 4)), i.n, Wrap(a + 4))
          [] i.op \in ValueOps -> SetR(c, ValueTo(i), Value(c, i))
          [] OTHER -> Exec(c, i)
=============================================================================
