------------------------------ MODULE Sh2Proofs ------------------------------
(* Proofs about the SH-2's on-chip units and its instruction cache.  However *)
(* the clocks come, the timer counts them all; the divider and the DMA       *)
(* controller are exact for words of any size; and the cache is a private    *)
(* LRU cache, for any number of sets, lines and values, after any sequence   *)
(* of fetches, stores, purges and array writes.                              *)
EXTENDS Sh2Cache, OnChip, WellFoundedInduction, TLAPS

-----------------------------------------------------------------------------
(* Numbers, and what is done some number of times.                           *)

\* A set of numbers that is not empty has a least one.
LEMMA LeastNumber ==
  ASSUME NEW T, T \subseteq Nat, T # {}
  PROVE  \E e \in T : \A g \in T : e <= g
<1> DEFINE R == {xy \in Nat \X Nat : xy[1] < xy[2]}
<1>1. IsWellFoundedOn(R, Nat)
  BY NatLessThanWellFounded DEF OpToRel
<1>2. PICK e \in T : \A g \in T : <<g, e>> \notin R
  BY <1>1, WFMin
<1>3. ASSUME NEW g \in T PROVE e <= g
  <2>1. e \in Nat /\ g \in Nat /\ <<g, e>> \notin R /\ <<g, e>> \in Nat \X Nat
    BY <1>2
  <2> QED
    BY <2>1
<1> QED
  BY <1>3

LEMMA Division ==
  ASSUME NEW a \in Int, NEW d \in Nat \ {0}
  PROVE  /\ a \div d \in Int /\ a % d \in 0..(d - 1)
         /\ a % d = a - d * (a \div d)
         /\ a >= 0 => a \div d >= 0
<1>1. a \div d \in Int
  OBVIOUS
<1>2. a % d \in 0..(d - 1)
  OBVIOUS
<1>3. a % d = a - d * (a \div d)
  OBVIOUS
<1>4. a >= 0 => a \div d >= 0
  OBVIOUS
<1> QED
  BY <1>1, <1>2, <1>3, <1>4

\* A multiple of d that is less than d on either side is none.
LEMMA SmallMultiple ==
  ASSUME NEW d \in Nat, NEW k \in Int, -d < d * k, d * k < d
  PROVE  k = 0
<1>1. CASE k >= 1
  <2>1. d * k = d + d * (k - 1) /\ d * (k - 1) >= 0
    BY <1>1
  <2> QED
    BY <2>1
<1>2. CASE k <= -1
  <2>1. d * k = -d + d * (k + 1) /\ d * (k + 1) <= 0
    BY <1>2
  <2> QED
    BY <2>1
<1> QED
  BY <1>1, <1>2

\* Quotient and remainder are the only ones.
LEMMA DivisionUnique ==
  ASSUME NEW d \in Nat, NEW q \in Int, NEW r \in 0..(d - 1)
  PROVE  (d * q + r) \div d = q /\ (d * q + r) % d = r
<1> DEFINE a == d * q + r
<1>0. a \in Int /\ a = d * q + r
  OBVIOUS
<1> HIDE DEF a
<1>1. d \in Nat \ {0} /\ a \div d \in Int /\ a % d \in 0..(d - 1) /\ a % d = a - d * (a \div d)
  <2>1. d \in Nat \ {0}
    OBVIOUS
  <2> QED
    BY <1>0, <2>1, Division
<1> DEFINE e == a \div d
           f == a % d
<1>2. d * (e - q) = d * e - d * q
  BY <1>1
<1>3. e - q = 0
  <2> HIDE DEF e, f
  <2>1. -d < d * (e - q) /\ d * (e - q) < d /\ e - q \in Int
    BY <1>0, <1>1, <1>2 DEF e, f
  <2> QED
    BY <2>1, SmallMultiple
<1> QED
  BY <1>0, <1>1, <1>3 DEF a

\* Counting on from a remainder.
LEMMA Carried ==
  ASSUME NEW d \in Nat, d > 0, NEW a \in Int, NEW b \in Int
  PROVE  /\ ((a % d) + b) % d = (a + b) % d
         /\ (a \div d) + ((a % d) + b) \div d = (a + b) \div d
<1> DEFINE q == a \div d
           r == a % d
           s == (r + b) \div d
           t == (r + b) % d
<1>1. q \in Int /\ r \in 0..(d - 1) /\ r = a - d * q
  BY Division
<1>2. s \in Int /\ t \in 0..(d - 1) /\ t = r + b - d * s
  BY <1>1, Division
<1>3. a + b = d * (q + s) + t
  <2> HIDE DEF q, r, s, t
  <2>1. d * (q + s) = d * q + d * s
    BY <1>1, <1>2
  <2> QED
    BY <1>1, <1>2, <2>1
<1> HIDE DEF q, r, s, t
<1>4. (a + b) \div d = q + s /\ (a + b) % d = t
  <2> DEFINE m == q + s
             n == a + b
  <2>1. m \in Int /\ n \in Int /\ n = d * m + t
    BY <1>1, <1>2, <1>3
  <2> HIDE DEF m, n
  <2>2. d \in Nat /\ t \in 0..(d - 1)
    BY <1>2
  <2>3. (d * m + t) \div d = m /\ (d * m + t) % d = t
    BY <2>1, <2>2, DivisionUnique
  <2> QED
    BY <2>1, <2>3 DEF m, n
<1> QED
  BY <1>4 DEF q, r, s, t

\* A number below d is its own remainder.
LEMMA Remainder ==
  ASSUME NEW d \in Nat, NEW r \in 0..(d - 1)
  PROVE  r % d = r /\ r \div d = 0
<1>1. (d * 0 + r) \div d = 0 /\ (d * 0 + r) % d = r
  BY DivisionUnique
<1> QED
  BY <1>1

\* Induction up to a bound, for the set of the numbers that are meant.
LEMMA UpTo ==
  ASSUME NEW n \in Nat, NEW S, 0 \in S, \A k \in 1..n : k - 1 \in S => k \in S
  PROVE  \A k \in 0..n : k \in S
<1> DEFINE Bad == {k \in 0..n : k \notin S}
<1>1. SUFFICES ASSUME Bad # {} PROVE FALSE
  OBVIOUS
<1>2. PICK m \in Bad : \A k \in Bad : m <= k
  <2>1. Bad \subseteq Nat
    OBVIOUS
  <2> HIDE DEF Bad
  <2> QED
    BY <1>1, <2>1, LeastNumber
<1>3. m \in 1..n /\ m - 1 \in 0..n /\ m - 1 \notin Bad
  BY <1>2
<1> QED
  BY <1>2, <1>3

\* F applied n times to x is a function on 0..n.
Iterates(F, x, n, g) == g = [k \in 0..n |-> IF k = 0 THEN x ELSE F[g[k - 1]]]

LEMMA IterationExists ==
  ASSUME NEW n \in Nat, NEW F, NEW x
  PROVE  \E g : Iterates(F, x, n, g)
<1> DEFINE Bad == {m \in Nat : ~ \E g : Iterates(F, x, m, g)}
<1>1. SUFFICES ASSUME Bad # {} PROVE FALSE
  OBVIOUS
<1>2. PICK m \in Bad : \A k \in Bad : m <= k
  BY <1>1, LeastNumber
<1>3. m # 0
  <2>1. Iterates(F, x, 0, [k \in 0..0 |-> x])
    BY DEF Iterates
  <2> QED
    BY <2>1
<1>4. m - 1 \in Nat /\ m - 1 \notin Bad
  BY <1>2, <1>3
<1>5. PICK g : Iterates(F, x, m - 1, g)
  BY <1>4
<1> DEFINE longer == [k \in 0..m |-> IF k = m THEN F[g[m - 1]] ELSE g[k]]
<1>6. \A k \in 0..(m - 1) : longer[k] = g[k]
  BY <1>4
<1>7. \A k \in 0..(m - 1) : g[k] = IF k = 0 THEN x ELSE F[g[k - 1]]
  BY <1>5, <1>4 DEF Iterates
<1>8. ASSUME NEW k \in 0..m
      PROVE  longer[k] = IF k = 0 THEN x ELSE F[longer[k - 1]]
  <2>1. CASE k = m
    BY <1>3, <1>4, <1>6, <2>1
  <2>2. CASE k # m
    <3>1. k \in 0..(m - 1) /\ (k # 0 => k - 1 \in 0..(m - 1))
      BY <1>4, <2>2
    <3> QED
      BY <1>6, <1>7, <3>1
  <2> QED
    BY <2>1, <2>2
<1>9. Iterates(F, x, m, longer)
  BY <1>8 DEF Iterates
<1> QED
  BY <1>9

-----------------------------------------------------------------------------
(* The free-running timer.                                                   *)

LEMMA CountsFacts == Counts \in Nat \ {0} /\ Counts \in Nat /\ Counts > 0
BY OnChipAssumption

\* pend is the cached answer.
PendIsCached(f) == f.pend = (f.irqOn /\ f.tier \cap f.flags # {})

LEMMA UpdatePendType ==
  ASSUME NEW f \in Timers
  PROVE  FrtUpdatePend(f) \in Timers /\ PendIsCached(FrtUpdatePend(f))
<1>1. f.irqOn \in BOOLEAN
  BY DEF Timers
<1>2. (f.irqOn /\ (f.tier \cap f.flags # {})) \in BOOLEAN
  BY <1>1
<1> QED
  BY <1>2 DEF Timers, FrtUpdatePend, PendIsCached

\* What a tick makes of the timer, before the cached answer is made again.
Ticked(f) ==
    LET next == (f.frc + 1) % Counts
        clears == next = f.ocra /\ f.cclra
        now == IF clears THEN 0 ELSE next
    IN  [f EXCEPT !.frc = now, !.pre = IF clears THEN 0 ELSE @,
                  !.flags = @ \cup (IF next = 0 THEN {"OVF"} ELSE {})
                              \cup (IF next = f.ocra THEN {"OCFA"} ELSE {})
                              \cup (IF now = f.ocrb THEN {"OCFB"} ELSE {})]

LEMMA TickType ==
  ASSUME NEW f \in Timers
  PROVE  FrtTick(f) \in Timers /\ PendIsCached(FrtTick(f))
<1> DEFINE next == (f.frc + 1) % Counts
<1>1. f.frc \in Nat /\ next \in 0..(Counts - 1) /\ 0 \in 0..(Counts - 1)
  <2>1. f.frc \in 0..(Counts - 1)
    BY DEF Timers
  <2>2. f.frc \in Nat /\ f.frc + 1 \in Int
    BY <2>1
  <2>3. next \in 0..(Counts - 1)
    BY <2>2, CountsFacts, Division
  <2> HIDE DEF next
  <2> QED
    BY <2>2, <2>3, CountsFacts
<1>2. FrtTick(f) = FrtUpdatePend(Ticked(f))
  BY DEF FrtTick, Ticked
<1>3. Ticked(f) \in Timers
  <2> HIDE DEF next
  <2>1. f.pre \in Nat /\ 0 \in Nat
    BY DEF Timers
  <2> QED
    BY <1>1, <2>1 DEF Timers, Ticked, Flags, next
<1> QED
  BY <1>2, <1>3, UpdatePendType

LEMMA TicksAre ==
  ASSUME NEW f \in Timers, NEW n \in Nat
  PROVE  \E g : /\ g[0] = f /\ FrtTicks(f, n) = g[n]
                /\ \A k \in 1..n : g[k] = FrtTick(g[k - 1])
                /\ \A k \in 0..n : g[k] \in Timers
<1> DEFINE F == [h \in Timers |-> FrtTick(h)]
           Does(g) == g = [k \in 0..n |-> IF k = 0 THEN f ELSE FrtTick(g[k - 1])]
<1>1. PICK g0 : Iterates(F, f, n, g0)
  BY IterationExists
<1>2. g0[0] = f /\ \A k \in 1..n : g0[k] = F[g0[k - 1]]
  BY <1>1 DEF Iterates
<1>3. \A h \in Timers : F[h] = FrtTick(h) /\ F[h] \in Timers
  BY TickType
<1> HIDE DEF F
<1>4. \A k \in 0..n : g0[k] \in Timers
  <2> DEFINE S == {k \in 0..n : g0[k] \in Timers}
  <2>1. 0 \in S
    BY <1>2
  <2>2. \A k \in 1..n : k - 1 \in S => k \in S
    BY <1>2, <1>3
  <2> HIDE DEF S
  <2>3. \A k \in 0..n : k \in S
    BY <2>1, <2>2, UpTo
  <2> QED
    BY <2>3 DEF S
<1>5. Does(g0)
  <2>1. \A k \in 1..n : k - 1 \in 0..n /\ g0[k] = FrtTick(g0[k - 1])
    BY <1>2, <1>4, <1>3
  <2>2. g0 = [k \in 0..n |-> IF k = 0 THEN f ELSE F[g0[k - 1]]]
    BY <1>1 DEF Iterates
  <2>3. \A k \in 0..n : (IF k = 0 THEN f ELSE F[g0[k - 1]]) = (IF k = 0 THEN f ELSE FrtTick(g0[k - 1]))
    BY <2>1, <1>2
  <2> QED
    BY <2>2, <2>3
<1> DEFINE g == CHOOSE h : Does(h)
<1>6. Does(g)
  BY <1>5
<1>7. FrtTicks(f, n) = g[n]
  BY DEF FrtTicks
<1> HIDE DEF g
<1>8. g[0] = f /\ \A k \in 1..n : g[k] = FrtTick(g[k - 1])
  BY <1>6
<1>9. \A k \in 0..n : g[k] \in Timers
  <2> DEFINE S == {k \in 0..n : g[k] \in Timers}
  <2>1. 0 \in S
    BY <1>8
  <2>2. \A k \in 1..n : k - 1 \in S => k \in S
    BY <1>8, TickType
  <2> HIDE DEF S
  <2>3. \A k \in 0..n : k \in S
    BY <2>1, <2>2, UpTo
  <2> QED
    BY <2>3 DEF S
<1> QED
  BY <1>7, <1>8, <1>9

\* While a match does not clear the counter, the ticks are told at once.
LEMMA TicksOnType ==
  ASSUME NEW f \in Timers, NEW k \in Nat
  PROVE  TicksOn(f, k) \in Timers /\ PendIsCached(TicksOn(f, k))
<1>1. (f.frc + k) % Counts \in 0..(Counts - 1)
  <2>1. f.frc + k \in Int
    BY CountsFacts DEF Timers
  <2> QED
    BY <2>1, CountsFacts, Division
<1>2. FlagsOn(f, k) \subseteq Flags
  BY DEF FlagsOn, Timers, Flags
<1>3. f.irqOn \in BOOLEAN
  BY DEF Timers
<1> DEFINE flags == FlagsOn(f, k)
           frc == (f.frc + k) % Counts
           pend == f.irqOn /\ f.tier \cap flags # {}
<1>4. pend \in BOOLEAN
  BY <1>3
<1>5. TicksOn(f, k) = [f EXCEPT !.frc = frc, !.flags = flags, !.pend = pend]
  BY DEF TicksOn
<1>6. frc \in 0..(Counts - 1) /\ flags \in SUBSET Flags
  BY <1>1, <1>2
<1> HIDE DEF flags, frc
<1>7. [f EXCEPT !.frc = frc, !.flags = flags, !.pend = pend] \in Timers
  BY <1>4, <1>6 DEF Timers
<1>8. PendIsCached([f EXCEPT !.frc = frc, !.flags = flags, !.pend = pend])
  BY <1>4 DEF Timers, PendIsCached
<1> QED
  BY <1>5, <1>7, <1>8

LEMMA NoTickIsNone ==
  ASSUME NEW f \in Timers, PendIsCached(f)
  PROVE  TicksOn(f, 0) = f
<1>1. f.frc \in 0..(Counts - 1) /\ f.frc + 0 = f.frc /\ 1..0 = {}
  BY CountsFacts DEF Timers
<1>2. f.frc % Counts = f.frc
  BY <1>1, CountsFacts, Remainder
<1>3. FlagsOn(f, 0) = f.flags
  BY <1>1 DEF FlagsOn, Passes
<1>4. TicksOn(f, 0) = [f EXCEPT !.frc = f.frc, !.flags = f.flags, !.pend = f.pend]
  BY <1>1, <1>2, <1>3 DEF TicksOn, PendIsCached
<1> QED
  BY <1>4 DEF Timers

LEMMA TicksOnFields ==
  ASSUME NEW f \in Timers, NEW k \in Nat
  PROVE  LET g == TicksOn(f, k)
         IN  /\ g.frc = (f.frc + k) % Counts /\ g.flags = FlagsOn(f, k)
             /\ g.pend = (f.irqOn /\ f.tier \cap FlagsOn(f, k) # {})
             /\ g.ocra = f.ocra /\ g.ocrb = f.ocrb /\ g.tier = f.tier /\ g.irqOn = f.irqOn
             /\ g.pre = f.pre /\ g.div = f.div /\ g.cclra = f.cclra
BY DEF TicksOn, Timers

LEMMA PassesAdds ==
  ASSUME NEW f \in Timers, NEW k \in Nat, NEW m \in Nat, NEW x
  PROVE  Passes(f, k + m, x) <=> Passes(f, k, x) \/ Passes(TicksOn(f, k), m, x)
<1> DEFINE g == TicksOn(f, k)
<1>1. f.frc \in Int /\ g.frc = (f.frc + k) % Counts
  BY TicksOnFields, CountsFacts DEF Timers
<1>2. \A j \in 1..m : (g.frc + j) % Counts = (f.frc + (k + j)) % Counts
  <2> TAKE j \in 1..m
  <2>1. f.frc + k \in Int /\ j \in Int /\ (f.frc + k) + j = f.frc + (k + j)
    BY <1>1
  <2>2. (((f.frc + k) % Counts) + j) % Counts = ((f.frc + k) + j) % Counts
    BY <2>1, CountsFacts, Carried
  <2> QED
    BY <1>1, <2>1, <2>2
<1> HIDE DEF g
<1>3. ASSUME Passes(f, k + m, x) PROVE Passes(f, k, x) \/ Passes(g, m, x)
  <2>1. PICK i \in 1..(k + m) : (f.frc + i) % Counts = x
    BY <1>3 DEF Passes
  <2>2. CASE i <= k
    BY <2>1, <2>2 DEF Passes
  <2>3. CASE i > k
    <3>1. i - k \in 1..m /\ k + (i - k) = i
      BY <2>1, <2>3
    <3> QED
      BY <3>1, <2>1, <1>2 DEF Passes
  <2> QED
    BY <2>1, <2>2, <2>3
<1>4. ASSUME Passes(f, k, x) PROVE Passes(f, k + m, x)
  BY <1>4 DEF Passes
<1>5. ASSUME Passes(g, m, x) PROVE Passes(f, k + m, x)
  <2>1. PICK j \in 1..m : (g.frc + j) % Counts = x
    BY <1>5 DEF Passes
  <2>2. k + j \in 1..(k + m) /\ (f.frc + (k + j)) % Counts = x
    BY <2>1, <1>2
  <2> QED
    BY <2>2 DEF Passes
<1> QED
  BY <1>3, <1>4, <1>5 DEF g

LEMMA TicksOnAdds ==
  ASSUME NEW f \in Timers, NEW k \in Nat, NEW m \in Nat
  PROVE  TicksOn(TicksOn(f, k), m) = TicksOn(f, k + m)
<1> DEFINE g == TicksOn(f, k)
<1>1. g \in Timers /\ k + m \in Nat /\ f.frc \in Int
  <2>1. f.frc \in Int
    BY CountsFacts DEF Timers
  <2> QED
    BY <2>1, TicksOnType
<1>2. FlagsOn(g, m) = FlagsOn(f, k + m)
  <2>1. g.flags = FlagsOn(f, k) /\ g.ocra = f.ocra /\ g.ocrb = f.ocrb
    BY TicksOnFields
  <2>2. \A x : Passes(f, k + m, x) <=> Passes(f, k, x) \/ Passes(g, m, x)
    BY PassesAdds
  <2> HIDE DEF g
  <2> QED
    BY <2>1, <2>2 DEF FlagsOn
<1>3. (g.frc + m) % Counts = (f.frc + (k + m)) % Counts
  <2>1. g.frc = (f.frc + k) % Counts
    BY TicksOnFields
  <2>2. f.frc + k \in Int /\ m \in Int /\ (f.frc + k) + m = f.frc + (k + m)
    BY <1>1
  <2>3. (((f.frc + k) % Counts) + m) % Counts = ((f.frc + k) + m) % Counts
    BY <2>2, CountsFacts, Carried
  <2> QED
    BY <2>1, <2>2, <2>3
<1>4. g.irqOn = f.irqOn /\ g.tier = f.tier
  BY TicksOnFields
<1>5. TicksOn(g, m) = [g EXCEPT !.frc = (f.frc + (k + m)) % Counts, !.flags = FlagsOn(f, k + m),
                               !.pend = f.irqOn /\ f.tier \cap FlagsOn(f, k + m) # {}]
  BY <1>2, <1>3, <1>4 DEF TicksOn
<1> QED
  BY <1>5 DEF TicksOn, Timers

LEMMA TickIsOn ==
  ASSUME NEW f \in Timers, ~f.cclra
  PROVE  FrtTick(f) = TicksOn(f, 1)
<1>1. \A x : Passes(f, 1, x) <=> (f.frc + 1) % Counts = x
  BY DEF Passes
<1>2. FrtTick(f) = FrtUpdatePend([f EXCEPT !.frc = (f.frc + 1) % Counts, !.pre = f.pre, !.flags = FlagsOn(f, 1)])
  BY <1>1 DEF FrtTick, FlagsOn
<1> QED
  BY <1>2 DEF TicksOn, FrtUpdatePend, Timers

LEMMA TicksAreOn ==
  ASSUME NEW f \in Timers, NEW n \in Nat, PendIsCached(f), ~f.cclra
  PROVE  FrtTicks(f, n) = TicksOn(f, n)
<1>1. PICK g : /\ g[0] = f /\ FrtTicks(f, n) = g[n]
               /\ \A k \in 1..n : g[k] = FrtTick(g[k - 1])
  BY TicksAre
<1> DEFINE S == {k \in 0..n : g[k] = TicksOn(f, k)}
<1>2. 0 \in S
  BY <1>1, NoTickIsNone
<1>3. ASSUME NEW k \in 1..n, k - 1 \in S PROVE k \in S
  <2>1. k - 1 \in Nat /\ (k - 1) + 1 = k /\ g[k - 1] = TicksOn(f, k - 1)
    BY <1>3
  <2>2. TicksOn(f, k - 1) \in Timers /\ ~TicksOn(f, k - 1).cclra
    BY <2>1, TicksOnType, TicksOnFields
  <2>3. g[k] = TicksOn(TicksOn(f, k - 1), 1)
    BY <1>1, <2>1, <2>2, TickIsOn
  <2>4. TicksOn(TicksOn(f, k - 1), 1) = TicksOn(f, (k - 1) + 1)
    BY <2>1, TicksOnAdds
  <2> QED
    BY <2>1, <2>3, <2>4
<1> HIDE DEF S
<1>4. \A k \in 0..n : k \in S
  BY <1>2, <1>3, UpTo
<1> QED
  BY <1>1, <1>4 DEF S

\* A quiet span passes nothing.
LEMMA QuietPassesNone ==
  ASSUME NEW f \in Timers, NEW n \in Nat, FrtQuiet(f, n)
  PROVE  /\ (f.frc + n) % Counts = f.frc + n /\ f.frc + n \in 0..(Counts - 1)
         /\ ~Passes(f, n, 0) /\ ~Passes(f, n, f.ocra) /\ ~Passes(f, n, f.ocrb)
<1>1. /\ f.frc \in 0..(Counts - 1) /\ f.ocra \in 0..(Counts - 1) /\ f.ocrb \in 0..(Counts - 1)
      /\ n < Counts - f.frc /\ Counts \in Nat
      /\ n <= (f.ocra - f.frc - 1) % Counts /\ n <= (f.ocrb - f.frc - 1) % Counts
  BY CountsFacts DEF Timers, FrtQuiet
<1>2. \A j \in 0..n : f.frc + j \in 0..(Counts - 1) /\ (f.frc + j) % Counts = f.frc + j
  <2> TAKE j \in 0..n
  <2>1. f.frc + j \in 0..(Counts - 1)
    BY <1>1
  <2> QED
    BY <2>1, <1>1, Remainder
<1>3. \A x \in 0..(Counts - 1) : n <= (x - f.frc - 1) % Counts => ~Passes(f, n, x)
  <2> SUFFICES ASSUME NEW x \in 0..(Counts - 1), n <= (x - f.frc - 1) % Counts,
                      NEW j \in 1..n, (f.frc + j) % Counts = x
               PROVE  FALSE
    BY DEF Passes
  <2>1. f.frc + j = x
    BY <1>2
  <2>2. x - f.frc - 1 = j - 1 /\ j - 1 \in 0..(Counts - 1)
    BY <1>1, <2>1
  <2>3. (j - 1) % Counts = j - 1
    BY <1>1, <2>2, Remainder
  <2> QED
    BY <2>2, <2>3
<1>4. ~Passes(f, n, 0)
  <2> SUFFICES ASSUME NEW j \in 1..n, (f.frc + j) % Counts = 0 PROVE FALSE
    BY DEF Passes
  <2>1. f.frc + j = 0
    BY <1>2
  <2> QED
    BY <1>1, <2>1
<1> QED
  BY <1>1, <1>2, <1>3, <1>4

LEMMA QuietIsOn ==
  ASSUME NEW f \in Timers, NEW n \in Nat, FrtQuiet(f, n)
  PROVE  FrtUpdatePend([f EXCEPT !.frc = @ + n]) = TicksOn(f, n)
<1>1. FlagsOn(f, n) = f.flags
  BY QuietPassesNone DEF FlagsOn
<1>2. (f.frc + n) % Counts = f.frc + n
  BY QuietPassesNone
<1> QED
  BY <1>1, <1>2 DEF TicksOn, FrtUpdatePend, Timers

\* The timer with its remainder kept; the counter is yet to move.
Kept(f, n) == [f EXCEPT !.pre = (f.pre + n) % f.div]

LEMMA KeptType ==
  ASSUME NEW f \in Timers, PendIsCached(f), NEW n \in Nat, f.div # 0
  PROVE  /\ Kept(f, n) \in Timers /\ PendIsCached(Kept(f, n)) /\ Kept(f, n).cclra = f.cclra
         /\ (f.pre + n) \div f.div \in Nat /\ (f.pre + n) % f.div \in Nat
         /\ (f.pre + n) \div f.div = 0 => Kept(f, n).pre = f.pre + n
<1>1. f.div \in Nat \ {0} /\ f.pre \in Nat
  BY DEF Timers
<1> DEFINE a == f.pre + n
           d == f.div
<1>2. a \in Nat /\ d \in Nat \ {0}
  BY <1>1
<1>3. Kept(f, n) = [f EXCEPT !.pre = a % d]
  BY DEF Kept
<1> HIDE DEF a, d
<1>4. a \div d \in Nat /\ a % d \in Nat /\ (a \div d = 0 => a % d = a)
  <2>1. /\ a \div d \in Int /\ a % d \in 0..(d - 1) /\ a % d = a - d * (a \div d)
        /\ a >= 0 => a \div d >= 0
    <3>1. a \in Int
      BY <1>2
    <3> QED
      BY <1>2, <3>1, Division
  <2> DEFINE q == a \div d
  <2>2. q = 0 => d * q = 0
    BY <1>2
  <2> HIDE DEF q
  <2> QED
    BY <1>2, <2>1, <2>2 DEF q
<1>5. [f EXCEPT !.pre = a % d] \in Timers /\ PendIsCached([f EXCEPT !.pre = a % d])
      /\ [f EXCEPT !.pre = a % d].cclra = f.cclra /\ [f EXCEPT !.pre = a % d].pre = a % d
  <2> DEFINE r == a % d
  <2>1. r \in Nat
    BY <1>4
  <2> HIDE DEF r
  <2>2. [f EXCEPT !.pre = r] \in Timers /\ PendIsCached([f EXCEPT !.pre = r])
        /\ [f EXCEPT !.pre = r].cclra = f.cclra /\ [f EXCEPT !.pre = r].pre = r
    BY <2>1 DEF Timers, PendIsCached
  <2> QED
    BY <2>2 DEF r
<1> QED
  BY <1>3, <1>4, <1>5 DEF a, d

\* A span leaves a timer, its cached answer made again.
LEMMA AdvanceType ==
  ASSUME NEW f \in Timers, PendIsCached(f), NEW n \in Nat
  PROVE  FrtAdvance(f, n) \in Timers /\ PendIsCached(FrtAdvance(f, n))
<1>1. CASE f.div = 0
  BY <1>1 DEF FrtAdvance
<1>2. CASE f.div # 0
  <2> DEFINE ticks == (f.pre + n) \div f.div
             rest == Kept(f, n)
  <2>1. rest \in Timers /\ PendIsCached(rest) /\ ticks \in Nat
    BY <1>2, KeptType
  <2>2. FrtAdvance(f, n) = CASE ticks = 0 -> [f EXCEPT !.pre = @ + n]
                             [] ticks # 0 /\ FrtQuiet(rest, ticks) ->
                                   FrtUpdatePend([rest EXCEPT !.frc = @ + ticks])
                             [] OTHER -> FrtTicks(rest, ticks)
    BY <1>2 DEF FrtAdvance, Kept
  <2> HIDE DEF ticks, rest
  <2>3. CASE ticks = 0
    <3>1. f.pre + n \in Nat
      BY DEF Timers
    <3>2. [f EXCEPT !.pre = @ + n] \in Timers /\ PendIsCached([f EXCEPT !.pre = @ + n])
      BY <3>1 DEF Timers, PendIsCached
    <3> QED
      BY <2>2, <2>3, <3>2
  <2>4. CASE ticks # 0 /\ FrtQuiet(rest, ticks)
    <3>1. FrtAdvance(f, n) = TicksOn(rest, ticks)
      BY <2>1, <2>2, <2>4, QuietIsOn
    <3> QED
      BY <2>1, <3>1, TicksOnType
  <2>5. CASE ticks # 0 /\ ~FrtQuiet(rest, ticks)
    <3>1. FrtAdvance(f, n) = FrtTicks(rest, ticks)
      BY <2>2, <2>5
    <3>2. PICK g : /\ g[0] = rest /\ FrtTicks(rest, ticks) = g[ticks]
                   /\ \A k \in 1..ticks : g[k] = FrtTick(g[k - 1])
                   /\ \A k \in 0..ticks : g[k] \in Timers
      BY <2>1, TicksAre
    <3>3. ticks \in 1..ticks /\ ticks - 1 \in 0..ticks
      BY <2>1, <2>5
    <3>4. g[ticks] = FrtTick(g[ticks - 1]) /\ g[ticks - 1] \in Timers
      BY <3>2, <3>3
    <3> QED
      BY <3>1, <3>2, <3>4, TickType
  <2> QED
    BY <2>3, <2>4, <2>5
<1> QED
  BY <1>1, <1>2

\* What the ticks do has nothing to do with the remainder.
LEMMA PreApart ==
  ASSUME NEW f \in Timers, NEW k \in Nat, NEW r
  PROVE  TicksOn([f EXCEPT !.pre = r], k) = [TicksOn(f, k) EXCEPT !.pre = r]
<1> DEFINE g == [f EXCEPT !.pre = r]
<1>1. /\ g.frc = f.frc /\ g.flags = f.flags /\ g.ocra = f.ocra /\ g.ocrb = f.ocrb
      /\ g.irqOn = f.irqOn /\ g.tier = f.tier
  BY DEF Timers
<1>2. FlagsOn(g, k) = FlagsOn(f, k)
  BY <1>1 DEF FlagsOn, Passes
<1> DEFINE flags == FlagsOn(f, k)
           frc == (f.frc + k) % Counts
           pend == f.irqOn /\ f.tier \cap flags # {}
<1>3. /\ TicksOn(f, k) = [f EXCEPT !.frc = frc, !.flags = flags, !.pend = pend]
      /\ TicksOn(g, k) = [g EXCEPT !.frc = frc, !.flags = flags, !.pend = pend]
  BY <1>1, <1>2 DEF TicksOn
<1> HIDE DEF flags, frc, pend
<1> QED
  BY <1>3 DEF Timers

\* While a match does not clear the counter, a span is told at once.
LEMMA AdvanceIsCounted ==
  ASSUME NEW f \in Timers, PendIsCached(f), NEW n \in Nat, ~f.cclra
  PROVE  FrtAdvance(f, n) = Counted(f, n)
<1>1. CASE f.div = 0
  BY <1>1 DEF FrtAdvance, Counted
<1>2. CASE f.div # 0
  <2> DEFINE ticks == (f.pre + n) \div f.div
             rest == Kept(f, n)
  <2>1. rest \in Timers /\ PendIsCached(rest) /\ ticks \in Nat /\ ~rest.cclra
        /\ (ticks = 0 => rest.pre = f.pre + n)
    BY <1>2, KeptType
  <2>2. FrtAdvance(f, n) = CASE ticks = 0 -> [f EXCEPT !.pre = @ + n]
                             [] ticks # 0 /\ FrtQuiet(rest, ticks) ->
                                   FrtUpdatePend([rest EXCEPT !.frc = @ + ticks])
                             [] OTHER -> FrtTicks(rest, ticks)
    BY <1>2 DEF FrtAdvance, Kept
  <2>3. Counted(f, n) = TicksOn(rest, ticks)
    BY <2>1, <1>2, PreApart DEF Counted, Kept
  <2>4. ticks = 0 => [f EXCEPT !.pre = @ + n] = rest
    BY <2>1 DEF Kept, Timers
  <2> HIDE DEF ticks, rest
  <2>5. CASE ticks = 0
    BY <2>1, <2>2, <2>3, <2>4, <2>5, NoTickIsNone
  <2>6. CASE ticks # 0 /\ FrtQuiet(rest, ticks)
    BY <2>1, <2>2, <2>3, <2>6, QuietIsOn
  <2>7. CASE ticks # 0 /\ ~FrtQuiet(rest, ticks)
    BY <2>1, <2>2, <2>3, <2>7, TicksAreOn
  <2> QED
    BY <2>5, <2>6, <2>7
<1> QED
  BY <1>1, <1>2

LEMMA CountedAdds ==
  ASSUME NEW f \in Timers, NEW a \in Nat, NEW b \in Nat
  PROVE  Counted(Counted(f, a), b) = Counted(f, a + b)
<1>1. CASE f.div = 0
  BY <1>1 DEF Counted
<1>2. CASE f.div # 0
  <2> DEFINE d == f.div
             k == (f.pre + a) \div d
             r == (f.pre + a) % d
             m == (r + b) \div d
             t == (r + b) % d
             g == Counted(f, a)
  <2>1. d \in Nat \ {0} /\ f.pre \in Nat /\ f.pre + a \in Int
    BY <1>2 DEF Timers
  <2>2. k \in Nat /\ r \in Nat
    <3>1. f.pre + a >= 0
      BY <2>1
    <3>2. k \in Int /\ k >= 0 /\ r \in 0..(d - 1)
      BY <2>1, <3>1, Division
    <3> HIDE DEF k, r, d
    <3> QED
      BY <3>2
  <2>3. m \in Nat /\ t \in Nat
    <3> HIDE DEF r
    <3>1. r + b >= 0 /\ r + b \in Int
      BY <2>2
    <3>2. m \in Int /\ m >= 0 /\ t \in 0..(d - 1)
      BY <2>1, <3>1, Division
    <3> HIDE DEF m, t, d
    <3> QED
      BY <3>2
  <2>4. t = (f.pre + (a + b)) % d /\ k + m = (f.pre + (a + b)) \div d
    <3> DEFINE n == f.pre + a
    <3>1. f.pre + (a + b) = n + b /\ n \in Int /\ b \in Int /\ d \in Nat \ {0}
      BY <2>1
    <3> HIDE DEF n, d
    <3>2. ((n % d) + b) % d = (n + b) % d /\ (n \div d) + ((n % d) + b) \div d = (n + b) \div d
      BY <3>1, Carried
    <3> QED
      BY <3>1, <3>2 DEF n
  <2>5. g = [TicksOn(f, k) EXCEPT !.pre = r]
    BY <1>2 DEF Counted
  <2>6. Counted(f, a + b) = [TicksOn(f, k + m) EXCEPT !.pre = t]
    BY <1>2, <2>4 DEF Counted
  <2>7. TicksOn(f, k) \in Timers /\ TicksOn(f, k).div = d
    BY <2>2, TicksOnType, TicksOnFields
  <2> HIDE DEF d, k, r, g
  <2>8. g.div = d /\ g.pre = r
    BY <2>5, <2>7 DEF Timers
  <2>9. Counted(g, b) = [TicksOn(g, m) EXCEPT !.pre = t]
    BY <1>2, <2>8 DEF Counted, d
  <2> HIDE DEF m, t
  <2>10. TicksOn(g, m) = [TicksOn(TicksOn(f, k), m) EXCEPT !.pre = r]
    BY <2>3, <2>5, <2>7, PreApart
  <2>11. TicksOn(TicksOn(f, k), m) = TicksOn(f, k + m)
    BY <2>2, <2>3, TicksOnAdds
  <2> QED
    BY <2>6, <2>9, <2>10, <2>11 DEF g
<1> QED
  BY <1>1, <1>2

\* What the timer is told from, and that its cached answer is never stale.
TimerInv ==
  /\ OnChipTypeOK
  /\ PendIsCached(frt)
  /\ ~base.cclra => frt = IF since = NoClocks THEN base ELSE Counted(base, since)

LEMMA ResetType ==
  ASSUME NEW irqOn \in BOOLEAN
  PROVE  FrtReset(irqOn) \in Timers /\ PendIsCached(FrtReset(irqOn))
<1>1. Dividers[1] \in Nat /\ 0 \in 0..(Counts - 1)
  BY OnChipAssumption
<1> QED
  BY <1>1 DEF FrtReset, Timers, PendIsCached, Flags

LEMMA OnChipInits == OnChipInit => TimerInv
<1> SUFFICES ASSUME OnChipInit PROVE TimerInv
  OBVIOUS
<1>1. PICK irqOn \in BOOLEAN : FrtStart(FrtReset(irqOn))
  BY DEF OnChipInit, FrtInit
<1>2. FrtReset(irqOn) \in Timers /\ PendIsCached(FrtReset(irqOn))
  BY ResetType
<1>3. given = Nothing
  BY DEF OnChipInit
<1> QED
  BY <1>1, <1>2, <1>3 DEF TimerInv, OnChipTypeOK, FrtStart

\* Whatever software writes leaves a timer, its cached answer made again.
LEMMA AccessKeeps ==
  ASSUME TimerInv, NEW f \in Timers, PendIsCached(f), Access(f),
         seen' \subseteq Flags, unseen' \in BOOLEAN, UNCHANGED given
  PROVE  TimerInv'
<1>1. frt' = f /\ base' = f /\ since' = NoClocks
  BY DEF Access
<1>2. OnChipTypeOK'
  BY <1>1 DEF TimerInv, OnChipTypeOK
<1>3. PendIsCached(frt)'
  BY <1>1 DEF PendIsCached
<1> QED
  BY <1>1, <1>2, <1>3 DEF TimerInv

LEMMA WritesType ==
  ASSUME NEW f \in Timers, PendIsCached(f)
  PROVE  /\ FrtCapture(f) \in Timers /\ PendIsCached(FrtCapture(f))
         /\ \A flags \in SUBSET Flags, cclra \in BOOLEAN :
               FrtWriteStatus(f, flags, cclra) \in Timers /\ PendIsCached(FrtWriteStatus(f, flags, cclra))
         /\ \A tier \in SUBSET Flags : FrtWriteTier(f, tier) \in Timers /\ PendIsCached(FrtWriteTier(f, tier))
         /\ \A v \in 0..(Counts - 1) :
               /\ FrtWriteCount(f, v) \in Timers /\ PendIsCached(FrtWriteCount(f, v))
               /\ FrtWriteCompare(f, v) \in Timers /\ PendIsCached(FrtWriteCompare(f, v))
         /\ \A div \in Nat : FrtWriteControl(f, div) \in Timers /\ PendIsCached(FrtWriteControl(f, div))
         /\ \A ocrs \in BOOLEAN : FrtWriteSelect(f, ocrs) \in Timers /\ PendIsCached(FrtWriteSelect(f, ocrs))
<1>1. FrtCapture(f) \in Timers /\ PendIsCached(FrtCapture(f))
  <2> DEFINE rung == FrtUpdatePend([f EXCEPT !.ficr = f.frc, !.flags = @ \cup {"ICF"}])
  <2>1. [f EXCEPT !.ficr = f.frc, !.flags = @ \cup {"ICF"}] \in Timers
    BY DEF Timers, Flags
  <2>2. rung \in Timers /\ PendIsCached(rung)
    BY <2>1, UpdatePendType
  <2> HIDE DEF rung
  <2> DEFINE next == (rung.frc + 1) % Counts
  <2>3. next \in 0..(Counts - 1)
    <3>1. rung.frc + 1 \in Int
      BY <2>2, CountsFacts DEF Timers
    <3> QED
      BY <3>1, CountsFacts, Division
  <2>4. FrtCapture(f) = IF f.div = 0 THEN [rung EXCEPT !.frc = next] ELSE rung
    BY DEF FrtCapture, rung
  <2> HIDE DEF next
  <2>5. [rung EXCEPT !.frc = next] \in Timers /\ PendIsCached([rung EXCEPT !.frc = next])
    BY <2>2, <2>3 DEF Timers, PendIsCached
  <2> QED
    BY <2>2, <2>4, <2>5
<1>2. ASSUME NEW flags \in SUBSET Flags, NEW cclra \in BOOLEAN
      PROVE  FrtWriteStatus(f, flags, cclra) \in Timers /\ PendIsCached(FrtWriteStatus(f, flags, cclra))
  <2>1. [f EXCEPT !.flags = @ \cap flags, !.cclra = cclra] \in Timers
    BY DEF Timers
  <2> QED
    BY <2>1, UpdatePendType DEF FrtWriteStatus
<1>3. ASSUME NEW tier \in SUBSET Flags
      PROVE  FrtWriteTier(f, tier) \in Timers /\ PendIsCached(FrtWriteTier(f, tier))
  <2>1. [f EXCEPT !.tier = tier] \in Timers
    BY DEF Timers
  <2> QED
    BY <2>1, UpdatePendType DEF FrtWriteTier
<1>4. ASSUME NEW v \in 0..(Counts - 1)
      PROVE  /\ FrtWriteCount(f, v) \in Timers /\ PendIsCached(FrtWriteCount(f, v))
             /\ FrtWriteCompare(f, v) \in Timers /\ PendIsCached(FrtWriteCompare(f, v))
  BY DEF FrtWriteCount, FrtWriteCompare, Timers, PendIsCached
<1>5. ASSUME NEW div \in Nat
      PROVE  FrtWriteControl(f, div) \in Timers /\ PendIsCached(FrtWriteControl(f, div))
  BY DEF FrtWriteControl, Timers, PendIsCached
<1>6. ASSUME NEW ocrs \in BOOLEAN
      PROVE  FrtWriteSelect(f, ocrs) \in Timers /\ PendIsCached(FrtWriteSelect(f, ocrs))
  BY DEF FrtWriteSelect, Timers, PendIsCached
<1> QED
  BY <1>1, <1>2, <1>3, <1>4, <1>5, <1>6

LEMMA AdvanceKeeps ==
  ASSUME TimerInv, NEW n \in Spans, Advance(n), UNCHANGED given
  PROVE  TimerInv'
<1>1. n \in Nat /\ frt \in Timers /\ base \in Timers /\ PendIsCached(frt) /\ since \in Nat \cup {NoClocks}
  BY OnChipAssumption DEF TimerInv, OnChipTypeOK
<1>2. frt' = FrtAdvance(frt, n) /\ base' = base /\ since' = IF since = NoClocks THEN n ELSE since + n
  BY DEF Advance
<1>3. frt' \in Timers /\ PendIsCached(FrtAdvance(frt, n))
  BY <1>1, <1>2, AdvanceType
<1>4. since' \in Nat /\ since' # NoClocks
  BY <1>1, <1>2 DEF NoClocks
<1>5. OnChipTypeOK'
  BY <1>1, <1>2, <1>3, <1>4 DEF TimerInv, OnChipTypeOK, Advance
<1>6. PendIsCached(frt)'
  BY <1>2, <1>3 DEF PendIsCached
<1>7. ASSUME ~base.cclra PROVE frt' = Counted(base, since')
  <2>1. CASE since = NoClocks
    <3>1. frt = base
      BY <1>7, <2>1 DEF TimerInv
    <3> QED
      BY <1>1, <1>2, <1>7, <2>1, <3>1, AdvanceIsCounted
  <2>2. CASE since # NoClocks
    <3>1. since \in Nat /\ frt = Counted(base, since) /\ since' = since + n
      BY <1>1, <1>2, <1>7, <2>2 DEF TimerInv
    <3>2. ~frt.cclra
      BY <3>1, <1>1, <1>7 DEF Counted, TicksOn, Timers
    <3>3. frt' = Counted(frt, n)
      BY <1>1, <1>2, <3>2, AdvanceIsCounted
    <3> QED
      BY <1>1, <3>1, <3>3, CountedAdds
  <2> QED
    BY <2>1, <2>2
<1> QED
  BY <1>2, <1>4, <1>5, <1>6, <1>7 DEF TimerInv

LEMMA OnChipSteps == TimerInv /\ [OnChipNext]_<<frt, base, since, seen, unseen, given>> => TimerInv'
<1> SUFFICES ASSUME TimerInv, [OnChipNext]_<<frt, base, since, seen, unseen, given>> PROVE TimerInv'
  OBVIOUS
<1>1. frt \in Timers /\ PendIsCached(frt) /\ seen \subseteq Flags /\ unseen \in BOOLEAN
  BY DEF TimerInv, OnChipTypeOK
<1>2. CASE UNCHANGED <<frt, base, since, seen, unseen, given>>
  BY <1>2 DEF TimerInv, OnChipTypeOK, PendIsCached
<1>3. ASSUME NEW n \in Spans, Advance(n), UNCHANGED given PROVE TimerInv'
  BY <1>3, AdvanceKeeps
<1>4. CASE Ring /\ UNCHANGED given
  BY <1>1, <1>4, WritesType, AccessKeeps DEF Ring
<1>5. CASE ReadStatus /\ UNCHANGED given
  BY <1>1, <1>5 DEF ReadStatus, TimerInv, OnChipTypeOK, PendIsCached, Timers
<1>6. ASSUME NEW done \in {{}, {"ICF"}}, NEW cclra \in BOOLEAN, WriteStatus(done, cclra), UNCHANGED given
      PROVE  TimerInv'
  <2>1. seen \ done \in SUBSET Flags
    BY <1>1
  <2> QED
    BY <1>1, <1>6, <2>1, WritesType, AccessKeeps DEF WriteStatus
<1>7. CASE WriteRegister /\ UNCHANGED given
  <2>1. UNCHANGED <<seen, unseen>>
    BY <1>7 DEF WriteRegister
  <2>2. ASSUME NEW v \in CountsWritten, Access(FrtWriteCount(frt, v)) \/ Access(FrtWriteCompare(frt, v))
        PROVE  TimerInv'
    <3>1. v \in 0..(Counts - 1)
      BY OnChipAssumption
    <3> QED
      BY <1>1, <1>7, <2>1, <2>2, <3>1, WritesType, AccessKeeps
  <2>3. ASSUME NEW tier \in TiersWritten, Access(FrtWriteTier(frt, tier)) PROVE TimerInv'
    <3>1. tier \in SUBSET Flags
      BY OnChipAssumption
    <3> QED
      BY <1>1, <1>7, <2>1, <2>3, <3>1, WritesType, AccessKeeps
  <2>4. ASSUME NEW tcr \in 1..4, Access(FrtWriteControl(frt, Dividers[tcr])) PROVE TimerInv'
    <3>1. Dividers[tcr] \in Nat
      BY OnChipAssumption
    <3> QED
      BY <1>1, <1>7, <2>1, <2>4, <3>1, WritesType, AccessKeeps
  <2>5. ASSUME NEW ocrs \in BOOLEAN, Access(FrtWriteSelect(frt, ocrs)) PROVE TimerInv'
    BY <1>1, <1>7, <2>1, <2>5, WritesType, AccessKeeps
  <2> QED
    BY <1>7, <2>2, <2>3, <2>4, <2>5 DEF WriteRegister
<1>8. CASE (Divide \/ Transfer) /\ UNCHANGED frtVars
  <2>1. \/ given' \in [unit : {"divu"}, hi : Operands, lo : Operands, d : Operands]
        \/ given' \in [unit : {"dmac"}, ch : Channels, mem : Contents]
    BY <1>8 DEF Divide, Transfer
  <2>2. UNCHANGED <<frt, base, since, seen, unseen>>
    BY <1>8 DEF frtVars
  <2> QED
    BY <2>1, <2>2 DEF TimerInv, OnChipTypeOK, PendIsCached
<1> QED
  BY <1>2, <1>3, <1>4, <1>5, <1>6, <1>7, <1>8 DEF OnChipNext, FrtNext

\* The vector is that of a flag that is up and enabled.
LEMMA VectorHasCause ==
  ASSUME NEW f \in Timers, PendIsCached(f), NEW slave \in BOOLEAN, NEW level \in Nat, NEW mask \in Nat
  PROVE  LET vector == FrtVector(f, slave, level, mask)
         IN  /\ level > mask /\ f.irqOn => (vector # "none") = f.pend
             /\ vector # "none" => f.tier \cap f.flags \cap Cause[vector] # {}
<1> DEFINE up == f.tier \cap f.flags
<1>1. up \subseteq Flags /\ f.irqOn \in BOOLEAN
  BY DEF Timers
<1>2. FrtVector(f, slave, level, mask) =
        CASE ~f.irqOn /\ ~slave -> "none"
          [] level = 0 \/ level <= mask -> "none"
          [] "ICF" \in up -> "capture"
          [] "ICF" \notin up /\ up \cap {"OCFA", "OCFB"} # {} -> "compare"
          [] up = {"OVF"} -> "overflow"
          [] OTHER -> "none"
  BY DEF FrtVector
<1>3. up # {} => "ICF" \in up \/ up \cap {"OCFA", "OCFB"} # {} \/ up = {"OVF"}
  BY <1>1 DEF Flags
<1>4. f.pend = (f.irqOn /\ up # {})
  BY DEF PendIsCached
<1>5. Cause["capture"] = {"ICF"} /\ Cause["compare"] = {"OCFA", "OCFB"} /\ Cause["overflow"] = {"OVF"}
  BY DEF Cause
<1> HIDE DEF up
<1> QED
  BY <1>1, <1>2, <1>3, <1>4, <1>5 DEF up

LEMMA TimerInvExact == TimerInv => TimerIsExact
<1> SUFFICES ASSUME TimerInv PROVE TimerIsExact
  OBVIOUS
<1>1. frt \in Timers /\ PendIsCached(frt)
  BY DEF TimerInv, OnChipTypeOK
<1>2. frt.pend = (frt.irqOn /\ frt.tier \cap frt.flags # {})
  BY <1>1 DEF PendIsCached
<1>3. ~base.cclra => frt = IF since = NoClocks THEN base ELSE Counted(base, since)
  BY DEF TimerInv
<1>4. ASSUME NEW slave \in BOOLEAN, NEW level \in Levels16, NEW mask \in Levels16
      PROVE  LET vector == FrtVector(frt, slave, level, mask)
             IN  /\ level > mask /\ frt.irqOn => (vector # "none") = frt.pend
                 /\ vector # "none" => frt.tier \cap frt.flags \cap Cause[vector] # {}
  <2>1. level \in Nat /\ mask \in Nat
    BY OnChipAssumption
  <2> QED
    BY <1>1, <2>1, VectorHasCause
<1> QED
  BY <1>2, <1>3, <1>4 DEF TimerIsExact

LEMMA TimerInvariant == OnChipSpec => []TimerInv
<1>1. OnChipInit => TimerInv
  BY OnChipInits
<1>2. TimerInv /\ [OnChipNext]_<<frt, base, since, seen, unseen, given>> => TimerInv'
  BY OnChipSteps
<1> QED
  BY <1>1, <1>2, PTL DEF OnChipSpec

\* Types of the timer's registers, of its history, and of what the other units are given.
THEOREM OnChipTypeCorrect == OnChipSpec => []OnChipTypeOK
<1>1. TimerInv => OnChipTypeOK
  BY DEF TimerInv
<1> QED
  BY <1>1, TimerInvariant, PTL

-----------------------------------------------------------------------------
(* The division unit.                                                        *)

LEMMA WordFacts ==
  /\ HalfWord \in Nat /\ HalfWord >= 4 /\ Word = 2 * HalfWord /\ Word \in Nat
  /\ MaxInt = HalfWord - 1 /\ MinInt = -HalfWord
BY OnChipAssumption DEF Word, MaxInt, MinInt

\* A value and its place among the signed ones.
LEMMA SignedWord ==
  ASSUME NEW v \in 0..(Word - 1)
  PROVE  AsInt(v, HalfWord) \in MinInt..MaxInt
BY WordFacts DEF AsInt

LEMMA SignedBack ==
  ASSUME NEW h \in Nat, NEW v \in (-h)..(h - 1)
  PROVE  /\ AsInt(Unsigned(v, h), h) = v
         /\ Unsigned(v, h) = IF v < 0 THEN v + 2 * h ELSE v
<1> DEFINE d == 2 * h
           q == IF v < 0 THEN -1 ELSE 0
           r == IF v < 0 THEN v + d ELSE v
<1>1. d \in Nat /\ q \in Int /\ r \in 0..(d - 1)
  OBVIOUS
<1>2. d * q + r = v
  <2>1. CASE v < 0
    BY <1>1, <2>1
  <2>2. CASE ~(v < 0)
    BY <1>1, <2>2
  <2> QED
    BY <2>1, <2>2
<1>3. v % d = r
  <2> HIDE DEF d, q, r
  <2>1. (d * q + r) % d = r
    BY <1>1, DivisionUnique
  <2> QED
    BY <1>2, <2>1
<1> QED
  BY <1>3 DEF AsInt, Unsigned

\* C's quotient, by the sizes of the operands.
LEMMA QuotientIs ==
  ASSUME NEW a \in Int, NEW b \in Int, b # 0
  PROVE  /\ Quot(a, b) \in Int /\ Rem(a, b) \in Int
         /\ Divides(Quot(a, b), Rem(a, b), a, b)
<1> DEFINE m == Abs(a)
           n == Abs(b)
           q == m \div n
           r == m % n
<1>1. m \in Nat /\ n \in Nat \ {0} /\ (a < 0 => a = -m) /\ (~(a < 0) => a = m)
      /\ (b < 0 => b = -n) /\ (~(b < 0) => b = n)
  BY DEF Abs
<1>2. q \in Int /\ r \in 0..(n - 1) /\ r = m - n * q
  <2> HIDE DEF m, n
  <2> QED
    BY <1>1, Division
<1>3. Quot(a, b) = IF (a < 0) = (b < 0) THEN q ELSE -q
  BY <1>2 DEF Quot
<1> HIDE DEF m, n, q, r
<1>4. Rem(a, b) = IF a < 0 THEN -r ELSE r
  <2>1. Rem(a, b) = a - b * Quot(a, b)
    BY DEF Rem
  <2>2. n * (-q) = -(n * q) /\ (-n) * q = -(n * q) /\ (-n) * (-q) = n * q
    BY <1>1, <1>2
  <2>3. CASE a < 0 /\ b < 0
    BY <1>1, <1>2, <1>3, <2>1, <2>2, <2>3
  <2>4. CASE a < 0 /\ ~(b < 0)
    BY <1>1, <1>2, <1>3, <2>1, <2>2, <2>4
  <2>5. CASE ~(a < 0) /\ b < 0
    BY <1>1, <1>2, <1>3, <2>1, <2>2, <2>5
  <2>6. CASE ~(a < 0) /\ ~(b < 0)
    BY <1>1, <1>2, <1>3, <2>1, <2>2, <2>6
  <2> QED
    BY <2>3, <2>4, <2>5, <2>6
<1>5. Quot(a, b) \in Int /\ Rem(a, b) \in Int
  BY <1>2, <1>3, <1>4
<1>6. Abs(Rem(a, b)) = r /\ Abs(b) = n /\ (Rem(a, b) = 0 \/ (Rem(a, b) < 0) = (a < 0))
  BY <1>2, <1>4 DEF Abs, n
<1>7. a = Quot(a, b) * b + Rem(a, b)
  <2> DEFINE c == Quot(a, b)
  <2>1. c \in Int /\ Rem(a, b) = a - b * c
    BY <1>5 DEF Rem
  <2> HIDE DEF c
  <2> QED
    BY <2>1 DEF c
<1>8. Abs(Rem(a, b)) < Abs(b)
  BY <1>1, <1>2, <1>6
<1> QED
  BY <1>5, <1>6, <1>7, <1>8, Zenon DEF Divides

\* There is no other that multiplies back.
LEMMA QuotientUnique ==
  ASSUME NEW a \in Int, NEW b \in Int, NEW c \in Int, Divides(c, a - c * b, a, b)
  PROVE  b # 0 /\ c = Quot(a, b)
<1> DEFINE r == a - c * b
           n == Abs(b)
           e == Quot(a, b)
           f == Rem(a, b)
<1>1. r \in Int /\ n \in Nat /\ n # 0 /\ b # 0 /\ (b = n \/ b = -n)
  <2>1. Abs(r) < Abs(b) /\ r \in Int
    BY DEF Divides
  <2> HIDE DEF r
  <2> QED
    BY <2>1 DEF Abs
<1>2. e \in Int /\ f \in Int /\ Divides(e, f, a, b)
  BY <1>1, QuotientIs
<1>3. b * (c - e) = f - r
  <2>1. a = e * b + f
    BY <1>2 DEF Divides
  <2> HIDE DEF e, f
  <2>2. b * (c - e) = c * b - e * b
    BY <1>2
  <2> QED
    BY <1>2, <2>1, <2>2
<1>4. -n < f - r /\ f - r < n
  <2>1. /\ Abs(f) < n /\ Abs(r) < n
        /\ f = 0 \/ (f < 0) = (a < 0)
        /\ r = 0 \/ (r < 0) = (a < 0)
    BY <1>2 DEF Divides
  <2> HIDE DEF e, f, r, n
  <2> QED
    BY <1>1, <1>2, <2>1 DEF Abs
<1> DEFINE k == IF b = n THEN c - e ELSE e - c
<1>5. n * k = f - r /\ k \in Int
  <2> HIDE DEF e, f, r, n
  <2>1. CASE b = n
    BY <1>1, <1>2, <1>3, <2>1
  <2>2. CASE b # n
    <3>1. b = -n
      BY <1>1, <2>2
    <3>2. (-n) * (c - e) = n * (e - c)
      BY <1>1, <1>2
    <3> QED
      BY <1>2, <1>3, <2>2, <3>1, <3>2
  <2> QED
    BY <2>1, <2>2
<1>6. k = 0
  <2> HIDE DEF e, f, r, n, k
  <2> QED
    BY <1>1, <1>4, <1>5, SmallMultiple
<1> QED
  <2> HIDE DEF e
  <2>1. c = e
    BY <1>2, <1>6
  <2> QED
    BY <1>1, <2>1 DEF e

\* What the 64-bit division is of, and when its result has a place.
Dividend(hi, lo) == AsInt(hi, HalfWord) * Word + lo
Fits(num, den) ==
    LET q == Quot(num, den)
    IN  \/ Rem(num, den) = 0 /\ ((q = MinInt /\ den > 0) \/ (q = -MinInt /\ den < 0))
        \/ q \in MinInt..MaxInt

LEMMA DividendType ==
  ASSUME NEW hi \in 0..(Word - 1), NEW lo \in 0..(Word - 1)
  PROVE  Dividend(hi, lo) \in Int
<1>1. AsInt(hi, HalfWord) \in Int
  BY SignedWord, WordFacts
<1> QED
  BY <1>1, WordFacts DEF Dividend

LEMMA Divu64Is ==
  ASSUME NEW hi, NEW lo, NEW d, NEW ovfie
  PROVE  LET num == Dividend(hi, lo)
             den == AsInt(d, HalfWord)
             r == Divu64(hi, lo, d, ovfie)
         IN  IF den # 0 /\ Fits(num, den) THEN r = Result(Quot(num, den), Rem(num, den), FALSE)
             ELSE r = Result(IF ovfie THEN DivSteps(num, den)
                             ELSE Saturated((AsInt(hi, HalfWord) < 0) # (den < 0)),
                             DivSteps(num, den) \div Word, TRUE)
BY DEF Divu64, Fits, Dividend

LEMMA OverflowIsTold ==
  ASSUME NEW hi, NEW lo, NEW d, NEW ovfie
  PROVE  LET num == Dividend(hi, lo)
             den == AsInt(d, HalfWord)
         IN  Divu64(hi, lo, d, ovfie).ovf = ~(den # 0 /\ Fits(num, den))
<1> DEFINE num == Dividend(hi, lo)
           den == AsInt(d, HalfWord)
           r == Divu64(hi, lo, d, ovfie)
           a == IF ovfie THEN DivSteps(num, den) ELSE Saturated((AsInt(hi, HalfWord) < 0) # (den < 0))
           b == DivSteps(num, den) \div Word
           q == Quot(num, den)
           rem == Rem(num, den)
           fits == den # 0 /\ Fits(num, den)
<1>1. IF fits THEN r = Result(q, rem, FALSE) ELSE r = Result(a, b, TRUE)
  BY Divu64Is
<1> HIDE DEF num, den, r, a, b, q, rem
<1>2. Result(q, rem, FALSE).ovf = FALSE /\ Result(a, b, TRUE).ovf = TRUE
  BY DEF Result
<1>3. r.ovf = ~fits
  <2> HIDE DEF fits
  <2>1. CASE fits
    BY <1>1, <1>2, <2>1
  <2>2. CASE ~fits
    BY <1>1, <1>2, <2>2
  <2> QED
    BY <2>1, <2>2
<1> QED
  BY <1>3 DEF r, fits, num, den

LEMMA RemainderRange ==
  ASSUME NEW num \in Int, NEW den \in MinInt..MaxInt, den # 0
  PROVE  Rem(num, den) \in MinInt..MaxInt
<1>1. Rem(num, den) \in Int /\ Abs(Rem(num, den)) < Abs(den)
  BY QuotientIs, WordFacts DEF Divides
<1> DEFINE r == Rem(num, den)
<1> HIDE DEF r
<1>2. r \in Int /\ Abs(r) < Abs(den)
  BY <1>1 DEF r
<1>3. r \in MinInt..MaxInt
  BY <1>2, WordFacts DEF Abs
<1> QED
  BY <1>3 DEF r

\* No overflow: the result multiplies back.
LEMMA ResultMultipliesBack ==
  ASSUME NEW hi \in 0..(Word - 1), NEW lo \in 0..(Word - 1), NEW d \in 0..(Word - 1)
  PROVE  LET r == Divu64(hi, lo, d, TRUE)
             num == Dividend(hi, lo)
             den == AsInt(d, HalfWord)
         IN  ~r.ovf => \E q \in {AsInt(r.q, HalfWord), r.q} :
                          Divides(q, AsInt(r.r, HalfWord), num, den)
<1> DEFINE r == Divu64(hi, lo, d, TRUE)
           num == Dividend(hi, lo)
           den == AsInt(d, HalfWord)
           q == Quot(num, den)
           rem == Rem(num, den)
<1>1. num \in Int /\ den \in MinInt..MaxInt
  BY DividendType, SignedWord
<1> SUFFICES ASSUME ~r.ovf PROVE \E x \in {AsInt(r.q, HalfWord), r.q} : Divides(x, AsInt(r.r, HalfWord), num, den)
  OBVIOUS
<1>2. den # 0 /\ Fits(num, den) /\ r = Result(q, rem, FALSE)
  <2>1. CASE ~(den # 0 /\ Fits(num, den))
    BY <2>1, OverflowIsTold
  <2>2. CASE den # 0 /\ Fits(num, den)
    BY <2>2, Divu64Is
  <2> QED
    BY <2>1, <2>2
<1>3. Divides(q, rem, num, den) /\ q \in Int /\ rem \in MinInt..MaxInt
  <2>1. den \in Int
    BY <1>1, WordFacts
  <2> QED
    BY <1>1, <1>2, <2>1, QuotientIs, RemainderRange
<1>4. r.q = Unsigned(q, HalfWord) /\ r.r = Unsigned(rem, HalfWord)
  <2> HIDE DEF r, q, rem
  <2> QED
    BY <1>2 DEF Result
<1>5. AsInt(r.r, HalfWord) = rem
  <2> HIDE DEF r, rem
  <2>1. rem \in (-HalfWord)..(HalfWord - 1)
    BY <1>3, WordFacts
  <2> QED
    BY <1>4, <2>1, WordFacts, SignedBack
<1>6. AsInt(r.q, HalfWord) = q \/ r.q = q
  <2> HIDE DEF r
  <2>1. CASE q \in MinInt..MaxInt
    <3> HIDE DEF q
    <3>1. q \in (-HalfWord)..(HalfWord - 1)
      BY <2>1, WordFacts
    <3> QED
      BY <1>4, <3>1, WordFacts, SignedBack
  <2>2. CASE q \notin MinInt..MaxInt
    <3>1. q = -MinInt
      BY <1>2, <2>2, WordFacts DEF Fits
    <3> HIDE DEF q
    <3>2. q = HalfWord /\ q \in 0..(Word - 1) /\ Word \in Nat
      BY <3>1, WordFacts
    <3>3. q % Word = q
      BY <3>2, Remainder
    <3> QED
      BY <1>4, <3>3, WordFacts DEF Unsigned
  <2> QED
    BY <2>1, <2>2
<1> QED
  BY <1>3, <1>5, <1>6

\* Overflow: nothing that has a place would.
LEMMA OverflowHasNone ==
  ASSUME NEW hi \in 0..(Word - 1), NEW lo \in 0..(Word - 1), NEW d \in 0..(Word - 1),
         Divu64(hi, lo, d, TRUE).ovf,
         NEW q \in MinInt..MaxInt
  PROVE  LET num == Dividend(hi, lo)
             den == AsInt(d, HalfWord)
         IN  ~Divides(q, num - q * den, num, den)
<1> DEFINE num == Dividend(hi, lo)
           den == AsInt(d, HalfWord)
<1>1. num \in Int /\ den \in Int /\ q \in Int
  <2>1. den \in MinInt..MaxInt
    BY SignedWord
  <2> QED
    BY <2>1, DividendType, WordFacts
<1>2. ~(den # 0 /\ Fits(num, den))
  BY OverflowIsTold
<1> SUFFICES ASSUME Divides(q, num - q * den, num, den) PROVE FALSE
  OBVIOUS
<1>3. den # 0 /\ q = Quot(num, den)
  <2> HIDE DEF num, den
  <2> QED
    BY <1>1, QuotientUnique
<1> QED
  BY <1>2, <1>3 DEF Fits

\* A quotient of single words fits in one, the one that overflows included.
LEMMA QuotientFits ==
  ASSUME NEW a \in MinInt..MaxInt, NEW b \in MinInt..MaxInt, b # 0
  PROVE  Fits(a, b)
<1> DEFINE m == Abs(a)
           n == Abs(b)
           q == m \div n
           r == m % n
           c == Quot(a, b)
<1>0. a \in Int /\ b \in Int /\ HalfWord \in Nat /\ MaxInt = HalfWord - 1 /\ MinInt = -HalfWord
  BY WordFacts
<1>1. m \in 0..HalfWord /\ n \in Nat \ {0} /\ (b < 0 => b = -n) /\ (~(b < 0) => b = n)
      /\ (a < 0 => a = -m) /\ (~(a < 0) => a = m)
  BY <1>0 DEF Abs
<1>2. q \in Int /\ r \in 0..(n - 1) /\ m = n * q + r /\ q >= 0
  <2> HIDE DEF m, n
  <2>1. q \in Int /\ r \in 0..(n - 1) /\ r = m - n * q /\ q >= 0
    <3>1. m \in Int /\ m >= 0 /\ n \in Nat \ {0}
      BY <1>0, <1>1
    <3> QED
      BY <3>1, Division
  <2> HIDE DEF q, r
  <2> QED
    BY <1>1, <2>1
<1>3. c = IF (a < 0) = (b < 0) THEN q ELSE -q
  BY <1>2 DEF Quot
<1>4. Rem(a, b) = a - b * c
  BY DEF Rem
<1> HIDE DEF m, n, q, r, c
<1>5. m = q + (n - 1) * q + r /\ (n - 1) * q >= 0 /\ q <= m
  <2>1. n * q = q + (n - 1) * q /\ (n - 1) * q >= 0
    BY <1>1, <1>2
  <2> QED
    BY <1>1, <1>2, <2>1
<1>6. CASE c \in MinInt..MaxInt
  BY <1>6 DEF Fits, c
<1>7. CASE c \notin MinInt..MaxInt
  <2>1. c = HalfWord /\ q = HalfWord /\ m = HalfWord /\ a = -HalfWord /\ b < 0
    BY <1>0, <1>1, <1>2, <1>3, <1>5, <1>7
  <2>2. HalfWord > 0 /\ (n - 1) * HalfWord = 0
    BY <1>0, <1>1, <1>2, <1>5, <2>1, WordFacts
  <2>3. n = 1
    <3> DEFINE k == n - 1
    <3>1. k \in Nat /\ k * HalfWord = 0
      BY <1>1, <2>2
    <3> HIDE DEF k
    <3>2. CASE k >= 1
      <4>1. k * HalfWord = HalfWord + (k - 1) * HalfWord /\ (k - 1) * HalfWord >= 0
        BY <1>0, <3>1, <3>2
      <4> QED
        BY <1>0, <2>2, <3>1, <4>1
    <3> QED
      BY <1>1, <3>1, <3>2 DEF k
  <2>4. b = -1 /\ Rem(a, b) = 0 /\ c = -MinInt
    BY <1>0, <1>1, <1>4, <2>1, <2>3
  <2> QED
    BY <2>1, <2>4 DEF Fits, c
<1> QED
  BY <1>6, <1>7

\* Three steps over a divisor of zero: the dividend moves up, and ones come in below
\* one that is not negative.
LEMMA StepsOverZero ==
  ASSUME NEW a \in MinInt..MaxInt
  PROVE  DivSteps(a, 0) = 8 * a + (IF a < 0 THEN 0 ELSE 7)
<1> DEFINE one == IF a < 0 THEN 0 ELSE 1
           Step(s) == LET t == Wrapped(IF s.q = (0 < 0) THEN s.d - 0 * Word ELSE s.d + 0 * Word)
                      IN  [d |-> Wrapped(2 * t + (IF (t < 0) = (0 < 0) THEN 1 ELSE 0)), q |-> t < 0]
<1>1. a \in Int /\ HalfWord \in Nat /\ HalfWord >= 4 /\ Word = 2 * HalfWord
      /\ HalfLong \in Nat /\ 8 * HalfWord <= HalfLong /\ a >= -HalfWord /\ a < HalfWord
  <2>1. HalfWord \in Nat /\ HalfWord >= 4 /\ Word = 2 * HalfWord /\ MinInt = -HalfWord /\ MaxInt = HalfWord - 1
    BY WordFacts
  <2>2. HalfLong = 2 * (HalfWord * HalfWord)
    BY <2>1 DEF HalfLong
  <2>3. HalfWord * HalfWord = 4 * HalfWord + (HalfWord - 4) * HalfWord /\ (HalfWord - 4) * HalfWord >= 0
        /\ HalfWord * HalfWord \in Nat
    BY <2>1
  <2> QED
    BY <2>1, <2>2, <2>3
<1>2. ASSUME NEW v \in (-HalfLong)..(HalfLong - 1) PROVE Wrapped(v) = v
  BY <1>1, SignedBack DEF Wrapped
<1>3. ASSUME NEW s, s.d \in (-4 * HalfWord)..(4 * HalfWord - 1), (s.d < 0) = (a < 0)
      PROVE  Step(s) = [d |-> 2 * s.d + one, q |-> a < 0]
  <2> DEFINE t == Wrapped(IF s.q = (0 < 0) THEN s.d - 0 * Word ELSE s.d + 0 * Word)
             x == s.d
  <2>0. x \in Int /\ x >= -4 * HalfWord /\ x < 4 * HalfWord /\ (x < 0) = (a < 0) /\ Word \in Int
    BY <1>1, <1>3
  <2>1. s.d - 0 * Word = x /\ s.d + 0 * Word = x
    <3> HIDE DEF x
    <3>1. x - 0 * Word = x /\ x + 0 * Word = x
      BY <2>0
    <3> QED
      BY <3>1 DEF x
  <2>2. t = x
    <3>1. x \in (-HalfLong)..(HalfLong - 1)
      <4> HIDE DEF x
      <4> QED
        BY <1>1, <2>0
    <3>2. Wrapped(x) = x
      <4> HIDE DEF x
      <4> QED
        BY <1>2, <3>1
    <3> QED
      BY <2>1, <3>2
  <2>3. (IF (t < 0) = (0 < 0) THEN 1 ELSE 0) = one /\ (t < 0) = (a < 0)
    <3> HIDE DEF t, x
    <3> QED
      BY <1>1, <2>0, <2>2
  <2>4. Wrapped(2 * t + (IF (t < 0) = (0 < 0) THEN 1 ELSE 0)) = 2 * x + one
    <3> HIDE DEF t, x
    <3>1. 2 * x + one \in (-HalfLong)..(HalfLong - 1)
      BY <1>1, <2>0
    <3> QED
      BY <1>2, <2>2, <2>3, <3>1
  <2>5. Step(s) = [d |-> Wrapped(2 * t + (IF (t < 0) = (0 < 0) THEN 1 ELSE 0)), q |-> t < 0]
    OBVIOUS
  <2> HIDE DEF t, one, Step
  <2> QED
    BY <2>3, <2>4, <2>5
<1> DEFINE s0 == [d |-> a, q |-> a < 0]
           s1 == [d |-> 2 * a + one, q |-> a < 0]
           s2 == [d |-> 4 * a + 3 * one, q |-> a < 0]
           s3 == [d |-> 8 * a + 7 * one, q |-> a < 0]
<1>4. DivSteps(a, 0) = Step(Step(Step(s0))).d
  BY DEF DivSteps
<1>5. Step(s0) = s1
  <2>1. s0.d \in (-4 * HalfWord)..(4 * HalfWord - 1) /\ (s0.d < 0) = (a < 0)
    BY <1>1
  <2>2. Step(s0) = [d |-> 2 * s0.d + one, q |-> a < 0]
    <3> HIDE DEF s0, one, Step
    <3> QED
      BY <1>3, <2>1
  <2> QED
    BY <2>2
<1>6. Step(s1) = s2
  <2>1. s1.d \in (-4 * HalfWord)..(4 * HalfWord - 1) /\ (s1.d < 0) = (a < 0)
    BY <1>1
  <2>2. Step(s1) = [d |-> 2 * s1.d + one, q |-> a < 0]
    <3> HIDE DEF s1, one, Step
    <3> QED
      BY <1>3, <2>1
  <2>3. 2 * s1.d + one = 4 * a + 3 * one
    BY <1>1
  <2> HIDE DEF one, Step, s1
  <2> QED
    BY <2>2, <2>3
<1>7. Step(s2) = s3
  <2>1. s2.d \in (-4 * HalfWord)..(4 * HalfWord - 1) /\ (s2.d < 0) = (a < 0)
    BY <1>1
  <2>2. Step(s2) = [d |-> 2 * s2.d + one, q |-> a < 0]
    <3> HIDE DEF s2, one, Step
    <3> QED
      BY <1>3, <2>1
  <2>3. 2 * s2.d + one = 8 * a + 7 * one
    BY <1>1
  <2> HIDE DEF one, Step, s2
  <2> QED
    BY <2>2, <2>3
<1>8. DivSteps(a, 0) = s3.d
  <2> HIDE DEF Step, s0, s1, s2, s3
  <2> QED
    BY <1>4, <1>5, <1>6, <1>7
<1> QED
  BY <1>1, <1>8

\* Three bits of a dividend end up above the word either way.
LEMMA PartialRemainder ==
  ASSUME NEW a \in MinInt..MaxInt
  PROVE  a \div (Word \div 8) = DivSteps(a, 0) \div Word
<1> DEFINE k == HalfWord \div 4
           c == IF a < 0 THEN 0 ELSE 7
           q == a \div k
           r == a % k
<1>1. k \in Nat /\ k > 0 /\ Word = 8 * k /\ a \in Int
  BY OnChipAssumption, WordFacts
<1>2. Word \div 8 = k
  <2> HIDE DEF k
  <2>1. (8 * k + 0) \div 8 = k
    BY <1>1, DivisionUnique
  <2> QED
    BY <1>1, <2>1
<1>3. q \in Int /\ r \in 0..(k - 1) /\ a = k * q + r
  <2> HIDE DEF k
  <2>1. q \in Int /\ r \in 0..(k - 1) /\ r = a - k * q
    BY <1>1, Division
  <2> HIDE DEF q, r
  <2> QED
    BY <1>1, <2>1
<1>4. (8 * a + c) \div Word = q
  <2> HIDE DEF k, q, r
  <2>1. 8 * a + c = Word * q + (8 * r + c) /\ 8 * r + c \in 0..(Word - 1)
    <3>1. Word * q = 8 * (k * q)
      BY <1>1, <1>3
    <3> QED
      BY <1>1, <1>3, <3>1
  <2> DEFINE e == 8 * r + c
  <2> HIDE DEF e
  <2>2. (Word * q + e) \div Word = q
    BY <1>3, <2>1, WordFacts, DivisionUnique DEF e
  <2> QED
    BY <2>1, <2>2 DEF e
<1> QED
  BY <1>2, <1>4, StepsOverZero

\* The dividend of the short division, extended as the write of it does.
LEMMA ShortDividend ==
  ASSUME NEW lo \in 0..(Word - 1)
  PROVE  LET hi == IF lo >= HalfWord THEN Word - 1 ELSE 0
         IN  /\ Dividend(hi, lo) = AsInt(lo, HalfWord)
             /\ (AsInt(hi, HalfWord) < 0) = (AsInt(lo, HalfWord) < 0)
<1> DEFINE hi == IF lo >= HalfWord THEN Word - 1 ELSE 0
<1>1. HalfWord \in Nat /\ HalfWord >= 4 /\ Word = 2 * HalfWord /\ lo \in 0..(2 * HalfWord - 1)
  BY WordFacts
<1>2. CASE lo >= HalfWord
  <2>1. AsInt(hi, HalfWord) = -1 /\ AsInt(lo, HalfWord) = lo - 2 * HalfWord
    BY <1>1, <1>2 DEF AsInt
  <2>2. (-1) * Word = -Word
    BY <1>1
  <2> QED
    BY <1>1, <1>2, <2>1, <2>2 DEF Dividend
<1>3. CASE ~(lo >= HalfWord)
  <2>1. AsInt(hi, HalfWord) = 0 /\ AsInt(lo, HalfWord) = lo
    BY <1>1, <1>3 DEF AsInt
  <2>2. 0 * Word = 0
    BY <1>1
  <2> QED
    BY <1>1, <1>3, <2>1, <2>2 DEF Dividend
<1> QED
  BY <1>2, <1>3

\* Both widths agree, but for the partial quotient of a division by zero.
LEMMA WidthsAgree ==
  ASSUME NEW lo \in 0..(Word - 1), NEW d \in 0..(Word - 1), NEW ovfie \in BOOLEAN,
         d # 0 \/ ~ovfie
  PROVE  Divu32(lo, d, ovfie)
           = Divu64(IF lo >= HalfWord THEN Word - 1 ELSE 0, lo, d, ovfie)
<1> DEFINE hi == IF lo >= HalfWord THEN Word - 1 ELSE 0
           a == AsInt(lo, HalfWord)
           b == AsInt(d, HalfWord)
           n == AsInt(hi, HalfWord)
<1>1. a \in MinInt..MaxInt /\ b \in MinInt..MaxInt
  BY SignedWord
<1>2. Dividend(hi, lo) = a /\ (n < 0) = (a < 0)
  BY ShortDividend
<1>3. CASE b # 0
  <2>1. Fits(a, b)
    BY <1>1, <1>3, QuotientFits
  <2>2. Divu32(lo, d, ovfie) = Result(Quot(a, b), Rem(a, b), FALSE)
    BY <1>3 DEF Divu32
  <2>3. Divu64(hi, lo, d, ovfie) = Result(Quot(a, b), Rem(a, b), FALSE)
    <3> HIDE DEF hi
    <3>1. IF b # 0 /\ Fits(Dividend(hi, lo), b)
          THEN Divu64(hi, lo, d, ovfie) = Result(Quot(Dividend(hi, lo), b), Rem(Dividend(hi, lo), b), FALSE)
          ELSE Divu64(hi, lo, d, ovfie)
                 = Result(IF ovfie THEN DivSteps(Dividend(hi, lo), b) ELSE Saturated((n < 0) # (b < 0)),
                          DivSteps(Dividend(hi, lo), b) \div Word, TRUE)
      BY Divu64Is
    <3> HIDE DEF a, b, n
    <3> QED
      BY <1>2, <1>3, <2>1, <3>1
  <2> QED
    BY <2>2, <2>3
<1>4. CASE b = 0
  <2>1. ~ovfie
    <3>1. d = 0
      BY <1>4, WordFacts DEF AsInt
    <3> QED
      BY <3>1
  <2>2. Divu32(lo, d, ovfie) = Result(Saturated(a < 0), a \div (Word \div 8), TRUE)
    BY <1>4, <2>1 DEF Divu32
  <2>3. Divu64(hi, lo, d, ovfie) = Result(Saturated((n < 0) # (b < 0)), DivSteps(a, b) \div Word, TRUE)
    <3> HIDE DEF hi
    <3>1. IF b # 0 /\ Fits(Dividend(hi, lo), b)
          THEN Divu64(hi, lo, d, ovfie) = Result(Quot(Dividend(hi, lo), b), Rem(Dividend(hi, lo), b), FALSE)
          ELSE Divu64(hi, lo, d, ovfie)
                 = Result(IF ovfie THEN DivSteps(Dividend(hi, lo), b) ELSE Saturated((n < 0) # (b < 0)),
                          DivSteps(Dividend(hi, lo), b) \div Word, TRUE)
      BY Divu64Is
    <3> HIDE DEF a, b, n
    <3> QED
      BY <1>2, <1>4, <2>1, <3>1
  <2>4. Saturated((n < 0) # (b < 0)) = Saturated(a < 0)
    BY <1>2, <1>4 DEF Saturated
  <2>5. a \div (Word \div 8) = DivSteps(a, b) \div Word
    <3> HIDE DEF a
    <3>1. a \div (Word \div 8) = DivSteps(a, 0) \div Word
      BY <1>1, PartialRemainder
    <3> QED
      BY <1>4, <3>1
  <2> DEFINE s == Saturated((n < 0) # (b < 0))
             t == Saturated(a < 0)
             e == a \div (Word \div 8)
             f == DivSteps(a, b) \div Word
  <2>6. s = t /\ e = f /\ Divu32(lo, d, ovfie) = Result(t, e, TRUE)
        /\ Divu64(hi, lo, d, ovfie) = Result(s, f, TRUE)
    BY <2>2, <2>3, <2>4, <2>5
  <2> HIDE DEF s, t, e, f, hi
  <2> QED
    BY <2>6 DEF hi
<1> QED
  BY <1>3, <1>4

\* The divider is exact for operands of any size.
LEMMA DividerExact ==
  ASSUME NEW hi \in Operands, NEW lo \in Operands, NEW d \in Operands
  PROVE  DividerIsExact(hi, lo, d)
<1>0. hi \in 0..(Word - 1) /\ lo \in 0..(Word - 1) /\ d \in 0..(Word - 1)
  BY OnChipAssumption DEF Word
<1> DEFINE r == Divu64(hi, lo, d, TRUE)
           num == AsInt(hi, HalfWord) * Word + lo
           den == AsInt(d, HalfWord)
           Same32(ovfie) == Divu32(lo, d, ovfie)
                              = Divu64(IF lo >= HalfWord THEN Word - 1 ELSE 0, lo, d, ovfie)
<1>1. ~r.ovf => \E q \in {AsInt(r.q, HalfWord), r.q} : Divides(q, AsInt(r.r, HalfWord), num, den)
  BY <1>0, ResultMultipliesBack DEF Dividend
<1>2. r.ovf => \A q \in MinInt..MaxInt : ~Divides(q, num - q * den, num, den)
  BY <1>0, OverflowHasNone DEF Dividend
<1>3. Same32(FALSE) /\ (d # 0 => Same32(TRUE))
  BY <1>0, WidthsAgree
<1> HIDE DEF r, num, den, Same32
<1>4. /\ ~r.ovf => \E q \in {AsInt(r.q, HalfWord), r.q} : Divides(q, AsInt(r.r, HalfWord), num, den)
      /\ r.ovf => \A q \in MinInt..MaxInt : ~Divides(q, num - q * den, num, den)
      /\ Same32(FALSE) /\ (d # 0 => Same32(TRUE))
  BY <1>1, <1>2, <1>3
<1> QED
  BY <1>4 DEF DividerIsExact, r, num, den, Same32

-----------------------------------------------------------------------------
(* The DMA controller.                                                       *)

\* g follows a channel's transfer, a unit at a time.
Follows(g, ch, m, n) ==
    g = [k \in 0..n |-> IF k = 0 THEN [mem |-> m, sar |-> ch.sar, dar |-> ch.dar]
                        ELSE UnitDone(ch, g[k - 1])]

LEMMA TransferExists ==
  ASSUME NEW ch, NEW m, NEW n \in Nat
  PROVE  \E g : Follows(g, ch, m, n)
<1> DEFINE Bad == {k \in Nat : ~\E g : Follows(g, ch, m, k)}
           first == [mem |-> m, sar |-> ch.sar, dar |-> ch.dar]
<1> SUFFICES ASSUME Bad # {} PROVE FALSE
  OBVIOUS
<1>1. PICK j \in Bad : \A i \in Bad : j <= i
  BY LeastNumber
<1>2. j \in Nat /\ j # 0
  <2>1. CASE j = 0
    <3> DEFINE g == [k \in 0..0 |-> first]
    <3>1. \A k \in 0..0 : g[k] = IF k = 0 THEN first ELSE UnitDone(ch, g[k - 1])
      OBVIOUS
    <3>2. Follows(g, ch, m, 0)
      BY <3>1 DEF Follows
    <3> QED
      BY <2>1, <3>2
  <2> QED
    BY <2>1
<1>3. j - 1 \in Nat /\ j - 1 \notin Bad
  BY <1>1, <1>2
<1>4. PICK g : Follows(g, ch, m, j - 1)
  BY <1>3
<1> DEFINE longer == [k \in 0..j |-> IF k = j THEN UnitDone(ch, g[j - 1]) ELSE g[k]]
<1>5. \A k \in 0..(j - 1) : longer[k] = g[k]
  BY <1>3
<1>6. \A k \in 0..(j - 1) : g[k] = IF k = 0 THEN first ELSE UnitDone(ch, g[k - 1])
  BY <1>4 DEF Follows
<1> HIDE DEF first
<1>7. ASSUME NEW k \in 0..j
      PROVE  longer[k] = IF k = 0 THEN first ELSE UnitDone(ch, longer[k - 1])
  <2>1. CASE k = j
    <3>1. longer[k] = UnitDone(ch, g[j - 1]) /\ longer[k - 1] = g[j - 1] /\ k # 0
      BY <1>2, <1>3, <1>5, <2>1
    <3> QED
      BY <3>1
  <2>2. CASE k # j
    <3>1. k \in 0..(j - 1) /\ (k # 0 => k - 1 \in 0..(j - 1))
      BY <1>3, <2>2
    <3>2. longer[k] = g[k] /\ (k # 0 => longer[k - 1] = g[k - 1])
      BY <1>5, <3>1
    <3> HIDE DEF longer
    <3> QED
      BY <1>6, <3>1, <3>2
  <2> QED
    BY <2>1, <2>2
<1>8. Follows(longer, ch, m, j)
  BY <1>7 DEF Follows, first
<1> QED
  BY <1>8

\* What an armed channel leaves, by following its units.
LEMMA TransferIs ==
  ASSUME NEW ch, NEW m, ch.de, ~ch.te, Units(ch) \in Nat
  PROVE  \E g : /\ g[0] = [mem |-> m, sar |-> ch.sar, dar |-> ch.dar]
                /\ \A k \in 1..Units(ch) : g[k] = UnitDone(ch, g[k - 1])
                /\ DmacRun(ch, TRUE, m)
                     = [ch |-> [ch EXCEPT !.sar = g[Units(ch)].sar, !.dar = g[Units(ch)].dar,
                                          !.tcr = 0, !.de = FALSE, !.te = TRUE],
                        mem |-> g[Units(ch)].mem]
<1> DEFINE n == Units(ch)
           first == [mem |-> m, sar |-> ch.sar, dar |-> ch.dar]
           Does(h) == h = [k \in 0..n |-> IF k = 0 THEN first ELSE UnitDone(ch, h[k - 1])]
           g == CHOOSE h : Does(h)
<1>0. \E h : Does(h)
  <2>1. PICK h : Follows(h, ch, m, n)
    BY TransferExists
  <2>2. Does(h)
    BY <2>1 DEF Follows
  <2> QED
    BY <2>2
<1>1. g = [k \in 0..n |-> IF k = 0 THEN first ELSE UnitDone(ch, g[k - 1])]
  <2>1. Does(g)
    BY <1>0
  <2> QED
    BY <2>1
<1>2. DmacRun(ch, TRUE, m) = [ch |-> [ch EXCEPT !.sar = g[n].sar, !.dar = g[n].dar,
                                                !.tcr = 0, !.de = FALSE, !.te = TRUE],
                              mem |-> g[n].mem]
  BY DEF DmacRun, Runs
<1> HIDE DEF g, first
<1>3. g[0] = first /\ \A k \in 1..n : g[k] = UnitDone(ch, g[k - 1])
  <2>1. \A k \in 0..n : g[k] = IF k = 0 THEN first ELSE UnitDone(ch, g[k - 1])
    BY <1>1
  <2> QED
    BY <2>1
<1> QED
  BY <1>2, <1>3 DEF first

UnitSizes == {1, 2, 4, 16}

\* A piece changes nothing beyond itself.
LEMMA PieceStays ==
  ASSUME NEW m, NEW src \in Nat, NEW dst \in Nat, NEW n \in Nat, DOMAIN m = Addresses
  PROVE  /\ DOMAIN CopyPiece(m, src, dst, n) = Addresses
         /\ \A a \in Addresses : a \notin dst..(dst + n - 1) => CopyPiece(m, src, dst, n)[a] = m[a]
<1>1. Addresses \subseteq Nat
  BY OnChipAssumption
<1> QED
  BY <1>1 DEF CopyPiece

LEMMA UnitStays ==
  ASSUME NEW m, NEW src \in Nat, NEW dst \in Nat, NEW unit \in UnitSizes, DOMAIN m = Addresses
  PROVE  /\ DOMAIN CopyUnit(m, src, dst, unit) = Addresses
         /\ \A a \in Addresses : a \notin dst..(dst + unit - 1) => CopyUnit(m, src, dst, unit)[a] = m[a]
<1>1. CASE unit = 16
  <2> DEFINE Longword(w, j) == CopyPiece(w, src + 4 * j, dst + 4 * j, 4)
             m1 == Longword(m, 0)
             m2 == Longword(m1, 1)
             m3 == Longword(m2, 2)
             m4 == Longword(m3, 3)
             Same(w, v) == \A a \in Addresses : a \notin dst..(dst + 15) => w[a] = v[a]
  <2>1. Addresses \subseteq Nat
    BY OnChipAssumption
  <2>2. ASSUME NEW w, NEW j \in 0..3, DOMAIN w = Addresses
        PROVE  DOMAIN Longword(w, j) = Addresses /\ Same(Longword(w, j), w)
    <3>1. /\ DOMAIN Longword(w, j) = Addresses
          /\ \A a \in Addresses : a \notin (dst + 4 * j)..(dst + 4 * j + 4 - 1) => Longword(w, j)[a] = w[a]
      BY <2>2, PieceStays
    <3> HIDE DEF Longword
    <3>2. (dst + 4 * j)..(dst + 4 * j + 4 - 1) \subseteq dst..(dst + 15)
      OBVIOUS
    <3> QED
      BY <3>1, <3>2
  <2> HIDE DEF Longword
  <2>3. DOMAIN m1 = Addresses /\ Same(m1, m)
    BY <2>2
  <2>4. DOMAIN m2 = Addresses /\ Same(m2, m1)
    BY <2>2, <2>3
  <2>5. DOMAIN m3 = Addresses /\ Same(m3, m2)
    BY <2>2, <2>4
  <2>6. DOMAIN m4 = Addresses /\ Same(m4, m3)
    BY <2>2, <2>5
  <2>7. CopyUnit(m, src, dst, unit) = m4
    BY <1>1 DEF CopyUnit, Longword
  <2> HIDE DEF m1, m2, m3, m4
  <2>8. Same(m4, m)
    BY <2>3, <2>4, <2>5, <2>6
  <2> QED
    BY <1>1, <2>6, <2>7, <2>8
<1>2. CASE unit # 16
  <2>1. CopyUnit(m, src, dst, unit) = CopyPiece(m, src, dst, unit)
    BY <1>2 DEF CopyUnit
  <2>2. unit \in Nat
    BY DEF UnitSizes
  <2> QED
    BY <2>1, <2>2, PieceStays
<1> QED
  BY <1>1, <1>2

LEMMA UnitDoneStays ==
  ASSUME NEW b, b.sar \in Nat, b.dar \in Nat, DOMAIN b.mem = Addresses, NEW ch, ch.ts \in 0..3
  PROVE  LET unit == UnitBytes[ch.ts + 1]
         IN  /\ DOMAIN UnitDone(ch, b).mem = Addresses
             /\ \A a \in Addresses :
                  a \notin b.dar..(b.dar + unit - 1) => UnitDone(ch, b).mem[a] = b.mem[a]
<1> DEFINE unit == UnitBytes[ch.ts + 1]
           w == b.mem
           src == b.sar
           dst == b.dar
           v == CopyUnit(w, src, dst, unit)
<1>1. UnitDone(ch, b).mem = v
  BY DEF UnitDone
<1>2. unit \in UnitSizes
  BY DEF UnitBytes, UnitSizes
<1>3. src \in Nat /\ dst \in Nat /\ DOMAIN w = Addresses
  OBVIOUS
<1> HIDE DEF unit, w, src, dst
<1>4. DOMAIN CopyUnit(w, src, dst, unit) = Addresses
  BY <1>2, <1>3, UnitStays
<1>5. ASSUME NEW a \in Addresses, a \notin dst..(dst + unit - 1)
      PROVE  CopyUnit(w, src, dst, unit)[a] = w[a]
  BY <1>2, <1>3, <1>5, UnitStays
<1> QED
  BY <1>1, <1>4, <1>5 DEF unit, w, src, dst

\* Where a channel that counts up is after some units, and what it has changed.
LEMMA TransferStays ==
  ASSUME NEW ch, NEW m \in Contents, NEW g, NEW n \in Nat,
         ch.sar \in Nat, ch.dar \in Nat, ch.sm = 1, ch.dm = 1, ch.ts \in 0..3,
         g[0] = [mem |-> m, sar |-> ch.sar, dar |-> ch.dar],
         \A k \in 1..n : g[k] = UnitDone(ch, g[k - 1]),
         NEW k \in 0..n
  PROVE  LET unit == UnitBytes[ch.ts + 1]
         IN  /\ g[k].sar = ch.sar + unit * k /\ g[k].dar = ch.dar + unit * k
             /\ DOMAIN g[k].mem = Addresses
             /\ \A a \in Addresses : g[k].mem[a] # m[a] => a \in ch.dar..(ch.dar + unit * k - 1)
<1> DEFINE unit == UnitBytes[ch.ts + 1]
           Stays(j) == \A a \in Addresses : g[j].mem[a] # m[a] => a \in ch.dar..(ch.dar + unit * j - 1)
           S == {j \in 0..n : /\ g[j].sar = ch.sar + unit * j /\ g[j].dar = ch.dar + unit * j
                              /\ DOMAIN g[j].mem = Addresses
                              /\ Stays(j)}
<1>1. unit \in UnitSizes /\ unit \in Nat
  BY DEF UnitBytes, UnitSizes
<1>2. DOMAIN m = Addresses /\ Addresses \subseteq Nat
  BY OnChipAssumption
<1>3. 0 \in S
  <2>1. g[0].sar = ch.sar /\ g[0].dar = ch.dar /\ g[0].mem = m
    OBVIOUS
  <2>2. unit * 0 = 0
    BY <1>1
  <2> HIDE DEF unit
  <2> QED
    BY <1>2, <2>1, <2>2
<1>4. ASSUME NEW j \in 1..n, j - 1 \in S PROVE j \in S
  <2> DEFINE b == g[j - 1]
             t == unit * (j - 1)
  <2>1. /\ b.sar = ch.sar + t /\ b.dar = ch.dar + t /\ DOMAIN b.mem = Addresses /\ Stays(j - 1)
    BY <1>4
  <2>2. unit * j = t + unit /\ t \in Nat
    <3>1. j \in Nat /\ j - 1 \in Nat
      OBVIOUS
    <3> HIDE DEF unit
    <3> QED
      BY <1>1, <3>1
  <2>3. /\ g[j].mem = CopyUnit(b.mem, b.sar, b.dar, unit)
        /\ g[j].sar = Moved(b.sar, 1, unit) /\ g[j].dar = Moved(b.dar, 1, unit)
    <3>1. g[j] = UnitDone(ch, b)
      OBVIOUS
    <3> HIDE DEF b
    <3> QED
      BY <3>1 DEF UnitDone
  <2>4. g[j].sar = b.sar + unit /\ g[j].dar = b.dar + unit
    BY <2>3 DEF Moved
  <2>5. b.sar \in Nat /\ b.dar \in Nat
    BY <2>1, <2>2
  <2>6. /\ DOMAIN g[j].mem = Addresses
        /\ \A a \in Addresses : a \notin b.dar..(b.dar + unit - 1) => g[j].mem[a] = b.mem[a]
    <3>1. g[j] = UnitDone(ch, b)
      OBVIOUS
    <3> HIDE DEF b, unit
    <3>2. b.sar \in Nat /\ b.dar \in Nat /\ DOMAIN b.mem = Addresses
      BY <2>1, <2>5
    <3>3. /\ DOMAIN UnitDone(ch, b).mem = Addresses
          /\ \A a \in Addresses : a \notin b.dar..(b.dar + unit - 1) => UnitDone(ch, b).mem[a] = b.mem[a]
      BY <3>2, UnitDoneStays DEF unit
    <3> QED
      BY <3>1, <3>3
  <2>7. Stays(j)
    <3> SUFFICES ASSUME NEW a \in Addresses, g[j].mem[a] # m[a]
                 PROVE  a \in ch.dar..(ch.dar + unit * j - 1)
      OBVIOUS
    <3>1. \/ a \in b.dar..(b.dar + unit - 1)
          \/ b.mem[a] # m[a]
      BY <2>6
    <3>2. a \in b.dar..(b.dar + unit - 1) \/ a \in ch.dar..(ch.dar + t - 1)
      BY <2>1, <3>1
    <3> HIDE DEF b, t, unit
    <3> QED
      BY <1>1, <1>2, <2>1, <2>2, <3>2
  <2>8. g[j].sar = ch.sar + unit * j /\ g[j].dar = ch.dar + unit * j
    <3> HIDE DEF b, t, unit
    <3> QED
      BY <1>1, <2>1, <2>2, <2>4
  <2> HIDE DEF b, t, unit
  <2> QED
    BY <2>6, <2>7, <2>8
<1> HIDE DEF S
<1>5. \A j \in 0..n : j \in S
  BY <1>3, <1>4, UpTo
<1> QED
  BY <1>5 DEF S

\* A burst is four longwords.
LEMMA BurstIsFour ==
  ASSUME NEW b, b.sar \in Nat, b.dar \in Nat, NEW ch, NEW cl,
         ch.ts = 3, ch.sm = 1, ch.dm = 1, cl.ts = 2, cl.sm = 1, cl.dm = 1
  PROVE  UnitDone(ch, b) = UnitDone(cl, UnitDone(cl, UnitDone(cl, UnitDone(cl, b))))
<1> DEFINE s == b.sar
           d == b.dar
           m1 == CopyPiece(b.mem, s, d, 4)
           m2 == CopyPiece(m1, s + 4, d + 4, 4)
           m3 == CopyPiece(m2, s + 8, d + 8, 4)
           m4 == CopyPiece(m3, s + 12, d + 12, 4)
           At(w, i) == [mem |-> w, sar |-> s + i, dar |-> d + i]
<1>0. s \in Nat /\ d \in Nat
  OBVIOUS
<1>1. UnitDone(ch, b) = At(m4, 16)
  <2>1. UnitDone(ch, b) = [mem |-> CopyUnit(b.mem, s, d, 16), sar |-> s + 16, dar |-> d + 16]
    BY DEF UnitDone, UnitBytes, Moved
  <2>2. CopyUnit(b.mem, s, d, 16)
          = CopyPiece(CopyPiece(CopyPiece(CopyPiece(b.mem, s + 4 * 0, d + 4 * 0, 4),
                                          s + 4 * 1, d + 4 * 1, 4),
                                s + 4 * 2, d + 4 * 2, 4),
                      s + 4 * 3, d + 4 * 3, 4)
    BY DEF CopyUnit
  <2>3. /\ s + 4 * 0 = s /\ s + 4 * 1 = s + 4 /\ s + 4 * 2 = s + 8 /\ s + 4 * 3 = s + 12
        /\ d + 4 * 0 = d /\ d + 4 * 1 = d + 4 /\ d + 4 * 2 = d + 8 /\ d + 4 * 3 = d + 12
    BY <1>0
  <2> HIDE DEF s, d
  <2>4. CopyUnit(b.mem, s, d, 16) = m4
    BY <2>2, <2>3
  <2> QED
    BY <2>1, <2>4
<1>2. UnitDone(cl, b) = At(m1, 4)
  BY DEF UnitDone, UnitBytes, CopyUnit, Moved
<1> HIDE DEF s, d
<1>3. ASSUME NEW w, NEW i \in {4, 8, 12}
      PROVE  UnitDone(cl, At(w, i)) = At(CopyPiece(w, s + i, d + i, 4), i + 4)
  <2>1. (s + i) + 4 = s + (i + 4) /\ (d + i) + 4 = d + (i + 4)
    BY <1>0
  <2>2. UnitDone(cl, At(w, i)) = [mem |-> CopyPiece(w, s + i, d + i, 4), sar |-> (s + i) + 4, dar |-> (d + i) + 4]
    BY DEF UnitDone, UnitBytes, CopyUnit, Moved
  <2> QED
    BY <2>1, <2>2
<1> HIDE DEF At, m1, m2, m3, m4
<1>4. UnitDone(cl, At(m1, 4)) = At(m2, 8)
  BY <1>3 DEF m2
<1>5. UnitDone(cl, At(m2, 8)) = At(m3, 12)
  BY <1>3 DEF m3
<1>6. UnitDone(cl, At(m3, 12)) = At(m4, 16)
  BY <1>3 DEF m4
<1> QED
  BY <1>1, <1>2, <1>4, <1>5, <1>6

\* A channel in burst mode does what longword mode does, and stops.
LEMMA BurstsExact ==
  ASSUME NEW ch \in Channels, NEW m \in Contents
  PROVE  BurstsAreLongwords(ch, m)
<1> DEFINE n == IF ch.tcr = 0 THEN FullCount ELSE ch.tcr
           bursts == (n + 3) \div 4
           cb == [ch EXCEPT !.ts = 3]
           cl == [ch EXCEPT !.ts = 2, !.tcr = 4 * bursts]
           c1 == [ch EXCEPT !.ts = 0]
           burst == DmacRun(cb, TRUE, m)
           long == DmacRun(cl, TRUE, m)
           bytes == DmacRun(c1, TRUE, m)
<1>1. /\ ch \in [de : {TRUE}, te : {FALSE}, ie : {TRUE}, ts : 0..3, sm : {1}, dm : {1},
                 sar : Nat, dar : Nat, tcr : Nat]
      /\ FullCount \in Nat /\ FullCount > 0
  BY OnChipAssumption
<1>2. n \in Nat /\ n > 0 /\ bursts \in Nat /\ bursts > 0
  <2>1. n \in Nat /\ n > 0
    BY <1>1
  <2> HIDE DEF n
  <2> QED
    BY <2>1
<1> HIDE DEF n, bursts
<1>3. ASSUME NEW c \in {cb, cl, c1}
      PROVE  /\ c.de /\ ~c.te /\ c.sm = 1 /\ c.dm = 1 /\ c.sar = ch.sar /\ c.dar = ch.dar
             /\ c.sar \in Nat /\ c.dar \in Nat /\ c.ts \in 0..3
  <2>1. cb.de /\ ~cb.te /\ cb.sm = 1 /\ cb.dm = 1
       /\ cb.sar = ch.sar /\ cb.dar = ch.dar /\ cb.ts = 3
    BY <1>1
  <2>2. cl.de /\ ~cl.te /\ cl.sm = 1 /\ cl.dm = 1
       /\ cl.sar = ch.sar /\ cl.dar = ch.dar /\ cl.ts = 2
    BY <1>1
  <2>3. c1.de /\ ~c1.te /\ c1.sm = 1 /\ c1.dm = 1
       /\ c1.sar = ch.sar /\ c1.dar = ch.dar /\ c1.ts = 0
    BY <1>1
  <2>4. ch.sar \in Nat /\ ch.dar \in Nat
    BY <1>1
  <2> HIDE DEF cb, cl, c1
  <2> QED
    BY <2>1, <2>2, <2>3, <2>4
<1>4. Units(cb) = bursts /\ Units(cl) = 4 * bursts /\ Units(c1) = n
  <2>1. cb.ts = 3 /\ cb.tcr = ch.tcr /\ cl.ts = 2 /\ cl.tcr = 4 * bursts /\ c1.ts = 0 /\ c1.tcr = ch.tcr
    BY <1>1
  <2>2. 4 * bursts # 0
    BY <1>2
  <2> HIDE DEF cb, cl, c1
  <2> QED
    BY <2>1, <2>2 DEF Units, n, bursts
<1>5. cb.ts = 3 /\ cl.ts = 2 /\ c1.ts = 0 /\ cb.ie
  BY <1>1
<1> DEFINE first == [mem |-> m, sar |-> ch.sar, dar |-> ch.dar]
           Ends(c, x) == [ch |-> [c EXCEPT !.sar = x.sar, !.dar = x.dar, !.tcr = 0, !.de = FALSE, !.te = TRUE],
                          mem |-> x.mem]
<1>6. PICK g : /\ g[0] = first /\ \A k \in 1..bursts : g[k] = UnitDone(cb, g[k - 1])
               /\ burst = Ends(cb, g[bursts])
  <2> HIDE DEF cb
  <2>1. cb.de /\ ~cb.te /\ cb.sar = ch.sar /\ cb.dar = ch.dar /\ Units(cb) \in Nat
    BY <1>2, <1>3, <1>4
  <2>2. \E x : /\ x[0] = [mem |-> m, sar |-> cb.sar, dar |-> cb.dar]
               /\ \A k \in 1..Units(cb) : x[k] = UnitDone(cb, x[k - 1])
               /\ DmacRun(cb, TRUE, m) = Ends(cb, x[Units(cb)])
    BY <2>1, TransferIs
  <2> HIDE DEF Ends
  <2> QED
    BY <1>4, <2>1, <2>2
<1>7. PICK h : /\ h[0] = first /\ \A k \in 1..(4 * bursts) : h[k] = UnitDone(cl, h[k - 1])
               /\ long = Ends(cl, h[4 * bursts])
  <2> HIDE DEF cl
  <2>1. cl.de /\ ~cl.te /\ cl.sar = ch.sar /\ cl.dar = ch.dar /\ Units(cl) \in Nat
    BY <1>2, <1>3, <1>4
  <2>2. \E x : /\ x[0] = [mem |-> m, sar |-> cl.sar, dar |-> cl.dar]
               /\ \A k \in 1..Units(cl) : x[k] = UnitDone(cl, x[k - 1])
               /\ DmacRun(cl, TRUE, m) = Ends(cl, x[Units(cl)])
    BY <2>1, TransferIs
  <2> HIDE DEF Ends
  <2> QED
    BY <1>4, <2>1, <2>2
<1>8. PICK e : /\ e[0] = first /\ \A k \in 1..n : e[k] = UnitDone(c1, e[k - 1])
               /\ bytes = Ends(c1, e[n])
  <2> HIDE DEF c1
  <2>1. c1.de /\ ~c1.te /\ c1.sar = ch.sar /\ c1.dar = ch.dar /\ Units(c1) \in Nat
    BY <1>2, <1>3, <1>4
  <2>2. \E x : /\ x[0] = [mem |-> m, sar |-> c1.sar, dar |-> c1.dar]
               /\ \A k \in 1..Units(c1) : x[k] = UnitDone(c1, x[k - 1])
               /\ DmacRun(c1, TRUE, m) = Ends(c1, x[Units(c1)])
    BY <2>1, TransferIs
  <2> HIDE DEF Ends
  <2> QED
    BY <1>4, <2>1, <2>2
<1>9. ASSUME NEW k \in 0..bursts
      PROVE  /\ g[k].sar \in Nat /\ g[k].dar \in Nat
             /\ \A a \in Addresses : g[k].mem[a] # m[a] => a \in ch.dar..(ch.dar + 16 * k - 1)
  <2>1. cb.sar = ch.sar /\ cb.dar = ch.dar /\ cb.sm = 1 /\ cb.dm = 1 /\ ch.sar \in Nat /\ ch.dar \in Nat
    BY <1>3
  <2>2. UnitBytes[cb.ts + 1] = 16
    BY <1>5 DEF UnitBytes
  <2> HIDE DEF cb
  <2>3. /\ g[k].sar = ch.sar + 16 * k /\ g[k].dar = ch.dar + 16 * k
        /\ \A a \in Addresses : g[k].mem[a] # m[a] => a \in ch.dar..(ch.dar + 16 * k - 1)
    BY <1>2, <1>5, <1>6, <2>1, <2>2, TransferStays
  <2> QED
    BY <1>2, <2>1, <2>3
<1>10. \A a \in Addresses : e[n].mem[a] # m[a] => a \in ch.dar..(ch.dar + n - 1)
  <2>1. c1.sar = ch.sar /\ c1.dar = ch.dar /\ c1.sm = 1 /\ c1.dm = 1 /\ ch.sar \in Nat /\ ch.dar \in Nat
    BY <1>3
  <2>2. UnitBytes[c1.ts + 1] = 1
    BY <1>5 DEF UnitBytes
  <2> HIDE DEF c1
  <2>3. \A a \in Addresses : e[n].mem[a] # m[a] => a \in ch.dar..(ch.dar + 1 * n - 1)
    BY <1>2, <1>5, <1>8, <2>1, <2>2, TransferStays
  <2> QED
    BY <1>2, <2>3
<1>11. g[bursts] = h[4 * bursts]
  <2> DEFINE S == {k \in 0..bursts : g[k] = h[4 * k]}
  <2>1. 0 \in S
    BY <1>2, <1>6, <1>7
  <2>2. ASSUME NEW k \in 1..bursts, k - 1 \in S PROVE k \in S
    <3>1. /\ 4 * k - 3 \in 1..(4 * bursts) /\ 4 * k - 2 \in 1..(4 * bursts)
          /\ 4 * k - 1 \in 1..(4 * bursts) /\ 4 * k \in 1..(4 * bursts)
          /\ (4 * k - 3) - 1 = 4 * (k - 1) /\ (4 * k - 2) - 1 = 4 * k - 3
          /\ (4 * k - 1) - 1 = 4 * k - 2 /\ k - 1 \in 0..bursts
      BY <1>2
    <3>2. /\ h[4 * k - 3] = UnitDone(cl, h[4 * (k - 1)]) /\ h[4 * k - 2] = UnitDone(cl, h[4 * k - 3])
          /\ h[4 * k - 1] = UnitDone(cl, h[4 * k - 2]) /\ h[4 * k] = UnitDone(cl, h[4 * k - 1])
      <4> HIDE DEF cl
      <4> QED
        BY <1>7, <3>1
    <3> DEFINE b == g[k - 1]
    <3>3. g[k] = UnitDone(cb, b) /\ h[4 * (k - 1)] = b /\ b.sar \in Nat /\ b.dar \in Nat
      BY <1>6, <1>9, <2>2, <3>1
    <3> HIDE DEF b
    <3>4. UnitDone(cb, b) = UnitDone(cl, UnitDone(cl, UnitDone(cl, UnitDone(cl, b))))
      <4>1. cb.sm = 1 /\ cb.dm = 1 /\ cl.sm = 1 /\ cl.dm = 1
        BY <1>3
      <4> HIDE DEF cb, cl
      <4> QED
        BY <1>5, <3>3, <4>1, BurstIsFour
    <3>5. g[k] = h[4 * k]
      <4> HIDE DEF cb, cl
      <4> QED
        BY <3>2, <3>3, <3>4
    <3> QED
      BY <3>5
  <2> HIDE DEF S
  <2>3. \A k \in 0..bursts : k \in S
    BY <1>2, <2>1, <2>2, UpTo
  <2>4. bursts \in S
    BY <1>2, <2>3
  <2> QED
    BY <2>4 DEF S
<1>12. burst.mem = long.mem /\ burst.ch.sar = long.ch.sar /\ burst.ch.dar = long.ch.dar
  <2>1. burst = Ends(cb, g[bursts]) /\ long = Ends(cl, g[bursts])
    BY <1>6, <1>7, <1>11
  <2>2. ASSUME NEW x PROVE /\ Ends(cb, x).mem = Ends(cl, x).mem /\ Ends(cb, x).ch.sar = x.sar
                           /\ Ends(cl, x).ch.sar = x.sar /\ Ends(cb, x).ch.dar = x.dar
                           /\ Ends(cl, x).ch.dar = x.dar
    BY <1>1
  <2> HIDE DEF Ends, burst, long, cb, cl
  <2> QED
    BY <2>1, <2>2
<1>13. \A a \in Addresses : /\ burst.mem[a] # m[a] => a \in ch.dar..(ch.dar + 16 * bursts - 1)
                            /\ bytes.mem[a] # m[a] => a \in ch.dar..(ch.dar + n - 1)
  <2>1. burst.mem = g[bursts].mem /\ bytes.mem = e[n].mem
    <3> HIDE DEF burst, bytes, cb, c1
    <3> QED
      BY <1>6, <1>8
  <2> HIDE DEF burst, bytes
  <2> QED
    BY <1>2, <1>9, <1>10, <2>1
<1>14. burst.ch.te /\ burst.ch.ie
  <2>1. ASSUME NEW x PROVE Ends(cb, x).ch.te /\ Ends(cb, x).ch.ie
    BY <1>1
  <2> HIDE DEF Ends, burst, cb
  <2> QED
    BY <1>6, <2>1
<1>15. DmacRun(burst.ch, TRUE, burst.mem) = burst
  <2>1. burst = [ch |-> burst.ch, mem |-> burst.mem]
    <3>1. burst = Ends(cb, g[bursts])
      BY <1>6
    <3> HIDE DEF burst, cb
    <3> QED
      BY <3>1
  <2> HIDE DEF burst
  <2> QED
    BY <1>14, <2>1 DEF DmacRun, Runs
<1>16. \A level, mask \in Levels16 : level > mask => DmacLevel(<<burst.ch>>, TRUE, level, mask) = level
  <2> HIDE DEF burst
  <2>1. DOMAIN <<burst.ch>> = 1..1 /\ <<burst.ch>>[1] = burst.ch
    OBVIOUS
  <2> QED
    BY <1>14, <2>1 DEF DmacLevel
<1> HIDE DEF burst, long, bytes
<1>17. /\ burst.mem = long.mem /\ burst.ch.sar = long.ch.sar /\ burst.ch.dar = long.ch.dar
       /\ \A a \in Addresses :
             /\ burst.mem[a] # m[a] => a \in ch.dar..(ch.dar + 16 * bursts - 1)
             /\ bytes.mem[a] # m[a] => a \in ch.dar..(ch.dar + n - 1)
       /\ DmacRun(burst.ch, TRUE, burst.mem) = burst
       /\ \A level, mask \in Levels16 : level > mask => DmacLevel(<<burst.ch>>, TRUE, level, mask) = level
  BY <1>12, <1>13, <1>15, <1>16
<1> QED
  BY <1>17 DEF BurstsAreLongwords, burst, long, bytes, n, bursts

\* For timers, words and transfers of any size, in every state: the timer is what its
\* clocks make of it however they were cut, a quotient multiplies back and an overflow
\* has none, and bursts are longwords.
THEOREM OnChipAlwaysExact == OnChipSpec => []OnChipIsExact
<1>1. TimerInv => OnChipIsExact
  <2> SUFFICES ASSUME TimerInv PROVE OnChipIsExact
    OBVIOUS
  <2>1. TimerIsExact
    BY TimerInvExact
  <2>2. given.unit = "divu" => DividerIsExact(given.hi, given.lo, given.d)
    <3> SUFFICES ASSUME given.unit = "divu" PROVE DividerIsExact(given.hi, given.lo, given.d)
      OBVIOUS
    <3>1. given.hi \in Operands /\ given.lo \in Operands /\ given.d \in Operands
      BY DEF TimerInv, OnChipTypeOK, Nothing
    <3> QED
      BY <3>1, DividerExact
  <2>3. given.unit = "dmac" => BurstsAreLongwords(given.ch, given.mem)
    <3> SUFFICES ASSUME given.unit = "dmac" PROVE BurstsAreLongwords(given.ch, given.mem)
      OBVIOUS
    <3>1. given.ch \in Channels /\ given.mem \in Contents
      BY DEF TimerInv, OnChipTypeOK, Nothing
    <3> QED
      BY <3>1, BurstsExact
  <2> QED
    BY <2>1, <2>2, <2>3 DEF OnChipIsExact
<1> QED
  BY <1>1, TimerInvariant, PTL

-----------------------------------------------------------------------------
(* The instruction cache: ways and their order.                              *)

\* The ages of a set: a way is forgotten, or no other is as old.
Ages == [Ways -> 0..Forgotten]
Distinct(a) == \A w, x \in Ways : w # x /\ a[w] = a[x] => a[w] = Forgotten

LEMMA FirstOfSome ==
  ASSUME NEW ws \in SUBSET Ways, ws # {}
  PROVE  /\ FirstOf(ws) \in ws /\ FirstOf(ws) \in Ways
         /\ \A x \in ws : FirstOf(ws) <= x
<1>1. \E w \in ws : \A x \in ws : w <= x
  <2>1. ws \subseteq Nat
    BY DEF Ways
  <2> QED
    BY <2>1, LeastNumber
<1> QED
  BY <1>1 DEF FirstOf

LEMMA FirstOfOne ==
  ASSUME NEW w \in Ways
  PROVE  FirstOf({w}) = w
BY FirstOfSome

\* Which bit is about which ways.
LEMMA SaysIs ==
  ASSUME NEW bits, NEW a
  PROVE  Says(bits, a) <=>
           /\ a[3] < a[2] => 0 \in bits
           /\ a[2] < a[3] => 0 \notin bits
           /\ a[3] < a[1] => 1 \in bits
           /\ a[1] < a[3] => 1 \notin bits
           /\ a[2] < a[1] => 2 \in bits
           /\ a[1] < a[2] => 2 \notin bits
           /\ a[3] < a[0] => 3 \in bits
           /\ a[0] < a[3] => 3 \notin bits
           /\ a[2] < a[0] => 4 \in bits
           /\ a[0] < a[2] => 4 \notin bits
           /\ a[1] < a[0] => 5 \in bits
           /\ a[0] < a[1] => 5 \notin bits
<1>1. /\ Later(0) = 3 /\ Earlier(0) = 2 /\ Later(1) = 3 /\ Earlier(1) = 1
      /\ Later(2) = 2 /\ Earlier(2) = 1 /\ Later(3) = 3 /\ Earlier(3) = 0
      /\ Later(4) = 2 /\ Earlier(4) = 0 /\ Later(5) = 1 /\ Earlier(5) = 0
  BY DEF Later, Earlier, Pairs
<1>2. OrderBits = {0, 1, 2, 3, 4, 5}
  BY DEF OrderBits
<1> QED
  BY <1>1, <1>2 DEF Says

LEMMA AgedType ==
  ASSUME NEW a \in Ages, NEW w \in Ways
  PROVE  Aged(a, w) \in Ages
<1>1. \A x \in Ways : a[x] \in 0..4
  BY DEF Ages, Forgotten
<1>2. \A x \in Ways : (IF x = w THEN 0 ELSE IF a[x] < a[w] THEN a[x] + 1 ELSE a[x]) \in 0..4
  BY <1>1
<1> QED
  BY <1>2 DEF Aged, Ages, Forgotten

\* Touching a way makes it the latest, and leaves the others as they stand.
LEMMA AgedIs ==
  ASSUME NEW a \in Ages, NEW w \in Ways, Distinct(a), NEW x \in Ways, NEW y \in Ways, x # y
  PROVE  /\ Aged(a, w)[w] = 0
         /\ x = w => 0 < Aged(a, w)[y]
         /\ x # w /\ y # w /\ Aged(a, w)[x] < Aged(a, w)[y] => a[x] < a[y]
<1>1. /\ a[x] \in 0..4 /\ a[y] \in 0..4 /\ a[w] \in 0..4
      /\ (a[x] = a[y] => a[x] = 4) /\ (x # w /\ a[x] = a[w] => a[x] = 4) /\ (y # w /\ a[y] = a[w] => a[y] = 4)
  BY DEF Ages, Distinct, Forgotten
<1>2. /\ Aged(a, w)[w] = 0
      /\ x # w => Aged(a, w)[x] = IF a[x] < a[w] THEN a[x] + 1 ELSE a[x]
      /\ y # w => Aged(a, w)[y] = IF a[y] < a[w] THEN a[y] + 1 ELSE a[y]
  BY DEF Aged
<1> QED
  BY <1>1, <1>2

LEMMA AgedDistinct ==
  ASSUME NEW a \in Ages, NEW w \in Ways, Distinct(a)
  PROVE  Distinct(Aged(a, w))
<1> SUFFICES ASSUME NEW x \in Ways, NEW y \in Ways, x # y, Aged(a, w)[x] = Aged(a, w)[y]
             PROVE  Aged(a, w)[x] = Forgotten
  BY DEF Distinct
<1>1. /\ a[x] \in 0..4 /\ a[y] \in 0..4 /\ a[w] \in 0..4
      /\ (a[x] = a[y] => a[x] = 4) /\ (x # w /\ a[x] = a[w] => a[x] = 4) /\ (y # w /\ a[y] = a[w] => a[y] = 4)
  BY DEF Ages, Distinct, Forgotten
<1>2. /\ Aged(a, w)[w] = 0
      /\ x # w => Aged(a, w)[x] = IF a[x] < a[w] THEN a[x] + 1 ELSE a[x]
      /\ y # w => Aged(a, w)[y] = IF a[y] < a[w] THEN a[y] + 1 ELSE a[y]
  BY DEF Aged
<1> QED
  BY <1>1, <1>2 DEF Forgotten

\* A way that is the latest stays so.
LEMMA AgedAgain ==
  ASSUME NEW a \in Ages, NEW w \in Ways, a[w] = 0
  PROVE  Aged(a, w) = a
<1>1. \A x \in Ways : a[x] \in 0..4
  BY DEF Ages, Forgotten
<1>2. \A x \in Ways : (IF x = w THEN 0 ELSE IF a[x] < a[w] THEN a[x] + 1 ELSE a[x]) = a[x]
  BY <1>1
<1>3. Aged(a, w) = [x \in Ways |-> a[x]]
  BY <1>2 DEF Aged
<1> QED
  BY <1>3 DEF Ages

\* The six bits after a touch are the order after it.
Touched(bits, w) == (bits \cap KeepBits[w + 1]) \cup LaterBits[w + 1]

LEMMA TouchSays ==
  ASSUME NEW a \in Ages, NEW w \in Ways, Distinct(a), NEW bits \in SUBSET OrderBits, Says(bits, a)
  PROVE  /\ Says(Touched(bits, w), Aged(a, w))
         /\ Touched(bits, w) \in SUBSET OrderBits
<1> DEFINE e == Aged(a, w)
           t == Touched(bits, w)
<1>1. Says(bits, a)
  OBVIOUS
<1>2. \A x, y \in Ways : x # y => /\ x = w => e[x] = 0 /\ 0 < e[y]
                                  /\ x # w /\ y # w /\ e[x] < e[y] => a[x] < a[y]
  BY AgedIs
<1>3. \A x \in Ways : e[x] \in Int
  BY AgedType DEF Ages, Forgotten
<1> HIDE DEF e
<1>4. CASE w = 0
  <2>1. t = (bits \cap {0, 1, 2}) \cup {}
    BY <1>4 DEF Touched, KeepBits, LaterBits
  <2> HIDE DEF t
  <2>2. Says(t, e)
    BY <1>1, <1>2, <1>3, <1>4, <2>1, SaysIs DEF Ways
  <2> QED
    BY <2>1, <2>2 DEF t, e
<1>5. CASE w = 1
  <2>1. t = (bits \cap {0, 3, 4}) \cup {5}
    BY <1>5 DEF Touched, KeepBits, LaterBits
  <2> HIDE DEF t
  <2>2. Says(t, e)
    BY <1>1, <1>2, <1>3, <1>5, <2>1, SaysIs DEF Ways
  <2> QED
    BY <2>1, <2>2 DEF t, e, OrderBits
<1>6. CASE w = 2
  <2>1. t = (bits \cap {1, 3, 5}) \cup {2, 4}
    BY <1>6 DEF Touched, KeepBits, LaterBits
  <2> HIDE DEF t
  <2>2. Says(t, e)
    BY <1>1, <1>2, <1>3, <1>6, <2>1, SaysIs DEF Ways
  <2> QED
    BY <2>1, <2>2 DEF t, e, OrderBits
<1>7. CASE w = 3
  <2>1. t = (bits \cap {2, 4, 5}) \cup {0, 1, 3}
    BY <1>7 DEF Touched, KeepBits, LaterBits
  <2> HIDE DEF t
  <2>2. Says(t, e)
    BY <1>1, <1>2, <1>3, <1>7, <2>1, SaysIs DEF Ways
  <2> QED
    BY <2>1, <2>2 DEF t, e, OrderBits
<1> QED
  BY <1>4, <1>5, <1>6, <1>7 DEF Ways

\* The way the bits point at is the oldest, if at most two are forgotten.
LEMMA LruWayIsOldest ==
  ASSUME NEW a \in Ages, Distinct(a), NEW bits \in SUBSET OrderBits, Says(bits, a),
         NEW twoWay \in BOOLEAN, NEW p \in Ways, NEW q \in Ways,
         \A x \in (IF twoWay THEN {2, 3} ELSE Ways) : a[x] = Forgotten => x \in {p, q}
  PROVE  \A x \in (IF twoWay THEN {2, 3} ELSE Ways) : a[x] <= a[LruWay(bits, twoWay)]
<1>1. /\ a[0] \in 0..4 /\ a[1] \in 0..4 /\ a[2] \in 0..4 /\ a[3] \in 0..4
      /\ a[0] = a[1] => a[0] = 4
      /\ a[0] = a[2] => a[0] = 4
      /\ a[0] = a[3] => a[0] = 4
      /\ a[1] = a[2] => a[1] = 4
      /\ a[1] = a[3] => a[1] = 4
      /\ a[2] = a[3] => a[2] = 4
  BY DEF Ages, Distinct, Forgotten, Ways
<1>2. /\ a[3] < a[2] => 0 \in bits
      /\ a[2] < a[3] => 0 \notin bits
      /\ a[3] < a[1] => 1 \in bits
      /\ a[1] < a[3] => 1 \notin bits
      /\ a[2] < a[1] => 2 \in bits
      /\ a[1] < a[2] => 2 \notin bits
      /\ a[3] < a[0] => 3 \in bits
      /\ a[0] < a[3] => 3 \notin bits
      /\ a[2] < a[0] => 4 \in bits
      /\ a[0] < a[2] => 4 \notin bits
      /\ a[1] < a[0] => 5 \in bits
      /\ a[0] < a[1] => 5 \notin bits
  BY SaysIs
<1>3. CASE twoWay
  <2>1. LruWay(bits, twoWay) = IF 0 \in bits THEN 2 ELSE 3
    BY <1>3 DEF LruWay
  <2>2. \A x \in {2, 3} : a[x] <= a[LruWay(bits, twoWay)]
    BY <1>1, <1>2, <2>1
  <2> QED
    BY <1>3, <2>2
<1>4. CASE ~twoWay
  <2>1. LruWay(bits, twoWay) = IF 3 \in bits /\ 4 \in bits /\ 5 \in bits THEN 0
                               ELSE IF 1 \in bits /\ 2 \in bits /\ 5 \notin bits THEN 1
                               ELSE IF 0 \in bits /\ 2 \notin bits /\ 4 \notin bits THEN 2 ELSE 3
    <3>1. {3, 4, 5} \subseteq bits <=> 3 \in bits /\ 4 \in bits /\ 5 \in bits
      OBVIOUS
    <3>2. bits \cap {1, 2, 5} = {1, 2} <=> 1 \in bits /\ 2 \in bits /\ 5 \notin bits
      OBVIOUS
    <3>3. bits \cap {0, 2, 4} = {0} <=> 0 \in bits /\ 2 \notin bits /\ 4 \notin bits
      OBVIOUS
    <3> QED
      BY <1>4, <3>1, <3>2, <3>3 DEF LruWay
  <2>2. \A x \in {0, 1, 2, 3} : a[x] = 4 => x = p \/ x = q
    BY <1>4 DEF Ways, Forgotten
  <2>3. \A x \in {0, 1, 2, 3} : a[x] <= a[LruWay(bits, twoWay)]
    BY <1>1, <1>2, <2>1, <2>2
  <2> QED
    BY <1>4, <2>3 DEF Ways
<1> QED
  BY <1>3, <1>4

\* Bits that are an order have one, and those that are none forget them all.
LEMMA AgesOfBits ==
  ASSUME NEW bits \in SUBSET OrderBits
  PROVE  AgesOf(bits) \in Ages /\ Distinct(AgesOf(bits)) /\ Says(bits, AgesOf(bits))
<1> DEFINE as == {a \in Orders : Says(bits, a)}
<1>1. CASE as = {}
  <2>1. AgesOf(bits) = [w \in Ways |-> 4]
    BY <1>1 DEF AgesOf, Forgotten
  <2>2. Says(bits, [w \in Ways |-> 4])
    BY SaysIs DEF Ways
  <2>3. [w \in Ways |-> 4] \in Ages /\ Distinct([w \in Ways |-> 4])
    BY DEF Ages, Distinct, Forgotten
  <2> QED
    BY <2>1, <2>2, <2>3
<1>2. CASE as # {}
  <2>1. AgesOf(bits) \in as
    BY <1>2 DEF AgesOf
  <2>2. AgesOf(bits) \in Orders /\ Says(bits, AgesOf(bits))
    BY <2>1
  <2> QED
    BY <2>2 DEF Orders, Ages, Distinct, Forgotten
<1> QED
  BY <1>1, <1>2

\* After a reset or a purge the ways are in the order they will be filled from the last.
ResetAges == [w \in Ways |-> w]

LEMMA ResetAgesSay ==
  ResetAges \in Ages /\ Distinct(ResetAges) /\ Says({}, ResetAges)
<1>1. Says({}, ResetAges)
  BY SaysIs DEF ResetAges, Ways
<1> QED
  BY <1>1 DEF ResetAges, Ages, Distinct, Forgotten, Ways

-----------------------------------------------------------------------------
(* What a fetch, a store and the arrays make of the registers.               *)

Caches == [on : BOOLEAN, noFill : BOOLEAN, twoWay : BOOLEAN, wayBits : Ways,
           tag : [Sets -> [Ways -> Tags]], valid : [Sets -> [Ways -> BOOLEAN]],
           data : [Sets -> [Ways -> Values]], lru : [Sets -> SUBSET OrderBits],
           ifBase : Lines \cup {NoLine}, ifWay : Ways]

LEMMA LineFacts ==
  ASSUME NEW line \in Lines
  PROVE  /\ SetOf(line) \in Sets /\ TagOf(line) \in Tags
         /\ line = <<SetOf(line), TagOf(line)>> /\ line # NoLine
<1>1. line \in Sets \X Tags /\ Sets \subseteq Nat
  BY CacheAssumption
<1>2. line = <<line[1], line[2]>> /\ line[1] \in Sets /\ line[2] \in Tags
  BY <1>1
<1>3. line # NoLine
  <2>1. line[1] # -1 /\ NoLine[1] = -1
    BY <1>1, <1>2 DEF NoLine
  <2> QED
    BY <2>1
<1> QED
  BY <1>2, <1>3 DEF SetOf, TagOf

\* A line is its set and its tag.
LEMMA SameLine ==
  ASSUME NEW line \in Lines, NEW other \in Lines,
         SetOf(line) = SetOf(other), TagOf(line) = TagOf(other)
  PROVE  line = other
<1>1. line = <<SetOf(line), TagOf(line)>> /\ other = <<SetOf(other), TagOf(other)>>
  BY LineFacts
<1> DEFINE s == SetOf(line)
           t == TagOf(line)
<1>2. line = <<s, t>> /\ other = <<s, t>>
  BY <1>1
<1> HIDE DEF s, t
<1> QED
  BY <1>2

LEMMA HoldingWays ==
  ASSUME NEW h, NEW line
  PROVE  Holding(h, line) \in SUBSET Ways
BY DEF Holding

\* Only tags and valid bits say what is held.
LEMMA HoldingSame ==
  ASSUME NEW h, NEW g, NEW line, h.valid = g.valid, h.tag = g.tag
  PROVE  Holding(h, line) = Holding(g, line)
BY DEF Holding

LEMMA TouchIs ==
  ASSUME NEW h \in Caches, NEW s \in Sets, NEW w \in Ways, Touched(h.lru[s], w) \in SUBSET OrderBits
  PROVE  /\ Touch(h, s, w) = [h EXCEPT !.lru = [h.lru EXCEPT ![s] = Touched(h.lru[s], w)]]
         /\ [h.lru EXCEPT ![s] = Touched(h.lru[s], w)] \in [Sets -> SUBSET OrderBits]
<1>1. h.lru \in [Sets -> SUBSET OrderBits]
  BY DEF Caches
<1>2. Touch(h, s, w) = [h EXCEPT !.lru = [h.lru EXCEPT ![s] = Touched(h.lru[s], w)]]
  BY DEF Touch, Touched
<1>3. [h.lru EXCEPT ![s] = Touched(h.lru[s], w)] \in [Sets -> SUBSET OrderBits]
  BY <1>1
<1> QED
  BY <1>2, <1>3

LEMMA TouchedType ==
  ASSUME NEW bits \in SUBSET OrderBits, NEW w \in Ways
  PROVE  Touched(bits, w) \in SUBSET OrderBits
<1>1. LaterBits[w + 1] \in SUBSET OrderBits
  BY DEF LaterBits, OrderBits, Ways
<1> QED
  BY <1>1 DEF Touched

\* A hit touches the way, and the fetcher remembers where it is.
HitAt(g, line, w) == [Touch(g, SetOf(line), w) EXCEPT !.ifBase = line, !.ifWay = w]

LEMMA HitIs ==
  ASSUME NEW g \in Caches, NEW line \in Lines, NEW w \in Ways
  PROVE  LET h == HitAt(g, line, w)
             s == SetOf(line)
         IN  /\ h \in Caches
             /\ h.valid = g.valid /\ h.tag = g.tag /\ h.data = g.data
             /\ h.lru = [g.lru EXCEPT ![s] = Touched(g.lru[s], w)]
             /\ h.ifBase = line /\ h.ifWay = w
<1> DEFINE s == SetOf(line)
           lru == [g.lru EXCEPT ![s] = Touched(g.lru[s], w)]
<1>1. s \in Sets /\ g.lru[s] \in SUBSET OrderBits
  <2>1. s \in Sets
    BY LineFacts
  <2> HIDE DEF s
  <2> QED
    BY <2>1 DEF Caches
<1>2. Touch(g, s, w) = [g EXCEPT !.lru = lru] /\ lru \in [Sets -> SUBSET OrderBits]
  <2> HIDE DEF s
  <2> QED
    BY <1>1, TouchedType, TouchIs
<1>3. HitAt(g, line, w) = [[g EXCEPT !.lru = lru] EXCEPT !.ifBase = line, !.ifWay = w]
  BY <1>2 DEF HitAt
<1> HIDE DEF lru
<1>4. [[g EXCEPT !.lru = lru] EXCEPT !.ifBase = line, !.ifWay = w] \in Caches
  BY <1>2 DEF Caches
<1>5. HitAt(g, line, w).lru = lru
  BY <1>3 DEF Caches
<1>6. /\ HitAt(g, line, w).valid = g.valid /\ HitAt(g, line, w).tag = g.tag
      /\ HitAt(g, line, w).data = g.data
      /\ HitAt(g, line, w).ifBase = line /\ HitAt(g, line, w).ifWay = w
  BY <1>3 DEF Caches
<1> QED
  BY <1>3, <1>4, <1>5, <1>6 DEF lru

\* It changes nothing that is held.
LEMMA HitHolds ==
  ASSUME NEW g \in Caches, NEW line \in Lines, NEW w \in Ways
  PROVE  /\ HitAt(g, line, w).valid = g.valid
         /\ HitAt(g, line, w).tag = g.tag
         /\ HitAt(g, line, w).data = g.data
BY DEF HitAt, Touch, Caches

LEMMA FilledIs ==
  ASSUME NEW g \in Caches, NEW m \in [Lines -> Values], NEW line \in Lines, NEW w \in Ways
  PROVE  LET h == Filled(g, m, line, w)
             s == SetOf(line)
         IN  /\ h \in Caches
             /\ h.lru = g.lru
             /\ h.tag = [g.tag EXCEPT ![s] = [g.tag[s] EXCEPT ![w] = TagOf(line)]]
             /\ h.valid = [g.valid EXCEPT ![s] = [g.valid[s] EXCEPT ![w] = TRUE]]
             /\ h.data = [g.data EXCEPT ![s] = [g.data[s] EXCEPT ![w] = m[line]]]
<1> DEFINE s == SetOf(line)
           t == TagOf(line)
           tag == [g.tag EXCEPT ![s] = [g.tag[s] EXCEPT ![w] = t]]
           valid == [g.valid EXCEPT ![s] = [g.valid[s] EXCEPT ![w] = TRUE]]
           data == [g.data EXCEPT ![s] = [g.data[s] EXCEPT ![w] = m[line]]]
<1>1. s \in Sets /\ t \in Tags /\ m[line] \in Values
  BY LineFacts
<1>2. Filled(g, m, line, w) = [g EXCEPT !.tag = tag, !.valid = valid, !.data = data]
  BY DEF Filled, Caches
<1>3. tag \in [Sets -> [Ways -> Tags]]
  <2> HIDE DEF s, t
  <2>1. g.tag \in [Sets -> [Ways -> Tags]]
    BY DEF Caches
  <2> QED
    BY <1>1, <2>1
<1>4. valid \in [Sets -> [Ways -> BOOLEAN]]
  <2> HIDE DEF s
  <2>1. g.valid \in [Sets -> [Ways -> BOOLEAN]]
    BY DEF Caches
  <2> QED
    BY <1>1, <2>1
<1>5. data \in [Sets -> [Ways -> Values]]
  <2> DEFINE v == m[line]
  <2> HIDE DEF s, v
  <2>1. g.data \in [Sets -> [Ways -> Values]]
    BY DEF Caches
  <2> QED
    BY <1>1, <2>1
<1> HIDE DEF tag, valid, data
<1>6. [g EXCEPT !.tag = tag, !.valid = valid, !.data = data] \in Caches
  BY <1>3, <1>4, <1>5 DEF Caches
<1>7. LET h == Filled(g, m, line, w)
      IN  h.lru = g.lru /\ h.tag = tag /\ h.valid = valid /\ h.data = data
  BY <1>2 DEF Caches
<1> QED
  BY <1>2, <1>6, <1>7 DEF tag, valid, data

\* What is held after a fill.
LEMMA FilledHolds ==
  ASSUME NEW g \in Caches, NEW m \in [Lines -> Values], NEW line \in Lines, NEW w \in Ways
  PROVE  LET h == Filled(g, m, line, w)
         IN  /\ Holding(h, line) = Holding(g, line) \cup {w}
             /\ h.data[SetOf(line)][w] = m[line]
             /\ \A other \in Lines \ {line} : \A x \in Holding(g, other) :
                   \/ SetOf(other) = SetOf(line) /\ x = w
                   \/ x \in Holding(h, other) /\ h.data[SetOf(other)][x] = g.data[SetOf(other)][x]
<1> DEFINE h == Filled(g, m, line, w)
           s == SetOf(line)
           t == TagOf(line)
<1>1. /\ h.tag = [g.tag EXCEPT ![s] = [g.tag[s] EXCEPT ![w] = t]]
      /\ h.valid = [g.valid EXCEPT ![s] = [g.valid[s] EXCEPT ![w] = TRUE]]
      /\ h.data = [g.data EXCEPT ![s] = [g.data[s] EXCEPT ![w] = m[line]]]
  BY FilledIs
<1>2. s \in Sets /\ g.tag \in [Sets -> [Ways -> Tags]] /\ g.valid \in [Sets -> [Ways -> BOOLEAN]]
      /\ g.data \in [Sets -> [Ways -> Values]]
  BY LineFacts DEF Caches
<1> HIDE DEF h
<1>3. ASSUME NEW r \in Sets, NEW x \in Ways
      PROVE  /\ r = s /\ x = w => h.tag[r][x] = t /\ h.valid[r][x] /\ h.data[r][x] = m[line]
             /\ ~(r = s /\ x = w) => /\ h.tag[r][x] = g.tag[r][x] /\ h.valid[r][x] = g.valid[r][x]
                                    /\ h.data[r][x] = g.data[r][x]
  <2> HIDE DEF s, t
  <2>1. CASE r # s
    BY <1>1, <1>2, <2>1
  <2>2. CASE r = s /\ x = w
    BY <1>1, <1>2, <2>2
  <2>3. CASE r = s /\ x # w
    BY <1>1, <1>2, <2>3
  <2> QED
    BY <2>1, <2>2, <2>3
<1>4. Holding(h, line) = Holding(g, line) \cup {w}
  <2>1. \A x \in Ways : h.valid[s][x] /\ h.tag[s][x] = t <=> x = w \/ (g.valid[s][x] /\ g.tag[s][x] = t)
    BY <1>2, <1>3
  <2> QED
    BY <2>1 DEF Holding
<1>5. h.data[s][w] = m[line]
  BY <1>2, <1>3
<1>6. ASSUME NEW other \in Lines \ {line}, NEW x \in Holding(g, other)
      PROVE  \/ SetOf(other) = s /\ x = w
             \/ x \in Holding(h, other) /\ h.data[SetOf(other)][x] = g.data[SetOf(other)][x]
  <2> DEFINE r == SetOf(other)
  <2>1. r \in Sets /\ x \in Ways /\ g.valid[r][x] /\ g.tag[r][x] = TagOf(other)
    BY LineFacts DEF Holding
  <2>2. CASE ~(r = s /\ x = w)
    <3>1. h.valid[r][x] /\ h.tag[r][x] = TagOf(other) /\ h.data[r][x] = g.data[r][x]
      <4> HIDE DEF r
      <4> QED
        BY <1>3, <2>1, <2>2
    <3> QED
      BY <2>1, <3>1 DEF Holding
  <2> QED
    BY <2>2
<1> QED
  BY <1>4, <1>5, <1>6 DEF h

\* A line is put in a way the mode can use.
LEMMA FillWayUsable ==
  ASSUME NEW h \in Caches, NEW line \in Lines
  PROVE  FillWay(h, line) \in Usable(h) /\ FillWay(h, line) \in Ways /\ Usable(h) \subseteq Ways
<1> DEFINE s == SetOf(line)
           empty == {w \in Usable(h) : ~h.valid[s][w]}
<1>1. Usable(h) \subseteq Ways
  BY DEF Usable, Ways
<1>2. CASE empty # {}
  <2>1. FillWay(h, line) = FirstOf(empty)
    BY <1>2 DEF FillWay
  <2>2. FirstOf(empty) \in empty
    BY <1>1, <1>2, FirstOfSome
  <2> QED
    BY <1>1, <2>1, <2>2
<1>3. CASE empty = {}
  <2>1. FillWay(h, line) = LruWay(h.lru[s], h.twoWay)
    BY <1>3 DEF FillWay
  <2> DEFINE bits == h.lru[s]
  <2> HIDE DEF bits
  <2>2. CASE h.twoWay
    BY <2>1, <2>2 DEF LruWay, Usable, Ways, bits
  <2>3. CASE ~h.twoWay
    BY <2>1, <2>3 DEF LruWay, Usable, Ways, bits
  <2> QED
    BY <2>2, <2>3
<1> QED
  BY <1>2, <1>3

\* The fetch, by what it finds.
Shortcut(h, line) == h.ifBase = line /\ h.ifWay \in Holding(h, line)
FetchFinds(h, m, line, f) ==
  \/ ~h.on /\ f = [v |-> m[line], h |-> h]
  \/ h.on /\ Shortcut(h, line) /\ f = [v |-> h.data[SetOf(line)][h.ifWay], h |-> h]
  \/ /\ h.on /\ Holding(h, line) # {}
     /\ f = [v |-> h.data[SetOf(line)][FirstOf(Holding(h, line))],
             h |-> HitAt(h, line, FirstOf(Holding(h, line)))]
  \/ h.on /\ Holding(h, line) = {} /\ h.noFill /\ f = [v |-> m[line], h |-> h]
  \/ /\ h.on /\ Holding(h, line) = {} /\ ~h.noFill
     /\ f = [v |-> Filled(h, m, line, FillWay(h, line)).data[SetOf(line)][FillWay(h, line)],
             h |-> HitAt(Filled(h, m, line, FillWay(h, line)), line, FillWay(h, line))]

LEMMA FetchCases ==
  ASSUME NEW h, h.on \in BOOLEAN, h.noFill \in BOOLEAN, NEW m, NEW line
  PROVE  FetchFinds(h, m, line, Fetch(h, m, line))
<1>1. CASE ~h.on
  BY <1>1 DEF Fetch, FetchFinds
<1>2. CASE h.on /\ Shortcut(h, line)
  BY <1>2 DEF Fetch, FetchFinds, Shortcut
<1>3. CASE h.on /\ ~Shortcut(h, line) /\ Holding(h, line) # {}
  <2>1. Fetch(h, m, line) = [v |-> h.data[SetOf(line)][FirstOf(Holding(h, line))],
                             h |-> HitAt(h, line, FirstOf(Holding(h, line)))]
    BY <1>3 DEF Fetch, HitAt, Shortcut
  <2> QED
    BY <1>3, <2>1 DEF FetchFinds
<1>4. CASE h.on /\ ~Shortcut(h, line) /\ Holding(h, line) = {} /\ h.noFill
  <2>1. Fetch(h, m, line) = [v |-> m[line], h |-> h]
    BY <1>4 DEF Fetch, Shortcut
  <2> QED
    BY <1>4, <2>1 DEF FetchFinds
<1>5. CASE h.on /\ ~Shortcut(h, line) /\ Holding(h, line) = {} /\ ~h.noFill
  <2>1. Fetch(h, m, line) = [v |-> Filled(h, m, line, FillWay(h, line)).data[SetOf(line)][FillWay(h, line)],
                             h |-> HitAt(Filled(h, m, line, FillWay(h, line)), line, FillWay(h, line))]
    BY <1>5 DEF Fetch, HitAt, Shortcut
  <2> QED
    BY <1>5, <2>1 DEF FetchFinds
<1> QED
  BY <1>1, <1>2, <1>3, <1>4, <1>5

-----------------------------------------------------------------------------
(* The invariant: the six bits of every set are its order of use, and the    *)
(* line the fetcher is in, if the cache still holds it where the fetcher     *)
(* found it, is the one a search would find, and the latest.                 *)

InOrder(h, ages) == \A s \in Sets : Distinct(ages[s]) /\ Says(h.lru[s], ages[s])
ShortcutOk(h, ages) ==
    h.ifBase # NoLine /\ h.ifWay \in Holding(h, h.ifBase) =>
        /\ h.ifWay = FirstOf(Holding(h, h.ifBase))
        /\ ages[SetOf(h.ifBase)][h.ifWay] = 0
CacheInv == CacheTypeOK /\ InOrder(cache, age) /\ ShortcutOk(cache, age)

LEMMA CacheInvIs ==
  CacheInv <=> /\ cache \in Caches /\ mem \in [Lines -> Values] /\ age \in [Sets -> Ages]
               /\ InOrder(cache, age) /\ ShortcutOk(cache, age)
BY DEF CacheInv, CacheTypeOK, Caches, Ages

LEMMA CacheInvIsNext ==
  CacheInv' <=> /\ cache' \in Caches /\ mem' \in [Lines -> Values] /\ age' \in [Sets -> Ages]
                /\ InOrder(cache', age') /\ ShortcutOk(cache', age')
BY DEF CacheInv, CacheTypeOK, Caches, Ages

\* Touching a way in the registers and in the history.
AgesAfter(ages, s, w) == [ages EXCEPT ![s] = Aged(ages[s], w)]

LEMMA TouchInOrder ==
  ASSUME NEW h \in Caches, NEW g, NEW ages \in [Sets -> Ages], InOrder(h, ages),
         NEW s \in Sets, NEW w \in Ways, g.lru = [h.lru EXCEPT ![s] = Touched(h.lru[s], w)]
  PROVE  /\ AgesAfter(ages, s, w) \in [Sets -> Ages] /\ InOrder(g, AgesAfter(ages, s, w))
         /\ AgesAfter(ages, s, w)[s][w] = 0
<1> DEFINE next == [ages EXCEPT ![s] = Aged(ages[s], w)]
<1>1. ages[s] \in Ages /\ Distinct(ages[s]) /\ Says(h.lru[s], ages[s]) /\ h.lru[s] \in SUBSET OrderBits
  BY DEF InOrder, Caches
<1>2. Aged(ages[s], w) \in Ages /\ Distinct(Aged(ages[s], w)) /\ Says(Touched(h.lru[s], w), Aged(ages[s], w))
  BY <1>1, AgedType, AgedDistinct, TouchSays
<1>3. h.lru \in [Sets -> SUBSET OrderBits]
  BY DEF Caches
<1>4. next \in [Sets -> Ages]
  <2> DEFINE a == Aged(ages[s], w)
  <2> HIDE DEF a
  <2> QED
    BY <1>2 DEF a
<1>5. ASSUME NEW r \in Sets PROVE Distinct(next[r]) /\ Says(g.lru[r], next[r])
  <2>1. CASE r = s
    <3>1. next[r] = Aged(ages[s], w) /\ g.lru[r] = Touched(h.lru[s], w)
      BY <1>3, <2>1
    <3> QED
      BY <1>2, <3>1
  <2>2. CASE r # s
    <3>1. next[r] = ages[r] /\ g.lru[r] = h.lru[r]
      BY <1>3, <2>2
    <3> QED
      BY <3>1 DEF InOrder
  <2> QED
    BY <2>1, <2>2
<1>6. next[s][w] = 0
  <2>1. Aged(ages[s], w)[w] = 0
    BY DEF Aged
  <2> QED
    BY <2>1
<1> QED
  BY <1>4, <1>5, <1>6 DEF InOrder, AgesAfter

\* A history that puts the latest way first again is the same history.
LEMMA AgeKept ==
  ASSUME NEW ages \in [Sets -> Ages], NEW s \in Sets, NEW w \in Ways, ages[s][w] = 0
  PROVE  [ages EXCEPT ![s] = Aged(@, w)] = ages
<1>1. Aged(ages[s], w) = ages[s]
  BY AgedAgain
<1> QED
  BY <1>1

LEMMA CacheInits == CacheInit => CacheInv
<1> SUFFICES ASSUME CacheInit PROVE CacheInv
  OBVIOUS
<1>1. mem \in [Lines -> Values] /\ 0 \in Tags /\ 0 \in Values
  BY CacheAssumption DEF CacheInit
<1>2. cache = ColdCache /\ age = [s \in Sets |-> ResetAges]
  BY DEF CacheInit, ResetAges
<1>3. cache \in Caches
  BY <1>1, <1>2 DEF ColdCache, Caches, Ways
<1>4. age \in [Sets -> Ages]
  BY <1>2, ResetAgesSay
<1>5. InOrder(cache, age)
  <2>1. \A s \in Sets : cache.lru[s] = {} /\ age[s] = ResetAges
    BY <1>2 DEF ColdCache
  <2> QED
    BY <2>1, ResetAgesSay DEF InOrder
<1>6. ShortcutOk(cache, age)
  <2>1. cache.ifBase = NoLine
    BY <1>2 DEF ColdCache
  <2> QED
    BY <2>1 DEF ShortcutOk
<1> QED
  BY <1>1, <1>3, <1>4, <1>5, <1>6, CacheInvIs

\* A fetch.
LEMMA FetchKeeps ==
  ASSUME CacheInv, NEW line \in Lines
  PROVE  LET f == Fetch(cache, mem, line)
             next == IF Cached(line) THEN [age EXCEPT ![SetOf(line)] = Aged(@, Served(line))] ELSE age
         IN  f.h \in Caches /\ next \in [Sets -> Ages] /\ InOrder(f.h, next) /\ ShortcutOk(f.h, next)
<1> DEFINE f == Fetch(cache, mem, line)
           s == SetOf(line)
           next == IF Cached(line) THEN [age EXCEPT ![s] = Aged(@, Served(line))] ELSE age
           Goal == f.h \in Caches /\ next \in [Sets -> Ages] /\ InOrder(f.h, next) /\ ShortcutOk(f.h, next)
<1> SUFFICES Goal
  OBVIOUS
<1>1. /\ cache \in Caches /\ mem \in [Lines -> Values] /\ age \in [Sets -> Ages]
      /\ InOrder(cache, age) /\ ShortcutOk(cache, age)
  BY CacheInvIs
<1>2. s \in Sets /\ line # NoLine
  BY LineFacts
<1>3. FetchFinds(cache, mem, line, f)
  BY <1>1, FetchCases DEF Caches
<1>4. Cached(line) => next = [age EXCEPT ![s] = Aged(age[s], Served(line))]
  OBVIOUS
<1>5. ~Cached(line) => next = age
  OBVIOUS
<1> HIDE DEF f, next, s, Goal
<1>6. ASSUME f.h = cache, next = age PROVE Goal
  BY <1>1, <1>6 DEF Goal
<1>7. ASSUME NEW g \in Caches, NEW w \in Ways, f.h = HitAt(g, line, w), g.lru = cache.lru,
             next = [age EXCEPT ![s] = Aged(age[s], w)],
             w = FirstOf(Holding(g, line))
      PROVE  Goal
  <2> DEFINE h == HitAt(g, line, w)
  <2>1. /\ h \in Caches /\ h.valid = g.valid /\ h.tag = g.tag
        /\ h.lru = [cache.lru EXCEPT ![s] = Touched(cache.lru[s], w)]
        /\ h.ifBase = line /\ h.ifWay = w
    BY <1>7, HitIs DEF s
  <2> HIDE DEF h
  <2>2. next = AgesAfter(age, s, w)
    BY <1>7 DEF AgesAfter
  <2>3. next \in [Sets -> Ages] /\ InOrder(h, next) /\ next[s][w] = 0
    BY <1>1, <1>2, <2>1, <2>2, TouchInOrder
  <2>4. Holding(h, line) = Holding(g, line)
    BY <2>1, HoldingSame
  <2>5. ShortcutOk(h, next)
    BY <1>7, <2>1, <2>3, <2>4 DEF ShortcutOk, s
  <2>6. f.h = h
    BY <1>7 DEF h
  <2> QED
    BY <2>1, <2>3, <2>5, <2>6 DEF Goal
<1>8. CASE ~cache.on /\ f = [v |-> mem[line], h |-> cache]
  <2>1. f.h = cache /\ ~Cached(line)
    BY <1>8 DEF Cached
  <2> QED
    BY <1>5, <1>6, <2>1
<1>9. CASE cache.on /\ Shortcut(cache, line) /\ f = [v |-> cache.data[s][cache.ifWay], h |-> cache]
  <2> DEFINE w == cache.ifWay
  <2>1. Holding(cache, line) # {} /\ Served(line) = w /\ age[s][w] = 0 /\ w \in Ways
    BY <1>1, <1>2, <1>9 DEF Shortcut, ShortcutOk, Served, Caches, s
  <2>2. Cached(line) /\ f.h = cache
    BY <1>9, <2>1 DEF Cached
  <2> HIDE DEF w
  <2>3. next = [age EXCEPT ![s] = Aged(age[s], w)]
    BY <1>4, <2>1, <2>2
  <2>4. [age EXCEPT ![s] = Aged(age[s], w)] = age
    BY <1>1, <1>2, <2>1, AgeKept
  <2> QED
    BY <1>6, <2>2, <2>3, <2>4
<1>10. CASE /\ cache.on /\ Holding(cache, line) # {}
            /\ f = [v |-> cache.data[s][FirstOf(Holding(cache, line))],
                    h |-> HitAt(cache, line, FirstOf(Holding(cache, line)))]
  <2> DEFINE w == FirstOf(Holding(cache, line))
  <2>1. w \in Ways
    BY <1>10, HoldingWays, FirstOfSome
  <2>2. Cached(line) /\ Served(line) = w
    BY <1>10 DEF Cached, Served
  <2>3. f.h = HitAt(cache, line, w)
    BY <1>10
  <2>4. w = FirstOf(Holding(cache, line))
    OBVIOUS
  <2> HIDE DEF w
  <2>5. next = [age EXCEPT ![s] = Aged(age[s], w)]
    BY <1>4, <2>2
  <2> QED
    BY <1>1, <1>7, <2>1, <2>3, <2>4, <2>5
<1>11. CASE cache.on /\ Holding(cache, line) = {} /\ cache.noFill /\ f = [v |-> mem[line], h |-> cache]
  <2>1. f.h = cache /\ ~Cached(line)
    BY <1>11 DEF Cached
  <2> QED
    BY <1>5, <1>6, <2>1
<1>12. CASE /\ cache.on /\ Holding(cache, line) = {} /\ ~cache.noFill
            /\ f = [v |-> Filled(cache, mem, line, FillWay(cache, line)).data[s][FillWay(cache, line)],
                    h |-> HitAt(Filled(cache, mem, line, FillWay(cache, line)), line, FillWay(cache, line))]
  <2> DEFINE w == FillWay(cache, line)
             g == Filled(cache, mem, line, w)
  <2>1. w \in Ways
    BY <1>1, FillWayUsable
  <2>2. Cached(line) /\ Served(line) = w
    BY <1>12 DEF Cached, Served
  <2>3. f.h = HitAt(g, line, w)
    BY <1>12
  <2> HIDE DEF w
  <2>4. g \in Caches /\ g.lru = cache.lru
    <3>1. Filled(cache, mem, line, w) \in Caches
      BY <1>1, <2>1, FilledIs
    <3>2. Filled(cache, mem, line, w).lru = cache.lru
      BY <1>1 DEF Filled, Caches
    <3> QED
      BY <3>1, <3>2
  <2>5. Holding(g, line) = {w}
    <3>1. Holding(g, line) = Holding(cache, line) \cup {w}
      BY <1>1, <2>1, FilledHolds
    <3> QED
      BY <1>12, <3>1
  <2> HIDE DEF g
  <2>6. w = FirstOf(Holding(g, line))
    BY <2>1, <2>5, FirstOfOne
  <2>7. next = [age EXCEPT ![s] = Aged(age[s], w)]
    BY <1>4, <2>2
  <2> QED
    BY <1>7, <2>1, <2>3, <2>4, <2>6, <2>7
<1> QED
  BY <1>3, <1>8, <1>9, <1>10, <1>11, <1>12 DEF FetchFinds, s

\* A store that hits touches the way as a fetch does, and sends the fetcher searching.
LEMMA OwnStoreKeeps ==
  ASSUME CacheInv, NEW line \in Lines, NEW v \in NewValues, OwnStore(line, v)
  PROVE  CacheInv'
<1> DEFINE s == SetOf(line)
           w == FirstOf(Holding(cache, line))
<1>1. /\ cache \in Caches /\ mem \in [Lines -> Values] /\ age \in [Sets -> Ages]
      /\ InOrder(cache, age) /\ ShortcutOk(cache, age)
  BY CacheInvIs
<1>2. s \in Sets /\ v \in Values
  BY LineFacts, CacheAssumption
<1>3. mem' \in [Lines -> Values]
  BY <1>1, <1>2 DEF OwnStore
<1>4. CASE ~(cache.on /\ Holding(cache, line) # {})
  <2>1. cache' = cache /\ age' = age
    BY <1>4 DEF OwnStore, StoreHit
  <2> QED
    BY <1>1, <1>3, <2>1, CacheInvIsNext
<1>5. CASE cache.on /\ Holding(cache, line) # {}
  <2>1. w \in Ways
    BY <1>5, HoldingWays, FirstOfSome
  <2> DEFINE lru == [cache.lru EXCEPT ![s] = Touched(cache.lru[s], w)]
             data == [cache.data EXCEPT ![s] = [cache.data[s] EXCEPT ![w] = v]]
  <2>2. age' = AgesAfter(age, s, w)
    BY <1>5 DEF OwnStore, Served, AgesAfter
  <2>3. cache' = [Touch(cache, s, w) EXCEPT !.data[s][w] = v, !.ifBase = NoLine]
    BY <1>5 DEF OwnStore, StoreHit
  <2> HIDE DEF s, w
  <2>4. Touch(cache, s, w) = [cache EXCEPT !.lru = lru] /\ lru \in [Sets -> SUBSET OrderBits]
    <3>1. cache.lru[s] \in SUBSET OrderBits
      BY <1>1, <1>2 DEF Caches
    <3> QED
      BY <1>1, <1>2, <2>1, <3>1, TouchedType, TouchIs
  <2>5. data \in [Sets -> [Ways -> Values]]
    <3>1. cache.data \in [Sets -> [Ways -> Values]]
      BY <1>1 DEF Caches
    <3> QED
      BY <1>2, <2>1, <3>1
  <2>6. cache' = [cache EXCEPT !.lru = lru, !.data = data, !.ifBase = NoLine]
    <3> HIDE DEF lru
    <3>1. [cache EXCEPT !.lru = lru].data = cache.data
      BY <1>1 DEF Caches
    <3> QED
      BY <1>1, <2>3, <2>4, <3>1 DEF Caches
  <2>7. cache' \in Caches /\ cache'.lru = lru /\ cache'.ifBase = NoLine
    <3> HIDE DEF lru, data
    <3>1. lru \in [Sets -> SUBSET OrderBits]
      BY <2>4
    <3> QED
      BY <1>1, <2>5, <2>6, <3>1 DEF Caches
  <2>8. age' \in [Sets -> Ages] /\ InOrder(cache', age')
    BY <1>1, <1>2, <2>1, <2>2, <2>7, TouchInOrder
  <2>9. ShortcutOk(cache', age')
    BY <2>7 DEF ShortcutOk
  <2> QED
    BY <1>3, <2>7, <2>8, <2>9, CacheInvIsNext
<1> QED
  BY <1>4, <1>5

\* A purge takes a line out and leaves the order alone.
LEMMA PurgeKeeps ==
  ASSUME CacheInv, NEW line \in Lines, Purge(line)
  PROVE  CacheInv'
<1> DEFINE s == SetOf(line)
           row == [w \in Ways |-> cache.valid[s][w] /\ w \notin Holding(cache, line)]
           valid == [cache.valid EXCEPT ![s] = row]
<1>1. /\ cache \in Caches /\ mem \in [Lines -> Values] /\ age \in [Sets -> Ages]
      /\ InOrder(cache, age) /\ ShortcutOk(cache, age)
  BY CacheInvIs
<1>2. s \in Sets /\ cache.valid \in [Sets -> [Ways -> BOOLEAN]]
  BY <1>1, LineFacts DEF Caches
<1>3. cache' = [cache EXCEPT !.valid = valid] /\ mem' = mem /\ age' = age
  BY <1>1 DEF Purge, PurgeLine, Caches
<1>4. valid \in [Sets -> [Ways -> BOOLEAN]]
  <2>1. row \in [Ways -> BOOLEAN]
    OBVIOUS
  <2> HIDE DEF s, row
  <2> QED
    BY <1>2, <2>1
<1>5. /\ cache' \in Caches /\ cache'.lru = cache.lru /\ cache'.ifBase = cache.ifBase
      /\ cache'.ifWay = cache.ifWay /\ cache'.valid = valid /\ cache'.tag = cache.tag
  <2> HIDE DEF valid
  <2> QED
    BY <1>1, <1>3, <1>4 DEF Caches
<1>6. InOrder(cache', age')
  BY <1>1, <1>3, <1>5 DEF InOrder
<1>7. ShortcutOk(cache', age')
  <2> DEFINE b == cache.ifBase
             r == SetOf(b)
  <2> SUFFICES ASSUME b # NoLine, cache.ifWay \in Holding(cache', b)
               PROVE  /\ cache.ifWay = FirstOf(Holding(cache', b))
                      /\ age[r][cache.ifWay] = 0
    BY <1>3, <1>5 DEF ShortcutOk
  <2>1. b \in Lines /\ cache.ifWay \in Ways /\ r \in Sets
    BY <1>1, LineFacts DEF Caches
  <2>2. b # line
    <3> SUFFICES ASSUME b = line PROVE FALSE
      OBVIOUS
    <3>1. valid[s][cache.ifWay] /\ cache.tag[s][cache.ifWay] = TagOf(line)
      <4> HIDE DEF valid
      <4> QED
        BY <1>5 DEF Holding
    <3>2. row[cache.ifWay]
      <4> HIDE DEF row, s
      <4> QED
        BY <1>2, <3>1
    <3>3. cache.valid[s][cache.ifWay] /\ cache.ifWay \notin Holding(cache, line)
      BY <2>1, <3>2
    <3> QED
      BY <2>1, <3>1, <3>3 DEF Holding
  <2>3. Holding(cache', b) = Holding(cache, b)
    <3>1. ASSUME NEW w \in Ways, cache.tag[r][w] = TagOf(b)
          PROVE  valid[r][w] = cache.valid[r][w]
      <4>1. CASE r # s
        BY <1>2, <4>1
      <4>2. CASE r = s
        <5>1. w \notin Holding(cache, line)
          BY <2>1, <2>2, <3>1, <4>2, SameLine DEF Holding
        <5>2. row[w] = cache.valid[s][w]
          BY <1>2, <5>1
        <5> HIDE DEF row, s
        <5>3. valid[s] = row
          BY <1>2
        <5> QED
          BY <4>2, <5>2, <5>3 DEF s
      <4> QED
        BY <4>1, <4>2
    <3> HIDE DEF valid
    <3> QED
      BY <1>5, <3>1 DEF Holding
  <2> QED
    BY <1>1, <2>3 DEF ShortcutOk
<1> QED
  BY <1>1, <1>3, <1>5, <1>6, <1>7, CacheInvIsNext

\* The address array sends the fetcher searching; its bits say what they say.
LEMMA AddressArrayKeeps ==
  ASSUME CacheInv, NEW line \in Lines, NEW valid \in BOOLEAN, NEW bits \in OrdersWritten,
         AddressArray(line, valid, bits)
  PROVE  CacheInv'
<1> DEFINE s == SetOf(line)
           t == TagOf(line)
           w == cache.wayBits
           tags == [cache.tag EXCEPT ![s] = [cache.tag[s] EXCEPT ![w] = t]]
           valids == [cache.valid EXCEPT ![s] = [cache.valid[s] EXCEPT ![w] = valid]]
           lru == [cache.lru EXCEPT ![s] = bits]
<1>1. /\ cache \in Caches /\ mem \in [Lines -> Values] /\ age \in [Sets -> Ages]
      /\ InOrder(cache, age) /\ ShortcutOk(cache, age)
  BY CacheInvIs
<1>2. s \in Sets /\ t \in Tags /\ w \in Ways /\ bits \in SUBSET OrderBits
  BY <1>1, LineFacts, CacheAssumption DEF Caches
<1>3. cache.tag \in [Sets -> [Ways -> Tags]] /\ cache.valid \in [Sets -> [Ways -> BOOLEAN]]
      /\ cache.lru \in [Sets -> SUBSET OrderBits]
  BY <1>1 DEF Caches
<1>4. cache' = [cache EXCEPT !.tag = tags, !.valid = valids, !.lru = lru, !.ifBase = NoLine]
  BY <1>1 DEF AddressArray, AddrWrite, Caches
<1>5. age' = [age EXCEPT ![s] = AgesOf(bits)] /\ mem' = mem
  BY DEF AddressArray
<1> HIDE DEF s, t, w
<1>6. tags \in [Sets -> [Ways -> Tags]]
  BY <1>2, <1>3
<1>7. valids \in [Sets -> [Ways -> BOOLEAN]]
  BY <1>2, <1>3
<1>8. lru \in [Sets -> SUBSET OrderBits]
  BY <1>2, <1>3
<1>9. cache' \in Caches /\ cache'.lru = lru /\ cache'.ifBase = NoLine
  <2> HIDE DEF tags, valids, lru
  <2> QED
    BY <1>1, <1>4, <1>6, <1>7, <1>8 DEF Caches
<1>10. AgesOf(bits) \in Ages /\ Distinct(AgesOf(bits)) /\ Says(bits, AgesOf(bits))
  BY <1>2, AgesOfBits
<1>11. age' \in [Sets -> Ages]
  <2> DEFINE a == AgesOf(bits)
  <2> HIDE DEF a
  <2> QED
    BY <1>1, <1>5, <1>10 DEF a
<1>12. InOrder(cache', age')
  <2>1. ASSUME NEW r \in Sets PROVE Distinct(age'[r]) /\ Says(cache'.lru[r], age'[r])
    <3>1. CASE r = s
      <4>1. age'[r] = AgesOf(bits) /\ cache'.lru[r] = bits
        BY <1>1, <1>3, <1>5, <1>9, <3>1
      <4> QED
        BY <1>10, <4>1
    <3>2. CASE r # s
      <4>1. age'[r] = age[r] /\ cache'.lru[r] = cache.lru[r]
        BY <1>1, <1>3, <1>5, <1>9, <3>2
      <4> QED
        BY <1>1, <4>1 DEF InOrder
    <3> QED
      BY <3>1, <3>2
  <2> QED
    BY <2>1 DEF InOrder
<1>13. ShortcutOk(cache', age')
  BY <1>9 DEF ShortcutOk
<1> QED
  BY <1>1, <1>5, <1>9, <1>11, <1>12, <1>13, CacheInvIsNext

LEMMA DataArrayKeeps ==
  ASSUME CacheInv, NEW s \in Sets, NEW w \in Ways, NEW v \in NewValues, DataArray(s, w, v)
  PROVE  CacheInv'
<1> DEFINE data == [cache.data EXCEPT ![s] = [cache.data[s] EXCEPT ![w] = v]]
<1>1. /\ cache \in Caches /\ mem \in [Lines -> Values] /\ age \in [Sets -> Ages]
      /\ InOrder(cache, age) /\ ShortcutOk(cache, age)
  BY CacheInvIs
<1>2. cache.data \in [Sets -> [Ways -> Values]] /\ v \in Values
  BY <1>1, CacheAssumption DEF Caches
<1>3. cache' = [cache EXCEPT !.data = data] /\ mem' = mem /\ age' = age
  BY <1>1 DEF DataArray, DataWrite, Caches
<1>4. data \in [Sets -> [Ways -> Values]]
  BY <1>2
<1> HIDE DEF data
<1>5. /\ cache' \in Caches /\ cache'.lru = cache.lru /\ cache'.ifBase = cache.ifBase
      /\ cache'.ifWay = cache.ifWay /\ cache'.valid = cache.valid /\ cache'.tag = cache.tag
  BY <1>1, <1>3, <1>4 DEF Caches
<1>6. InOrder(cache', age')
  BY <1>1, <1>3, <1>5 DEF InOrder
<1>7. ShortcutOk(cache', age')
  <2>1. Holding(cache', cache.ifBase) = Holding(cache, cache.ifBase)
    BY <1>5, HoldingSame
  <2> QED
    BY <1>1, <1>3, <1>5, <2>1 DEF ShortcutOk
<1> QED
  BY <1>1, <1>3, <1>5, <1>6, <1>7, CacheInvIsNext

\* CCR: a purge empties every set and takes the order back to the reset's.
LEMMA ControlKeeps ==
  ASSUME CacheInv, NEW c \in Controls, Control(c)
  PROVE  CacheInv'
<1>1. /\ cache \in Caches /\ mem \in [Lines -> Values] /\ age \in [Sets -> Ages]
      /\ InOrder(cache, age) /\ ShortcutOk(cache, age)
  BY CacheInvIs
<1>2. c.on \in BOOLEAN /\ c.noFill \in BOOLEAN /\ c.twoWay \in BOOLEAN /\ c.wayBits \in Ways /\ c.purge \in BOOLEAN
  BY CacheAssumption
<1> DEFINE Set4(h) == [h EXCEPT !.on = c.on, !.noFill = c.noFill, !.twoWay = c.twoWay, !.wayBits = c.wayBits]
<1>3. mem' = mem
  BY DEF Control
<1>4. ASSUME NEW h \in Caches
      PROVE  /\ Set4(h) \in Caches /\ Set4(h).lru = h.lru /\ Set4(h).ifBase = h.ifBase
             /\ Set4(h).ifWay = h.ifWay /\ Set4(h).valid = h.valid /\ Set4(h).tag = h.tag
  BY <1>2 DEF Caches
<1>5. CASE ~c.purge
  <2>1. cache' = Set4(cache) /\ age' = age
    BY <1>5 DEF Control, CcrWrite
  <2> HIDE DEF Set4
  <2>2. /\ cache' \in Caches /\ cache'.lru = cache.lru /\ cache'.ifBase = cache.ifBase
        /\ cache'.ifWay = cache.ifWay /\ cache'.valid = cache.valid /\ cache'.tag = cache.tag
    BY <1>1, <1>4, <2>1
  <2>3. InOrder(cache', age')
    BY <1>1, <2>1, <2>2 DEF InOrder
  <2>4. ShortcutOk(cache', age')
    <3>1. Holding(cache', cache.ifBase) = Holding(cache, cache.ifBase)
      BY <2>2, HoldingSame
    <3> QED
      BY <1>1, <2>1, <2>2, <3>1 DEF ShortcutOk
  <2> QED
    BY <1>1, <1>3, <2>1, <2>2, <2>3, <2>4, CacheInvIsNext
<1>6. CASE c.purge
  <2> DEFINE valid == [s \in Sets |-> [w \in Ways |-> FALSE]]
             lru == [s \in Sets |-> {}]
             h == [cache EXCEPT !.valid = valid, !.lru = lru]
  <2>1. cache' = Set4(PurgeAll(cache)) /\ age' = [s \in Sets |-> ResetAges]
    BY <1>6 DEF Control, CcrWrite, ResetAges
  <2>2. PurgeAll(cache) = h
    <3>1. DOMAIN cache.valid = Sets /\ DOMAIN cache.lru = Sets
      BY <1>1 DEF Caches
    <3> QED
      BY <1>1, <3>1 DEF PurgeAll, Caches
  <2>3. valid \in [Sets -> [Ways -> BOOLEAN]] /\ lru \in [Sets -> SUBSET OrderBits]
    OBVIOUS
  <2>4. h \in Caches /\ h.valid = valid /\ h.lru = lru
    <3> HIDE DEF valid, lru
    <3> QED
      BY <1>1, <2>3 DEF Caches
  <2> HIDE DEF h, Set4
  <2>5. cache' \in Caches /\ cache'.lru = lru /\ cache'.valid = valid
    BY <1>4, <2>1, <2>2, <2>4
  <2>6. age' \in [Sets -> Ages]
    BY <2>1, ResetAgesSay
  <2>7. InOrder(cache', age')
    <3>1. \A s \in Sets : cache'.lru[s] = {} /\ age'[s] = ResetAges
      BY <2>1, <2>5
    <3> QED
      BY <3>1, ResetAgesSay DEF InOrder
  <2>8. ShortcutOk(cache', age')
    <3> SUFFICES ASSUME cache'.ifBase # NoLine, cache'.ifWay \in Holding(cache', cache'.ifBase) PROVE FALSE
      BY DEF ShortcutOk
    <3>1. cache'.ifBase \in Lines /\ cache'.ifWay \in Ways
      BY <2>5 DEF Caches
    <3>2. SetOf(cache'.ifBase) \in Sets
      BY <3>1, LineFacts
    <3> QED
      BY <2>5, <3>1, <3>2 DEF Holding
  <2> QED
    BY <1>1, <1>3, <2>5, <2>6, <2>7, <2>8, CacheInvIsNext
<1> QED
  BY <1>5, <1>6

LEMMA CacheSteps == CacheInv /\ [CacheNext]_<<cache, mem, age>> => CacheInv'
<1> SUFFICES ASSUME CacheInv, [CacheNext]_<<cache, mem, age>> PROVE CacheInv'
  OBVIOUS
<1>1. ASSUME NEW line \in Lines, IFetch(line) PROVE CacheInv'
  <2>1. /\ cache' = Fetch(cache, mem, line).h /\ mem' = mem
        /\ age' = IF Cached(line) THEN [age EXCEPT ![SetOf(line)] = Aged(@, Served(line))] ELSE age
    BY <1>1 DEF IFetch
  <2>2. cache' \in Caches /\ age' \in [Sets -> Ages] /\ InOrder(cache', age') /\ ShortcutOk(cache', age')
    BY <2>1, FetchKeeps
  <2> QED
    BY <2>1, <2>2, CacheInvIs, CacheInvIsNext
<1>2. ASSUME NEW line \in Lines, NEW v \in NewValues, OtherStore(line, v) PROVE CacheInv'
  <2>1. mem' = [mem EXCEPT ![line] = v] /\ cache' = cache /\ age' = age /\ v \in Values
    BY <1>2, CacheAssumption DEF OtherStore
  <2> QED
    BY <2>1, CacheInvIs, CacheInvIsNext
<1>3. CASE UNCHANGED <<cache, mem, age>>
  BY <1>3, CacheInvIs, CacheInvIsNext
<1> QED
  BY <1>1, <1>2, <1>3, OwnStoreKeeps, PurgeKeeps, AddressArrayKeeps, DataArrayKeeps, ControlKeeps
     DEF CacheNext

-----------------------------------------------------------------------------
(* What the invariant says of the next fetch.                                *)

\* It returns what the line holds privately, or memory, and keeps it.
LEMMA FetchReturns ==
  ASSUME CacheInv, NEW line \in Lines
  PROVE  LET held == Holding(cache, line)
             next == Fetch(cache, mem, line)
             now == Holding(next.h, line)
             s == SetOf(line)
         IN  /\ next.v = IF cache.on /\ held # {} THEN cache.data[s][FirstOf(held)] ELSE mem[line]
             /\ Cached(line) => now # {} /\ next.h.data[s][FirstOf(now)] = next.v
             /\ KeepsOthers(line, next.h)
<1> DEFINE held == Holding(cache, line)
           next == Fetch(cache, mem, line)
           s == SetOf(line)
           Goal == /\ next.v = IF cache.on /\ held # {} THEN cache.data[s][FirstOf(held)] ELSE mem[line]
                   /\ Cached(line) => /\ Holding(next.h, line) # {}
                                      /\ next.h.data[s][FirstOf(Holding(next.h, line))] = next.v
                   /\ KeepsOthers(line, next.h)
<1> SUFFICES Goal
  OBVIOUS
<1>1. cache \in Caches /\ mem \in [Lines -> Values] /\ ShortcutOk(cache, age)
  BY CacheInvIs
<1>2. FetchFinds(cache, mem, line, next) /\ s \in Sets /\ line # NoLine
  <2>1. FetchFinds(cache, mem, line, next)
    BY <1>1, FetchCases DEF Caches
  <2>2. s \in Sets /\ line # NoLine
    BY LineFacts
  <2> QED
    BY <2>1, <2>2
<1>3. KeepsOthers(line, cache)
  BY DEF KeepsOthers
<1>4. Cached(line) <=> cache.on /\ (held # {} \/ ~cache.noFill)
  BY DEF Cached
<1> HIDE DEF next, held, s, Goal
<1>5. CASE next = [v |-> mem[line], h |-> cache] /\ (~cache.on \/ (held = {} /\ cache.noFill))
  <2>1. next.v = mem[line] /\ next.h = cache /\ ~Cached(line) /\ ~(cache.on /\ held # {})
    BY <1>4, <1>5
  <2> QED
    BY <1>3, <2>1 DEF Goal
<1>6. CASE cache.on /\ Shortcut(cache, line) /\ next = [v |-> cache.data[s][cache.ifWay], h |-> cache]
  <2>1. held # {} /\ cache.ifWay = FirstOf(held)
    BY <1>1, <1>2, <1>6 DEF Shortcut, ShortcutOk, held
  <2>2. next.v = cache.data[s][cache.ifWay] /\ next.h = cache
    BY <1>6
  <2> QED
    BY <1>3, <1>6, <2>1, <2>2 DEF held, Goal
<1>7. CASE /\ cache.on /\ held # {}
           /\ next = [v |-> cache.data[s][FirstOf(held)], h |-> HitAt(cache, line, FirstOf(held))]
  <2> DEFINE w == FirstOf(held)
             h == HitAt(cache, line, w)
  <2>1. w \in Ways
    BY <1>7, HoldingWays, FirstOfSome DEF held
  <2> HIDE DEF w
  <2>2. h.valid = cache.valid /\ h.tag = cache.tag /\ h.data = cache.data
    BY <1>1, <2>1, HitHolds
  <2> HIDE DEF h
  <2>3. \A other : Holding(h, other) = Holding(cache, other)
    BY <2>2, HoldingSame
  <2>4. next.v = cache.data[s][w] /\ next.h = h
    BY <1>7 DEF w, h
  <2>5. KeepsOthers(line, h)
    BY <2>2, <2>3 DEF KeepsOthers
  <2>6. Holding(h, line) = held
    BY <2>3 DEF held
  <2>7. h.data[s][FirstOf(Holding(h, line))] = next.v
    BY <2>2, <2>4, <2>6 DEF w
  <2> QED
    BY <1>7, <2>4, <2>5, <2>6, <2>7 DEF w, Goal
<1>8. CASE /\ cache.on /\ held = {} /\ ~cache.noFill
           /\ next = [v |-> Filled(cache, mem, line, FillWay(cache, line)).data[s][FillWay(cache, line)],
                      h |-> HitAt(Filled(cache, mem, line, FillWay(cache, line)), line, FillWay(cache, line))]
  <2> DEFINE w == FillWay(cache, line)
             g == Filled(cache, mem, line, w)
             h == HitAt(g, line, w)
  <2>1. w \in Ways
    BY <1>1, FillWayUsable
  <2>2. next.v = g.data[s][w] /\ next.h = h
    BY <1>8
  <2>3. KeepsOthers(line, h) <=>
          \A other \in Lines \ {line} : \A x \in Holding(cache, other) :
             \/ SetOf(other) = s /\ x = w
             \/ x \in Holding(h, other) /\ h.data[SetOf(other)][x] = cache.data[SetOf(other)][x]
    <3> HIDE DEF h, w
    <3> QED
      BY <1>8 DEF KeepsOthers, held, s, w
  <2> HIDE DEF w
  <2>4. g \in Caches
    BY <1>1, <2>1, FilledIs
  <2>5. Holding(g, line) = Holding(cache, line) \cup {w}
    BY <1>1, <2>1, FilledHolds
  <2>6. g.data[s][w] = mem[line]
    BY <1>1, <2>1, FilledHolds DEF s
  <2>7. \A other \in Lines \ {line} : \A x \in Holding(cache, other) :
           \/ SetOf(other) = s /\ x = w
           \/ x \in Holding(g, other) /\ g.data[SetOf(other)][x] = cache.data[SetOf(other)][x]
    BY <1>1, <2>1, FilledHolds DEF s
  <2> HIDE DEF g
  <2>8. h.valid = g.valid /\ h.tag = g.tag /\ h.data = g.data
    BY <2>1, <2>4, HitHolds
  <2> HIDE DEF h
  <2>9. \A other : Holding(h, other) = Holding(g, other)
    BY <2>8, HoldingSame
  <2>10. KeepsOthers(line, h)
    BY <2>3, <2>7, <2>8, <2>9
  <2>11. Holding(h, line) = {w}
    BY <1>8, <2>5, <2>9 DEF held
  <2>12. FirstOf({w}) = w
    BY <2>1, FirstOfOne
  <2>13. h.data[s][FirstOf(Holding(h, line))] = next.v /\ Holding(h, line) # {}
    BY <2>2, <2>8, <2>11, <2>12
  <2> QED
    BY <1>8, <2>2, <2>6, <2>10, <2>13 DEF Goal
<1>9. CASE ~cache.on /\ next = [v |-> mem[line], h |-> cache]
  BY <1>5, <1>9
<1>10. CASE held = {} /\ cache.noFill /\ next = [v |-> mem[line], h |-> cache]
  BY <1>5, <1>10
<1> QED
  BY <1>2, <1>6, <1>7, <1>8, <1>9, <1>10 DEF FetchFinds, held, s

\* Its order bits are the order of use after it.
LEMMA FetchTouches ==
  ASSUME CacheInv, NEW line \in Lines, Cached(line)
  PROVE  Says(Fetch(cache, mem, line).h.lru[SetOf(line)], Aged(age[SetOf(line)], Served(line)))
<1> DEFINE s == SetOf(line)
           w == Served(line)
           h == Fetch(cache, mem, line).h
           next == [age EXCEPT ![s] = Aged(@, w)]
<1>1. InOrder(h, next)
  BY FetchKeeps
<1>2. age \in [Sets -> Ages] /\ s \in Sets
  BY CacheInvIs, LineFacts
<1>3. next[s] = Aged(age[s], w)
  <2> HIDE DEF s, w
  <2> QED
    BY <1>2
<1> HIDE DEF next, h, w
<1>4. Says(h.lru[s], next[s])
  BY <1>1, <1>2 DEF InOrder
<1> QED
  BY <1>3, <1>4 DEF h, w

\* A line is dropped only from a full set, and it is the oldest.
LEMMA FillTakesTheOldest ==
  ASSUME CacheInv, NEW line \in Lines
  PROVE  TakesTheOldest(line)
<1> DEFINE s == SetOf(line)
           w == FillWay(cache, line)
           empty == {x \in Usable(cache) : ~cache.valid[s][x]}
           bits == cache.lru[s]
           a == age[s]
<1>1. cache \in Caches /\ age \in [Sets -> Ages] /\ InOrder(cache, age) /\ s \in Sets
  BY CacheInvIs, LineFacts
<1>2. w \in Usable(cache) /\ w \in Ways /\ Usable(cache) \subseteq Ways
  BY <1>1, FillWayUsable
<1>3. a \in Ages /\ Distinct(a) /\ Says(bits, a) /\ bits \in SUBSET OrderBits /\ cache.twoWay \in BOOLEAN
  <2> HIDE DEF s
  <2> QED
    BY <1>1 DEF InOrder, Caches
<1>4. Usable(cache) = IF cache.twoWay THEN {2, 3} ELSE Ways
  BY DEF Usable
<1>5. ASSUME cache.valid[s][w] PROVE empty = {}
  <2> SUFFICES ASSUME empty # {} PROVE FALSE
    OBVIOUS
  <2>1. w = FirstOf(empty)
    BY DEF FillWay
  <2>2. FirstOf(empty) \in empty
    BY <1>2, FirstOfSome
  <2> QED
    BY <1>5, <2>1, <2>2
<1>6. ASSUME empty = {}, NEW p \in Ways, NEW q \in Ways,
             {x \in Usable(cache) : a[x] = Forgotten} \subseteq {p, q}
      PROVE  \A x \in Usable(cache) : a[x] <= a[w]
  <2>1. w = LruWay(bits, cache.twoWay)
    BY <1>6 DEF FillWay
  <2> HIDE DEF a, bits, w
  <2>2. \A x \in (IF cache.twoWay THEN {2, 3} ELSE Ways) : a[x] = Forgotten => x \in {p, q}
    BY <1>4, <1>6
  <2>3. \A x \in (IF cache.twoWay THEN {2, 3} ELSE Ways) : a[x] <= a[LruWay(bits, cache.twoWay)]
    BY <1>3, <2>2, LruWayIsOldest
  <2> QED
    BY <1>4, <2>1, <2>3
<1>7. ASSUME cache.valid[s][w]
      PROVE  /\ \A x \in Usable(cache) : cache.valid[s][x]
             /\ (\E p, q \in Ways : {x \in Usable(cache) : a[x] = Forgotten} \subseteq {p, q}) =>
                   \A x \in Usable(cache) : a[x] <= a[w]
  <2>1. empty = {}
    BY <1>5, <1>7
  <2>2. \A x \in Usable(cache) : cache.valid[s][x]
    BY <2>1
  <2> HIDE DEF empty, a, w
  <2> QED
    BY <1>6, <2>1, <2>2
<1> QED
  BY <1>2, <1>7 DEF TakesTheOldest

\* The address array reads what it writes.
LEMMA AddressArrayRestores ==
  ASSUME NEW h \in Caches, NEW s \in Sets
  PROVE  SavedAndRestored(h, s)
<1> DEFINE w == h.wayBits
           r == AddrRead(h, <<s, 0>>)
           tags == [h.tag EXCEPT ![s] = [h.tag[s] EXCEPT ![w] = h.tag[s][w]]]
           valids == [h.valid EXCEPT ![s] = [h.valid[s] EXCEPT ![w] = h.valid[s][w]]]
           lru == [h.lru EXCEPT ![s] = h.lru[s]]
<1>1. w \in Ways /\ h.tag \in [Sets -> [Ways -> Tags]] /\ h.valid \in [Sets -> [Ways -> BOOLEAN]]
      /\ h.lru \in [Sets -> SUBSET OrderBits]
  BY DEF Caches
<1>2. r.tag = h.tag[s][w] /\ r.valid = h.valid[s][w] /\ r.lru = h.lru[s]
  BY DEF AddrRead, SetOf
<1> HIDE DEF r
<1>3. AddrWrite(h, <<s, r.tag>>, r.valid, r.lru)
        = [h EXCEPT !.tag = tags, !.valid = valids, !.lru = lru, !.ifBase = NoLine]
  BY <1>1, <1>2 DEF AddrWrite, SetOf, TagOf, Caches
<1> HIDE DEF w
<1>4. tags = h.tag
  BY <1>1
<1>5. valids = h.valid
  BY <1>1
<1>6. lru = h.lru
  BY <1>1
<1> HIDE DEF tags, valids, lru
<1>7. [h EXCEPT !.tag = tags, !.valid = valids, !.lru = lru, !.ifBase = NoLine] = [h EXCEPT !.ifBase = NoLine]
  BY <1>4, <1>5, <1>6 DEF Caches
<1> QED
  BY <1>3, <1>7 DEF SavedAndRestored, r

LEMMA CacheInvariant == CacheSpec => []CacheInv
<1> QED
  BY CacheInits, CacheSteps, PTL DEF CacheSpec

\* Types of the cache's registers, of the memory behind it and of the history.
THEOREM CacheTypeCorrect == CacheSpec => []CacheTypeOK
<1>1. CacheInv => CacheTypeOK
  BY DEF CacheInv
<1> QED
  BY <1>1, CacheInvariant, PTL

\* For any number of sets, tags, lines and values: whatever fetches, stores, purges and
\* array writes came before, the next fetch returns the line's private copy or memory,
\* keeps it, drops no line but the oldest of a full set, and leaves six bits that are
\* the order of use.
THEOREM CacheAlwaysPrivateLru == CacheSpec => []CacheIsPrivateLru
<1>1. CacheInv => CacheIsPrivateLru
  <2> SUFFICES ASSUME CacheInv PROVE CacheIsPrivateLru
    OBVIOUS
  <2>1. \A s \in Sets : Says(cache.lru[s], age[s])
    BY CacheInvIs DEF InOrder
  <2>2. ASSUME NEW line \in Lines
        PROVE  LET held == Holding(cache, line)
                   next == Fetch(cache, mem, line)
                   now == Holding(next.h, line)
                   s == SetOf(line)
               IN  /\ next.v = IF cache.on /\ held # {} THEN cache.data[s][FirstOf(held)] ELSE mem[line]
                   /\ Cached(line) => now # {} /\ next.h.data[s][FirstOf(now)] = next.v
                   /\ Cached(line) => Says(next.h.lru[s], Aged(age[s], Served(line)))
                   /\ Cached(line) /\ held = {} => TakesTheOldest(line)
                   /\ KeepsOthers(line, next.h)
    BY FetchReturns, FetchTouches, FillTakesTheOldest
  <2>3. ASSUME NEW s \in Sets, NEW w \in Ways PROVE SavedAndRestored([cache EXCEPT !.wayBits = w], s)
    <3>1. [cache EXCEPT !.wayBits = w] \in Caches
      BY CacheInvIs DEF Caches
    <3> QED
      BY <3>1, AddressArrayRestores
  <2> QED
    BY <2>1, <2>2, <2>3 DEF CacheIsPrivateLru
<1> QED
  BY <1>1, CacheInvariant, PTL
=============================================================================
