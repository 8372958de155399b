--------------------------- MODULE AudioPathProofs ---------------------------
(* Theorems about AudioPath: what the sound clock owes and what the ring      *)
(* holds, for any ring, slices, batch, clock ratio and overshoot, whether or  *)
(* not the build keeps the indices of sound_drain in registers.               *)
EXTENDS AudioPath, TLAPS

(***************************************************************************)
(* The clock.  What has elapsed is either deferred or on its way to a      *)
(* sample; outside a batch's run nothing is deferred, and outside the      *)
(* rendering loop there is less than a sample.  The sound CPU's debt is    *)
(* its target's distance, its fraction and the deferred cycles at its own  *)
(* rate: that its overshoot is paid back is this equation.                 *)
(***************************************************************************)
ClockAddsUp == owed = sound_deferred + scsp_acc
PaidUp ==
  /\ pc # "run" => sound_deferred = 0
  /\ pc \notin {"render", "store", "publish"} => scsp_acc < PerSample
DebtIsKnown ==
  /\ due \in -MaxOvershoot .. 0
  /\ (sound_on /\ ~halted) => owed_cpu = Den * due + m68k_acc + Num * sound_deferred
ClockInv == ClockAddsUp /\ PaidUp /\ DebtIsKnown

(***************************************************************************)
(* The ring.  Distances go forward round the ring.  The reader's place is  *)
(* its register while a callback keeps it there.  The slots that hold a    *)
(* sample are those from the reader's place up to the write index, and the *)
(* one that is stored and not yet published.  A stale copy of an index     *)
(* only ever makes the ring look fuller to the writer and emptier to the   *)
(* reader.  All of it until a reset overlaps a callback.                   *)
(***************************************************************************)
Distance(i, j) == IF i <= j THEN j - i ELSE j - i + RingFrames
Reading == IF cb /\ cached THEN rp_reg ELSE snd_rp
Holds(from, to) == {i \in Slots : Distance(from, i) < Distance(from, to)}

RingHolds ==
  pc # "reset_wp" =>
    unread = Holds(Reading, snd_wp) \cup (IF pc = "publish" THEN {snd_wp} ELSE {})
RoomIsKept ==
  pc \in {"store", "publish"} => Distance(snd_rp, snd_wp) < RingFrames - 1
CopiesAreBetween ==
  (cb /\ cached) =>
    /\ Distance(rp_reg, wp_reg) <= Distance(rp_reg, snd_wp)
    /\ Distance(rp_reg, snd_wp) <= Distance(snd_rp, snd_wp)
ResetIsQuiet == pc = "reset_wp" => (~cb /\ unread = {} /\ snd_rp = 0)
RingInv == in_order /\ RingHolds /\ RoomIsKept /\ CopiesAreBetween /\ ResetIsQuiet

Flags ==
  /\ sound_on \in BOOLEAN /\ halted \in BOOLEAN /\ cached \in BOOLEAN /\ cb \in BOOLEAN
  /\ primed \in BOOLEAN /\ in_order \in BOOLEAN /\ raced \in BOOLEAN
Places ==
  /\ pc \in {"run", "render", "store", "publish", "access", "on", "off", "reset",
             "reset_wp"}
  /\ then \in {"run", "access", "on", "off", "reset"}
Indices ==
  /\ snd_wp \in Slots /\ snd_rp \in Slots /\ unread \subseteq Slots
  /\ rp_reg \in Slots /\ wp_reg \in Slots /\ left \in 0 .. Frames
Cycles ==
  /\ sound_deferred \in Nat /\ scsp_acc \in Nat /\ owed \in Nat
  /\ m68k_acc \in 0 .. Den - 1 /\ due \in Int /\ owed_cpu \in Int

LEMMA TypesAre == TypeOK <=> Flags /\ Places /\ Indices /\ Cycles
BY DEF TypeOK, Flags, Places, Indices, Cycles

-----------------------------------------------------------------------------
(* Arithmetic.                                                               *)

LEMMA Division ==
  ASSUME NEW a \in Int, NEW d \in Nat \ {0}
  PROVE  /\ a \div d \in Int /\ a % d \in 0 .. d - 1
         /\ a % d = a - d * (a \div d)
         /\ a >= 0 => a \div d >= 0
<1>1. a \div d \in Int
  OBVIOUS
<1>2. a % d \in 0 .. d - 1
  OBVIOUS
<1>3. a % d = a - d * (a \div d)
  OBVIOUS
<1>4. a >= 0 => a \div d >= 0
  OBVIOUS
<1> QED
  BY <1>1, <1>2, <1>3, <1>4

LEMMA Products ==
  ASSUME NEW d \in Int, NEW a \in Int, NEW b \in Int
  PROVE  d * a \in Int /\ d * (a + b) = d * a + d * b /\ d * (-a) = -(d * a)
OBVIOUS

\* The index after i, without the remainder.
LEMMA AfterIs ==
  ASSUME NEW i \in Slots
  PROVE  After(i) \in Slots /\ After(i) = IF i = RingFrames - 1 THEN 0 ELSE i + 1
<1>1. RingFrames \in Nat \ {0} /\ i \in 0 .. RingFrames - 1
  BY AudioAssumption DEF Slots
<1>2. (i + 1) % RingFrames = IF i = RingFrames - 1 THEN 0 ELSE i + 1
  BY <1>1
<1> QED
  BY <1>1, <1>2 DEF After, Slots

LEMMA SlotZero == 0 \in Slots /\ RingFrames \in Nat /\ RingFrames > 1
BY AudioAssumption DEF Slots

-----------------------------------------------------------------------------
(* Types.                                                                    *)

LEMMA CpuTypes ==
  ASSUME Cycles, NEW cycles \in Nat, NEW debt \in Int, RunSoundCpu(cycles, debt)
  PROVE  m68k_acc' \in 0 .. Den - 1 /\ due' \in Int /\ owed_cpu' \in Int
<1> DEFINE acc == m68k_acc + cycles * Num
           budget == due + acc \div Den
<1>1. cycles * Num \in Nat /\ Den \in Nat \ {0} /\ MaxOvershoot \in Nat
  BY AudioAssumption
<1>2. acc \in Int
  BY <1>1, AudioAssumption DEF Cycles
<1>3. acc \div Den \in Int /\ acc % Den \in 0 .. Den - 1
  BY <1>1, <1>2, Division
<1>4. budget \in Int
  BY <1>3 DEF Cycles
<1> HIDE DEF acc, budget
<1>5. CASE ~sound_on \/ halted
  BY <1>5 DEF RunSoundCpu, Cycles
<1>6. CASE ~(~sound_on \/ halted)
  <2>1. /\ m68k_acc' = acc % Den
        /\ \/ \E over \in 0 .. MaxOvershoot :
                due' = -over /\ owed_cpu' = debt - Den * (budget + over)
           \/ due' = budget /\ owed_cpu' = debt
    BY <1>6 DEF RunSoundCpu, acc, budget
  <2>2. CASE due' = budget /\ owed_cpu' = debt
    BY <1>3, <1>4, <2>1, <2>2
  <2>3. ASSUME NEW over \in 0 .. MaxOvershoot,
               due' = -over, owed_cpu' = debt - Den * (budget + over)
        PROVE  due' \in Int /\ owed_cpu' \in Int
    <3>1. over \in Int /\ budget + over \in Int
      BY <1>1, <1>4
    <3>2. Den * (budget + over) \in Int
      BY <1>1, <3>1
    <3> QED
      BY <2>3, <3>1, <3>2
  <2> QED
    BY <1>3, <2>1, <2>2, <2>3
<1> QED
  BY <1>5, <1>6

LEMMA FlagsStay ==
  ASSUME Flags, [Next]_vars
  PROVE  Flags'
<1> USE DEF Flags, clock, cpu, callback, samples, ring
<1>1. ASSUME NEW n \in Quanta, Slice(n)
      PROVE  Flags'
  BY <1>1 DEF Slice, RunExact, RunSoundCpu
<1>2. ASSUME NEW next, SyncBefore(next)
      PROVE  Flags'
  BY <1>2 DEF SyncBefore, SoundSync, RunExact, RunSoundCpu
<1>3. CASE SoundBusAccess \/ SndOn \/ SndOff \/ ClockChange \/ ClockChangeWp
  BY <1>3 DEF SoundBusAccess, SndOn, SndOff, ClockChange, ClockChangeWp
<1>4. CASE Writer
  BY <1>4 DEF Writer, Render, RenderDone, StoreSample, PublishSample
<1>5. CASE AudioThread
  BY <1>5 DEF AudioThread, AudioCb, DrainFrame, DrainDone
<1>6. CASE UNCHANGED vars
  BY <1>6 DEF vars
<1> QED
  BY <1>1, <1>2, <1>3, <1>4, <1>5, <1>6 DEF Next, Emulation, Slices, Reset

LEMMA PlacesStay ==
  ASSUME Places, [Next]_vars
  PROVE  Places'
<1> USE DEF Places
<1>1. ASSUME NEW n \in Quanta, Slice(n)
      PROVE  Places'
  BY <1>1 DEF Slice, RunExact
<1>2. ASSUME NEW next \in {"access", "on", "off", "reset"}, SyncBefore(next)
      PROVE  Places'
  BY <1>2 DEF SyncBefore, SoundSync, RunExact
<1>3. CASE SoundBusAccess \/ SndOn \/ SndOff \/ ClockChange \/ ClockChangeWp
  BY <1>3 DEF SoundBusAccess, SndOn, SndOff, ClockChange, ClockChangeWp
<1>4. CASE Writer
  BY <1>4 DEF Writer, Render, RenderDone, StoreSample, PublishSample
<1>5. CASE AudioThread
  BY <1>5 DEF AudioThread, AudioCb, DrainFrame, DrainDone
<1>6. CASE UNCHANGED vars
  BY <1>6 DEF vars
<1> QED
  BY <1>1, <1>2, <1>3, <1>4, <1>5, <1>6 DEF Next, Emulation, Slices, Reset

LEMMA IndicesStay ==
  ASSUME Indices, [Next]_vars
  PROVE  Indices'
<1> USE SlotZero DEF Indices, callback, samples, ring
<1>1. CASE UNCHANGED <<callback, ring>>
  BY <1>1
<1>2. CASE ClockChange
  BY <1>2 DEF ClockChange
<1>3. CASE ClockChangeWp
  BY <1>3 DEF ClockChangeWp
<1>4. CASE StoreSample
  BY <1>4 DEF StoreSample
<1>5. CASE PublishSample
  BY <1>5, AfterIs DEF PublishSample
<1>6. CASE AudioCb
  BY <1>6, AudioAssumption DEF AudioCb
<1>7. CASE DrainFrame
  <2>1. left' \in 0 .. Frames
    BY <1>7, AudioAssumption DEF DrainFrame
  <2>2. rp_reg' \in Slots /\ snd_rp' \in Slots
    BY <1>7, AfterIs DEF DrainFrame
  <2> QED
    BY <1>7, <2>1, <2>2 DEF DrainFrame
<1>8. CASE DrainDone
  BY <1>8, AudioAssumption DEF DrainDone, ReadIndex
<1> QED
  BY <1>1, <1>2, <1>3, <1>4, <1>5, <1>6, <1>7, <1>8
     DEF Next, Emulation, Slices, Slice, SyncBefore, SoundSync, SoundBusAccess, SndOn, SndOff,
         Reset, Writer, Render, RenderDone, AudioThread, vars

-----------------------------------------------------------------------------
(* The clock.                                                                *)

\* A span handed to the sound CPU is paid to the last of its cycles: what is
\* left of the debt is the overshoot it will not run again and the fraction.
LEMMA CpuPays ==
  ASSUME Cycles, DebtIsKnown, NEW cycles \in Nat, NEW debt \in Int,
         RunSoundCpu(cycles, debt), UNCHANGED sound_on,
         (sound_on /\ ~halted) => debt = Den * due + m68k_acc + Num * cycles
  PROVE  /\ due' \in -MaxOvershoot .. 0
         /\ (sound_on' /\ ~halted') => owed_cpu' = Den * due' + m68k_acc'
<1> DEFINE acc == m68k_acc + cycles * Num
           quotient == acc \div Den
           budget == due + quotient
<1>1. /\ cycles * Num \in Nat /\ Num * cycles = cycles * Num
      /\ Den \in Nat \ {0} /\ MaxOvershoot \in Nat
  BY AudioAssumption
<1>2. acc \in Nat /\ m68k_acc \in Nat /\ due \in Int
  BY <1>1, AudioAssumption DEF Cycles
<1>3. /\ quotient \in Int /\ quotient >= 0
      /\ acc % Den = acc - Den * quotient
  <2> HIDE DEF acc
  <2>1. acc \in Int /\ acc >= 0
    BY <1>2
  <2> QED
    BY <1>1, <2>1, Division
<1>4. budget \in Int /\ Den * budget = Den * due + Den * quotient
      /\ Den * quotient \in Int /\ Den * due \in Int
  <2>1. Den \in Int
    BY <1>1
  <2> HIDE DEF quotient
  <2> QED
    BY <1>2, <1>3, <2>1, Products
<1> HIDE DEF acc, quotient, budget
<1>5. CASE ~sound_on \/ halted
  BY <1>5 DEF RunSoundCpu, DebtIsKnown
<1>6. CASE sound_on /\ ~halted
  <2>1. /\ m68k_acc' = acc % Den
        /\ \/ /\ budget > 0
              /\ \E over \in 0 .. MaxOvershoot :
                   due' = -over /\ owed_cpu' = debt - Den * (budget + over)
           \/ /\ ~(budget > 0)
              /\ due' = budget /\ owed_cpu' = debt
    BY <1>6 DEF RunSoundCpu, acc, budget, quotient
  <2>2. debt = Den * due + acc
    BY <1>1, <1>2, <1>4, <1>6 DEF acc
  <2>3. CASE due' = budget /\ owed_cpu' = debt /\ ~(budget > 0)
    <3>1. due' \in -MaxOvershoot .. 0
      BY <1>1, <1>3, <1>4, <2>3 DEF budget, DebtIsKnown
    <3>2. Den * due' = Den * due + Den * quotient
      BY <1>4, <2>3
    <3>3. owed_cpu' = Den * due' + m68k_acc'
      BY <1>2, <1>3, <1>4, <2>1, <2>2, <2>3, <3>2
    <3> QED
      BY <3>1, <3>3
  <2>4. ASSUME NEW over \in 0 .. MaxOvershoot,
               due' = -over, owed_cpu' = debt - Den * (budget + over)
        PROVE  /\ due' \in -MaxOvershoot .. 0
               /\ owed_cpu' = Den * due' + m68k_acc'
    <3>1. over \in Int /\ Den \in Int
      BY <1>1
    <3>2. /\ Den * (budget + over) = Den * budget + Den * over
          /\ Den * over \in Int /\ Den * (-over) = -(Den * over)
      BY <1>4, <3>1, Products
    <3>3. Den * due' = -(Den * over)
      BY <2>4, <3>2
    <3>4. owed_cpu' = Den * due' + m68k_acc'
      BY <1>2, <1>3, <1>4, <2>1, <2>2, <2>4, <3>2, <3>3
    <3>5. due' \in -MaxOvershoot .. 0
      BY <1>1, <2>4
    <3> QED
      BY <3>4, <3>5
  <2> QED
    BY <2>1, <2>3, <2>4
<1> QED
  BY <1>5, <1>6

ClockGood == Cycles /\ ClockInv

\* A batch handed over, from a slice or before an access.
LEMMA RunExactKeepsClock ==
  ASSUME ClockGood, Flags, NEW cycles \in Nat, NEW debt \in Int, NEW next,
         RunExact(cycles, debt, next), UNCHANGED sound_on,
         owed' = cycles + scsp_acc,
         (sound_on /\ ~halted) => debt = Den * due + m68k_acc + Num * cycles
  PROVE  ClockGood'
<1> USE DEF ClockGood, ClockInv
<1>1. /\ RunSoundCpu(cycles, debt) /\ sound_deferred' = 0
      /\ scsp_acc' = scsp_acc + cycles /\ pc' = "render"
  BY DEF RunExact
<1>2. Cycles'
  <2>1. m68k_acc' \in 0 .. Den - 1 /\ due' \in Int /\ owed_cpu' \in Int
    BY <1>1, CpuTypes
  <2> QED
    BY <1>1, <2>1 DEF Cycles
<1>3. ClockAddsUp' /\ PaidUp'
  BY <1>1 DEF ClockAddsUp, PaidUp, Cycles
<1>4. DebtIsKnown'
  <2>1. /\ due' \in -MaxOvershoot .. 0
        /\ (sound_on' /\ ~halted') => owed_cpu' = Den * due' + m68k_acc'
    BY <1>1, CpuPays
  <2>2. Num * sound_deferred' = 0 /\ m68k_acc' \in Int /\ Den * due' \in Int
    BY <1>1, <1>2, AudioAssumption DEF Cycles
  <2> QED
    BY <2>1, <2>2 DEF DebtIsKnown
<1> QED
  BY <1>2, <1>3, <1>4

LEMMA SliceKeepsClock ==
  ASSUME ClockGood, Flags, NEW n \in Quanta, Slice(n)
  PROVE  ClockGood'
<1> DEFINE debt == IF sound_on /\ ~halted THEN owed_cpu + Num * n ELSE owed_cpu
<1> USE DEF ClockGood, ClockInv
<1>1. n \in Nat /\ Num \in Int /\ Num * n \in Int /\ Num * sound_deferred \in Int
      /\ Num * (sound_deferred + n) = Num * sound_deferred + Num * n
      /\ Den * due \in Int
  <2>1. n \in Nat /\ Num \in Int /\ n \in Int /\ sound_deferred \in Int /\ Den \in Int /\ due \in Int
    BY AudioAssumption DEF Cycles
  <2> QED
    BY <2>1, Products
<1>2. debt \in Int
  BY <1>1 DEF Cycles
<1>3. (sound_on /\ ~halted) => debt = Den * due + m68k_acc + Num * (sound_deferred + n)
  BY <1>1 DEF DebtIsKnown, Cycles
<1> HIDE DEF debt
<1>4. pc = "run" /\ owed' = owed + n /\ UNCHANGED sound_on
  BY DEF Slice
<1>5. owed' = (sound_deferred + n) + scsp_acc
  BY <1>1, <1>4 DEF ClockAddsUp, Cycles
<1>6. CASE sound_deferred + n < Batch
  <2>1. /\ sound_deferred' = sound_deferred + n /\ owed_cpu' = debt
        /\ UNCHANGED <<scsp_acc, halted, m68k_acc, due, pc, then>>
    BY <1>6 DEF Slice, debt
  <2>2. Cycles'
    BY <1>1, <1>2, <1>4, <2>1 DEF Cycles
  <2>3. ClockAddsUp' /\ PaidUp'
    BY <1>4, <1>5, <2>1 DEF ClockAddsUp, PaidUp
  <2>4. DebtIsKnown'
    BY <1>3, <1>4, <2>1 DEF DebtIsKnown
  <2> QED
    BY <2>2, <2>3, <2>4
<1>7. CASE ~(sound_deferred + n < Batch)
  <2>1. RunExact(sound_deferred + n, debt, "run") /\ sound_deferred + n \in Nat
    BY <1>1, <1>7 DEF Slice, debt, Cycles
  <2> QED
    BY <1>2, <1>3, <1>4, <1>5, <2>1, RunExactKeepsClock
<1> QED
  BY <1>6, <1>7

LEMMA SyncKeepsClock ==
  ASSUME ClockGood, Flags, NEW next \in {"access", "on", "off", "reset"}, SyncBefore(next)
  PROVE  ClockGood'
<1> USE DEF ClockGood, ClockInv
<1>1. pc = "run" /\ UNCHANGED <<sound_on, owed>>
  BY DEF SyncBefore, SoundSync
<1>2. CASE sound_deferred = 0
  <2>1. /\ pc' = next
        /\ UNCHANGED <<sound_deferred, scsp_acc, halted, m68k_acc, due, owed_cpu>>
    BY <1>2 DEF SyncBefore, SoundSync
  <2>2. Cycles'
    BY <1>1, <2>1 DEF Cycles
  <2>3. ClockAddsUp' /\ PaidUp'
    BY <1>1, <1>2, <2>1 DEF ClockAddsUp, PaidUp
  <2>4. DebtIsKnown'
    BY <1>1, <2>1 DEF DebtIsKnown
  <2> QED
    BY <2>2, <2>3, <2>4
<1>3. CASE sound_deferred # 0
  <2>1. RunExact(sound_deferred, owed_cpu, next)
    BY <1>3 DEF SyncBefore, SoundSync
  <2>2. owed' = sound_deferred + scsp_acc /\ sound_deferred \in Nat /\ owed_cpu \in Int
    BY <1>1 DEF ClockAddsUp, Cycles
  <2> QED
    BY <1>1, <2>1, <2>2, RunExactKeepsClock DEF DebtIsKnown
<1> QED
  BY <1>2, <1>3

\* The steps that are not a slice or a synchronisation.
LEMMA OthersKeepClock ==
  ASSUME ClockGood, Flags, Places,
         \/ SoundBusAccess \/ SndOn \/ SndOff \/ Reset \/ Writer \/ AudioThread
         \/ UNCHANGED vars
  PROVE  ClockGood'
<1> USE DEF ClockGood, ClockInv, clock, cpu, callback, samples, ring
<1>1. Num * 0 = 0 /\ Den * 0 = 0 /\ PerSample > 0 /\ Den > 0 /\ -MaxOvershoot <= 0
      /\ PerSample \in Nat /\ Den \in Nat /\ MaxOvershoot \in Nat
  BY AudioAssumption
<1>2. ASSUME UNCHANGED <<clock, cpu>>, PaidUp'
      PROVE  ClockGood'
  BY <1>2 DEF Cycles, ClockAddsUp, DebtIsKnown
<1>3. CASE SoundBusAccess
  BY <1>2, <1>3 DEF SoundBusAccess, PaidUp
<1>4. CASE SndOn
  <2>1. pc = "on" /\ pc' = "run" /\ UNCHANGED <<sound_deferred, scsp_acc, owed>>
    BY <1>4 DEF SndOn
  <2>2. PaidUp' /\ sound_deferred = 0
    BY <2>1 DEF PaidUp
  <2>3. CASE sound_on
    BY <1>2, <1>4, <2>2, <2>3 DEF SndOn
  <2>4. CASE ~sound_on
    <3>1. m68k_acc' = 0 /\ due' = 0 /\ owed_cpu' = 0
      BY <1>4, <2>4 DEF SndOn
    <3> QED
      BY <1>1, <2>1, <2>2, <3>1 DEF Cycles, ClockAddsUp, DebtIsKnown
  <2> QED
    BY <2>3, <2>4
<1>5. CASE SndOff
  BY <1>5 DEF SndOff, Cycles, ClockAddsUp, PaidUp, DebtIsKnown
<1>6. CASE ClockChange
  <2>1. /\ sound_deferred' = 0 /\ scsp_acc' = 0 /\ owed' = 0 /\ ~sound_on'
        /\ m68k_acc' = 0 /\ due' = 0 /\ owed_cpu' = 0
    BY <1>6 DEF ClockChange
  <2> QED
    BY <1>1, <2>1 DEF Cycles, ClockAddsUp, PaidUp, DebtIsKnown
<1>7. CASE ClockChangeWp
  BY <1>2, <1>7 DEF ClockChangeWp, PaidUp
<1>8. CASE Render
  <2>1. /\ pc = "render" /\ scsp_acc >= PerSample
        /\ scsp_acc' = scsp_acc - PerSample /\ owed' = owed - PerSample
        /\ pc' \in {"store", "render"}
        /\ UNCHANGED <<sound_deferred, sound_on, halted, m68k_acc, due, owed_cpu>>
    BY <1>8 DEF Render
  <2>2. Cycles' /\ ClockAddsUp'
    BY <1>1, <2>1 DEF Cycles, ClockAddsUp
  <2>3. PaidUp' /\ DebtIsKnown'
    BY <2>1 DEF PaidUp, DebtIsKnown
  <2> QED
    BY <2>2, <2>3
<1>9. CASE RenderDone
  BY <1>2, <1>9 DEF RenderDone, PaidUp
<1>10. CASE StoreSample \/ PublishSample
  BY <1>2, <1>10 DEF StoreSample, PublishSample, PaidUp
<1>11. CASE AudioThread
  BY <1>2, <1>11 DEF AudioThread, AudioCb, DrainFrame, DrainDone, PaidUp
<1>12. CASE UNCHANGED vars
  BY <1>2, <1>12 DEF vars, PaidUp
<1> QED
  BY <1>3, <1>4, <1>5, <1>6, <1>7, <1>8, <1>9, <1>10, <1>11, <1>12 DEF Reset, Writer

Good == Flags /\ Places /\ Indices /\ ClockGood

LEMMA InitGood == Init => Good
<1> SUFFICES ASSUME Init PROVE Good
  OBVIOUS
<1>1. Flags /\ Places
  BY DEF Init, Flags, Places
<1>2. Indices
  BY SlotZero, AudioAssumption DEF Init, Indices
<1>3. sound_deferred = 0 /\ scsp_acc = 0 /\ owed = 0 /\ m68k_acc = 0 /\ due = 0 /\ owed_cpu = 0
      /\ pc = "run" /\ ~sound_on
  BY DEF Init
<1>4. ClockGood
  BY <1>3, AudioAssumption DEF ClockGood, ClockInv, Cycles, ClockAddsUp, PaidUp, DebtIsKnown
<1> QED
  BY <1>1, <1>2, <1>4 DEF Good

LEMMA StepGood ==
  ASSUME Good, [Next]_vars
  PROVE  Good'
<1>1. Flags' /\ Places' /\ Indices'
  BY FlagsStay, PlacesStay, IndicesStay DEF Good
<1>2. ClockGood'
  BY SliceKeepsClock, SyncKeepsClock, OthersKeepClock
     DEF Good, Next, Emulation, Slices
<1> QED
  BY <1>1, <1>2 DEF Good

\* Every index, accumulator and flag keeps its type; in particular no more
\* samples are rendered than cycles have elapsed for.
THEOREM TypeCorrect == Spec => []TypeOK
<1>1. Good => TypeOK
  BY TypesAre DEF Good, ClockGood
<1>2. Good /\ [Next]_vars => Good'
  BY StepGood
<1> QED
  BY InitGood, <1>1, <1>2, PTL DEF Spec

\* An access to the sound bus finds every due sample rendered and the sound
\* CPU where the machine clock has it, to a cycle and an instruction: nothing
\* accumulates over batches, overshoots, stops and restarts (sound_run,
\* sound_run_exact, sound_sync).
THEOREM AccessAlwaysSeesDueState == Spec => []AccessSeesDueState
<1>1. Good => AccessSeesDueState
  <2> SUFFICES ASSUME Good, pc = "access"
               PROVE  /\ owed < PerSample
                      /\ sound_on /\ ~halted => owed_cpu < Den /\ owed_cpu >= -Den * MaxOvershoot
    BY DEF AccessSeesDueState
  <2> USE DEF Good, ClockGood, ClockInv
  <2>1. sound_deferred = 0 /\ scsp_acc < PerSample
    BY DEF PaidUp
  <2>2. owed < PerSample
    BY <2>1, AudioAssumption DEF ClockAddsUp, Cycles
  <2>3. Num * sound_deferred = 0 /\ Den \in Nat \ {0} /\ MaxOvershoot \in Nat
    BY <2>1, AudioAssumption
  <2>4. PICK over \in 0 .. MaxOvershoot : due = -over
    <3>1. due \in -MaxOvershoot .. 0
      BY DEF DebtIsKnown
    <3>2. -due \in 0 .. MaxOvershoot /\ due = -(-due)
      BY <2>3, <3>1
    <3> QED
      BY <3>2
  <2>5. Den * due = -(Den * over) /\ Den * over \in Nat /\ Den * over <= Den * MaxOvershoot
        /\ Den * MaxOvershoot \in Nat /\ -Den * MaxOvershoot = -(Den * MaxOvershoot)
    BY <2>3, <2>4
  <2>6. ASSUME sound_on, ~halted
        PROVE  owed_cpu < Den /\ owed_cpu >= -Den * MaxOvershoot
    <3>1. owed_cpu = Den * due + m68k_acc + Num * sound_deferred
      BY <2>6 DEF DebtIsKnown
    <3>2. m68k_acc \in 0 .. Den - 1
      BY DEF Cycles
    <3> QED
      BY <2>3, <2>5, <3>1, <3>2
  <2> QED
    BY <2>2, <2>6
<1>2. Good /\ [Next]_vars => Good'
  BY StepGood
<1> QED
  BY InitGood, <1>1, <1>2, PTL DEF Spec

-----------------------------------------------------------------------------
(* The ring.                                                                 *)

LEMMA DistanceFacts ==
  ASSUME NEW i \in Slots, NEW j \in Slots
  PROVE  /\ Distance(i, j) \in 0 .. RingFrames - 1
         /\ Distance(i, j) = 0 <=> i = j
         /\ Distance(After(i), j) = IF i = j THEN RingFrames - 1 ELSE Distance(i, j) - 1
         /\ After(j) # i => /\ Distance(i, j) < RingFrames - 1
                            /\ Distance(i, After(j)) = Distance(i, j) + 1
         /\ Distance(i, j) < RingFrames - 1 => After(j) # i
<1>1. /\ After(i) = IF i = RingFrames - 1 THEN 0 ELSE i + 1
      /\ After(j) = IF j = RingFrames - 1 THEN 0 ELSE j + 1
  BY AfterIs
<1>2. i \in Nat /\ j \in Nat /\ i < RingFrames /\ j < RingFrames
  BY SlotZero DEF Slots
<1> QED
  BY <1>1, <1>2, SlotZero DEF Distance

LEMMA SameDistance ==
  ASSUME NEW i \in Slots, NEW j \in Slots, NEW k \in Slots, Distance(i, j) = Distance(i, k)
  PROVE  j = k
BY SlotZero DEF Distance, Slots

\* The sample at the reader's place is there to take, and taking it leaves
\* the others.
LEMMA HoldsTaken ==
  ASSUME NEW i \in Slots, NEW w \in Slots, i # w
  PROVE  i \in Holds(i, w) /\ Holds(After(i), w) = Holds(i, w) \ {i}
<1>1. Distance(i, i) = 0 /\ Distance(i, w) > 0 /\ Distance(i, w) < RingFrames
  BY DistanceFacts, SlotZero
<1>2. Distance(After(i), w) = Distance(i, w) - 1
  BY DistanceFacts
<1>3. ASSUME NEW k \in Slots
      PROVE  Distance(After(i), k) < Distance(After(i), w)
               <=> Distance(i, k) < Distance(i, w) /\ k # i
  <2>1. /\ Distance(After(i), k) = IF i = k THEN RingFrames - 1 ELSE Distance(i, k) - 1
        /\ Distance(i, k) \in 0 .. RingFrames - 1 /\ Distance(i, w) \in 0 .. RingFrames - 1
    BY DistanceFacts
  <2> QED
    BY <1>1, <1>2, <2>1, SlotZero
<1> QED
  BY <1>1, <1>3 DEF Holds

\* The slot at the write index is free; filling it adds it and no other.
LEMMA HoldsAdded ==
  ASSUME NEW i \in Slots, NEW w \in Slots
  PROVE  /\ w \notin Holds(i, w)
         /\ After(w) # i => Holds(i, After(w)) = Holds(i, w) \cup {w}
<1>1. Distance(i, w) \in 0 .. RingFrames - 1
  BY DistanceFacts
<1>2. w \notin Holds(i, w)
  BY <1>1, SlotZero DEF Holds
<1>3. ASSUME After(w) # i
      PROVE  Holds(i, After(w)) = Holds(i, w) \cup {w}
  <2>1. Distance(i, After(w)) = Distance(i, w) + 1
    BY <1>3, DistanceFacts
  <2>2. ASSUME NEW k \in Slots
        PROVE  Distance(i, k) < Distance(i, w) + 1 <=> Distance(i, k) < Distance(i, w) \/ k = w
    <3>1. Distance(i, k) \in 0 .. RingFrames - 1
      BY DistanceFacts
    <3>2. Distance(i, k) = Distance(i, w) => k = w
      BY SameDistance
    <3> QED
      BY <1>1, <3>1, <3>2, SlotZero
  <2> QED
    BY <2>1, <2>2 DEF Holds
<1> QED
  BY <1>2, <1>3

LEMMA HoldsNothing ==
  ASSUME NEW i \in Slots
  PROVE  Holds(i, i) = {}
<1>1. \A k \in Slots : Distance(i, k) >= 0 /\ Distance(i, i) = 0
  BY DistanceFacts, SlotZero
<1>2. \A k \in Slots : Distance(i, k) \in Int
  BY DistanceFacts
<1> QED
  BY <1>1, <1>2 DEF Holds

RingGood == raced \/ RingInv

\* Steps of the emulation thread outside the writer and the reset.
LEMMA QuietKeepsRing ==
  ASSUME RingGood, UNCHANGED <<callback, ring, cached, raced>>,
         pc \notin {"store", "publish", "reset_wp"},
         pc' \notin {"store", "publish", "reset_wp"}
  PROVE  RingGood'
BY DEF RingGood, RingInv, RingHolds, RoomIsKept, CopiesAreBetween, ResetIsQuiet,
       Reading, Holds, Distance, callback, ring, samples

\* Nothing moved.
LEMMA StillKeepsRing ==
  ASSUME RingGood, UNCHANGED <<callback, ring, cached, raced, pc>>
  PROVE  RingGood'
BY DEF RingGood, RingInv, RingHolds, RoomIsKept, CopiesAreBetween, ResetIsQuiet,
       Reading, Holds, Distance, callback, ring, samples

\* A reset empties the ring unless a callback is at it.
LEMMA ResetKeepsRing ==
  ASSUME Indices, Flags, RingGood, Reset
  PROVE  RingGood'
<1>1. CASE ClockChange
  <2>1. /\ raced' = cb /\ in_order' /\ unread' = {} /\ snd_rp' = 0 /\ pc' = "reset_wp"
        /\ cb' = cb /\ UNCHANGED <<rp_reg, wp_reg, cached>>
    BY <1>1 DEF ClockChange, callback
  <2> QED
    BY <2>1 DEF RingGood, RingInv, RingHolds, RoomIsKept, CopiesAreBetween, ResetIsQuiet
<1>2. CASE ClockChangeWp
  <2>1. /\ pc = "reset_wp" /\ pc' = "run" /\ snd_wp' = 0
        /\ UNCHANGED <<raced, cb, cached, rp_reg, wp_reg, snd_rp, unread, in_order>>
    BY <1>2 DEF ClockChangeWp, callback, samples
  <2>2. CASE raced
    BY <2>1, <2>2 DEF RingGood
  <2>3. CASE ~raced
    <3>1. ~cb /\ unread = {} /\ snd_rp = 0 /\ in_order
      BY <2>1, <2>3 DEF RingGood, RingInv, ResetIsQuiet
    <3>2. unread' = Holds(0, 0)
      BY <2>1, <3>1, HoldsNothing, SlotZero
    <3>3. Holds(Reading, snd_wp)' = Holds(0, 0)
      BY <2>1, <3>1 DEF Reading, Holds, Distance
    <3>4. RingHolds'
      BY <2>1, <3>2, <3>3 DEF RingHolds
    <3> QED
      BY <2>1, <3>1, <3>4 DEF RingGood, RingInv, RoomIsKept, CopiesAreBetween, ResetIsQuiet
  <2> QED
    BY <2>2, <2>3
<1> QED
  BY <1>1, <1>2 DEF Reset

\* The reader's place is a slot, and no nearer the writer than its copy says.
LEMMA ReadingFacts ==
  ASSUME Indices, Flags, RingInv
  PROVE  /\ Reading \in Slots
         /\ Distance(Reading, snd_wp) <= Distance(snd_rp, snd_wp)
<1>1. Distance(snd_rp, snd_wp) \in 0 .. RingFrames - 1
  BY DistanceFacts DEF Indices
<1> QED
  BY <1>1, SlotZero DEF Indices, RingInv, CopiesAreBetween, Reading

LEMMA WriterKeepsRing ==
  ASSUME Indices, Flags, Places, RingGood, Writer
  PROVE  RingGood'
<1> USE DEF callback, samples, ring
<1>0. UNCHANGED <<callback, cached, raced, snd_rp>>
  BY DEF Writer, Render, RenderDone, StoreSample, PublishSample
<1>1. CASE raced
  BY <1>0, <1>1 DEF RingGood
<1>2. CASE ~raced
  <2>1. RingInv
    BY <1>2 DEF RingGood
  <2>2. /\ Reading \in Slots /\ Reading' = Reading /\ snd_wp \in Slots /\ snd_rp \in Slots
        /\ Distance(Reading, snd_wp) <= Distance(snd_rp, snd_wp)
        /\ Distance(Reading, snd_wp) \in 0 .. RingFrames - 1
        /\ Distance(snd_rp, snd_wp) \in 0 .. RingFrames - 1
    BY <1>0, <2>1, ReadingFacts, DistanceFacts DEF Reading, Indices
  <2>3. CASE Render
    <3>1. pc = "render" /\ UNCHANGED <<snd_wp, unread, in_order>>
          /\ pc' = IF Room THEN "store" ELSE "render"
      BY <2>3 DEF Render
    <3>2. Room => Distance(snd_rp, snd_wp) < RingFrames - 1
      BY <2>2, DistanceFacts DEF Room
    <3>3. RoomIsKept'
      BY <1>0, <3>1, <3>2 DEF RoomIsKept, Distance
    <3>4. RingHolds' /\ CopiesAreBetween' /\ ResetIsQuiet'
      BY <1>0, <2>1, <2>2, <3>1
         DEF RingInv, RingHolds, CopiesAreBetween, ResetIsQuiet, Holds, Distance
    <3> QED
      BY <2>1, <3>1, <3>3, <3>4 DEF RingGood, RingInv
  <2>4. CASE RenderDone
    <3>1. pc = "render" /\ pc' \notin {"store", "publish", "reset_wp"} /\ UNCHANGED ring
      BY <2>4 DEF RenderDone, Places
    <3> QED
      BY <1>0, <3>1, QuietKeepsRing
  <2>5. CASE StoreSample
    <3>1. /\ pc = "store" /\ pc' = "publish" /\ UNCHANGED snd_wp
          /\ unread' = unread \cup {snd_wp}
          /\ in_order' = (in_order /\ snd_wp \notin unread)
      BY <2>5 DEF StoreSample
    <3>2. unread = Holds(Reading, snd_wp)
      BY <2>1, <3>1 DEF RingInv, RingHolds
    <3>3. in_order'
      BY <2>1, <2>2, <3>1, <3>2, HoldsAdded DEF RingInv
    <3>4. RingHolds'
      BY <2>2, <3>1, <3>2 DEF RingHolds, Holds, Distance
    <3>5. RoomIsKept' /\ CopiesAreBetween' /\ ResetIsQuiet'
      BY <1>0, <2>1, <3>1 DEF RingInv, RoomIsKept, CopiesAreBetween, ResetIsQuiet, Distance
    <3> QED
      BY <3>3, <3>4, <3>5 DEF RingGood, RingInv
  <2>6. CASE PublishSample
    <3>1. /\ pc = "publish" /\ pc' = "render" /\ snd_wp' = After(snd_wp)
          /\ UNCHANGED <<unread, in_order>>
      BY <2>6 DEF PublishSample
    <3>2. /\ Distance(snd_rp, snd_wp) < RingFrames - 1
          /\ Distance(Reading, snd_wp) < RingFrames - 1
      BY <2>1, <2>2, <3>1, SlotZero DEF RingInv, RoomIsKept
    <3>3. After(snd_wp) # snd_rp /\ After(snd_wp) # Reading
      BY <2>2, <3>2, DistanceFacts
    <3>4. /\ Distance(snd_rp, After(snd_wp)) = Distance(snd_rp, snd_wp) + 1
          /\ Distance(Reading, After(snd_wp)) = Distance(Reading, snd_wp) + 1
      BY <2>2, <3>3, DistanceFacts
    <3>5. RingHolds'
      <4>1. unread = Holds(Reading, After(snd_wp))
        BY <2>1, <2>2, <3>1, <3>3, HoldsAdded DEF RingInv, RingHolds
      <4>2. Holds(Reading, snd_wp)' = Holds(Reading, After(snd_wp))
        BY <2>2, <3>1 DEF Holds, Distance
      <4> QED
        BY <3>1, <4>1, <4>2 DEF RingHolds
    <3>6. CopiesAreBetween'
      <4> SUFFICES ASSUME cb, cached PROVE CopiesAreBetween'
        BY <1>0 DEF CopiesAreBetween
      <4>1. Reading = rp_reg /\ Distance(rp_reg, wp_reg) <= Distance(rp_reg, snd_wp)
        BY <2>1 DEF Reading, RingInv, CopiesAreBetween
      <4>2. Distance(rp_reg, wp_reg) \in 0 .. RingFrames - 1
        BY DistanceFacts DEF Indices
      <4>3. /\ Distance(rp_reg, wp_reg) <= Distance(rp_reg, After(snd_wp))
            /\ Distance(rp_reg, After(snd_wp)) <= Distance(snd_rp, After(snd_wp))
        BY <2>2, <3>4, <4>1, <4>2, SlotZero
      <4> QED
        BY <1>0, <3>1, <4>3 DEF CopiesAreBetween, Distance
    <3> QED
      BY <2>1, <3>1, <3>5, <3>6 DEF RingGood, RingInv, RoomIsKept, ResetIsQuiet
  <2> QED
    BY <2>3, <2>4, <2>5, <2>6 DEF Writer
<1> QED
  BY <1>1, <1>2

LEMMA ReaderKeepsRing ==
  ASSUME Indices, Flags, Places, RingGood, AudioThread
  PROVE  RingGood'
<1>0. /\ UNCHANGED <<snd_wp, pc, cached>> /\ (raced => raced')
  <2>1. UNCHANGED <<snd_wp, pc, cached>>
    BY DEF AudioThread, AudioCb, DrainFrame, DrainDone, ring
  <2>2. raced' = raced \/ raced' = (raced \/ pc = "reset_wp")
    BY DEF AudioThread, AudioCb, DrainFrame, DrainDone
  <2>3. raced => raced'
    BY <2>2, Zenon
  <2> QED
    BY <2>1, <2>3, Zenon
<1>1. CASE raced
  BY <1>0, <1>1 DEF RingGood
<1>2. CASE ~raced
  <2>1. RingInv
    BY <1>2 DEF RingGood
  <2>2. /\ Reading \in Slots /\ snd_wp \in Slots /\ snd_rp \in Slots
        /\ rp_reg \in Slots /\ wp_reg \in Slots
        /\ Distance(Reading, snd_wp) <= Distance(snd_rp, snd_wp)
        /\ Distance(Reading, snd_wp) \in 0 .. RingFrames - 1
        /\ Distance(snd_rp, snd_wp) \in 0 .. RingFrames - 1
        /\ Distance(rp_reg, wp_reg) \in 0 .. RingFrames - 1
        /\ Distance(rp_reg, snd_wp) \in 0 .. RingFrames - 1
    BY <2>1, ReadingFacts, DistanceFacts DEF Indices
  <2>3. CASE AudioCb
    <3>1. /\ ~cb /\ cb' /\ UNCHANGED <<snd_rp, unread, in_order>>
          /\ cached => rp_reg' = snd_rp /\ wp_reg' = snd_wp
          /\ raced' = (raced \/ pc = "reset_wp")
      BY <2>3 DEF AudioCb, ring, samples
    <3>2. CASE pc = "reset_wp"
      BY <3>1, <3>2 DEF RingGood
    <3>3. CASE pc # "reset_wp"
      <4>1. Reading = snd_rp /\ Reading' = snd_rp
        BY <1>0, <3>1 DEF Reading
      <4>2. RingHolds' /\ RoomIsKept' /\ ResetIsQuiet'
        BY <1>0, <2>1, <3>1, <3>3, <4>1
           DEF RingInv, RingHolds, RoomIsKept, ResetIsQuiet, Holds, Distance
      <4>3. CopiesAreBetween'
        BY <1>0, <2>2, <3>1, SlotZero DEF CopiesAreBetween, Distance
      <4> QED
        BY <2>1, <3>1, <4>2, <4>3 DEF RingGood, RingInv
    <3> QED
      BY <3>2, <3>3
  <2>4. CASE DrainFrame
    <3>1. /\ cb /\ cb' /\ ReadIndex # WriteIndex
          /\ in_order' = (in_order /\ ReadIndex \in unread)
          /\ unread' = unread \ {ReadIndex}
          /\ IF cached THEN rp_reg' = After(rp_reg) /\ UNCHANGED snd_rp
                       ELSE snd_rp' = After(snd_rp) /\ UNCHANGED rp_reg
          /\ UNCHANGED <<wp_reg, raced>>
      BY <2>4 DEF DrainFrame
    <3>2. /\ ReadIndex = Reading /\ Reading' = After(Reading) /\ pc # "reset_wp"
      BY <1>0, <2>1, <3>1 DEF ReadIndex, Reading, RingInv, ResetIsQuiet
    <3>3. Reading # snd_wp
      <4>1. CASE cached
        <5>1. Distance(rp_reg, wp_reg) # 0 /\ Distance(rp_reg, wp_reg) <= Distance(rp_reg, snd_wp)
          BY <2>1, <2>2, <3>1, <4>1, DistanceFacts
             DEF ReadIndex, WriteIndex, RingInv, CopiesAreBetween
        <5>2. Distance(rp_reg, snd_wp) # 0
          BY <2>2, <5>1, SlotZero
        <5> QED
          BY <2>2, <3>1, <4>1, <5>2, DistanceFacts DEF Reading
      <4>2. CASE ~cached
        BY <3>1, <3>2, <4>2 DEF ReadIndex, WriteIndex
      <4> QED
        BY <4>1, <4>2
    <3>4. /\ Reading \in Holds(Reading, snd_wp)
          /\ Holds(After(Reading), snd_wp) = Holds(Reading, snd_wp) \ {Reading}
      BY <2>2, <3>3, HoldsTaken
    <3>5. unread = Holds(Reading, snd_wp) \cup (IF pc = "publish" THEN {snd_wp} ELSE {})
      BY <2>1, <3>2 DEF RingInv, RingHolds
    <3>6. in_order'
      BY <2>1, <3>1, <3>2, <3>4, <3>5 DEF RingInv
    <3>7. RingHolds'
      <4>1. Holds(Reading, snd_wp)' = Holds(After(Reading), snd_wp)
        BY <1>0, <3>2 DEF Holds, Distance
      <4> QED
        BY <1>0, <3>1, <3>2, <3>3, <3>4, <3>5, <4>1 DEF RingHolds
    <3>8. Distance(After(Reading), snd_wp) = Distance(Reading, snd_wp) - 1
      BY <2>2, <3>3, DistanceFacts
    <3>9. CASE cached
      <4>1. /\ Reading = rp_reg /\ rp_reg' = After(rp_reg)
            /\ UNCHANGED <<snd_rp, wp_reg, snd_wp, pc, cached>>
            /\ rp_reg # wp_reg
        BY <1>0, <3>1, <3>9 DEF Reading, ReadIndex, WriteIndex
      <4>2. Distance(After(rp_reg), wp_reg) = Distance(rp_reg, wp_reg) - 1
        BY <2>2, <4>1, DistanceFacts
      <4>3. /\ Distance(rp_reg, wp_reg) <= Distance(rp_reg, snd_wp)
            /\ Distance(rp_reg, snd_wp) <= Distance(snd_rp, snd_wp)
        BY <2>1, <3>1, <3>9 DEF RingInv, CopiesAreBetween
      <4>4. /\ Distance(After(rp_reg), wp_reg) <= Distance(After(rp_reg), snd_wp)
            /\ Distance(After(rp_reg), snd_wp) <= Distance(snd_rp, snd_wp)
        BY <2>2, <3>8, <4>1, <4>2, <4>3, SlotZero
      <4>5. CopiesAreBetween'
        BY <4>1, <4>4 DEF CopiesAreBetween, Distance
      <4>6. RoomIsKept'
        BY <2>1, <4>1 DEF RingInv, RoomIsKept, Distance
      <4> QED
        BY <1>0, <3>2, <3>6, <3>7, <4>5, <4>6 DEF RingGood, RingInv, ResetIsQuiet
    <3>10. CASE ~cached
      <4>1. Reading = snd_rp /\ snd_rp' = After(snd_rp) /\ UNCHANGED <<snd_wp, pc, cached>>
        BY <1>0, <3>1, <3>10 DEF Reading
      <4>2. RoomIsKept => Distance(After(snd_rp), snd_wp) < RingFrames - 1 \/ pc \notin {"store", "publish"}
        BY <2>2, <3>8, <4>1, SlotZero DEF RoomIsKept
      <4>3. RoomIsKept'
        BY <2>1, <4>1, <4>2 DEF RingInv, RoomIsKept, Distance
      <4>4. CopiesAreBetween'
        BY <3>10, <4>1 DEF CopiesAreBetween
      <4> QED
        BY <1>0, <3>2, <3>6, <3>7, <4>3, <4>4 DEF RingGood, RingInv, ResetIsQuiet
    <3> QED
      BY <3>9, <3>10
  <2>5. CASE DrainDone
    <3>1. cb /\ ~cb' /\ snd_rp' = ReadIndex /\ UNCHANGED <<unread, in_order, raced>>
      BY <2>5 DEF DrainDone, samples
    <3>2. ReadIndex = Reading /\ Reading' = Reading /\ snd_rp' = Reading /\ pc # "reset_wp"
      BY <2>1, <3>1 DEF ReadIndex, Reading, RingInv, ResetIsQuiet
    <3>3. RingHolds'
      BY <1>0, <2>1, <3>1, <3>2 DEF RingInv, RingHolds, Holds, Distance
    <3>4. RoomIsKept'
      <4>1. pc \in {"store", "publish"} => Distance(Reading, snd_wp) < RingFrames - 1
        BY <2>1, <2>2, SlotZero DEF RingInv, RoomIsKept
      <4> QED
        BY <1>0, <3>2, <4>1 DEF RoomIsKept, Distance
    <3> QED
      BY <1>0, <2>1, <3>1, <3>2, <3>3, <3>4 DEF RingGood, RingInv, CopiesAreBetween, ResetIsQuiet
  <2> QED
    BY <2>3, <2>4, <2>5 DEF AudioThread
<1> QED
  BY <1>1, <1>2

\* The callback takes exactly the samples that were stored, each once and in
\* order, wherever either thread is interrupted, until a reset overlaps it
\* (scsp_render's writer, sound_drain, audio_cb).
THEOREM SamplesAlwaysInOrder == Spec => []SamplesInOrder
<1>1. Init => RingGood
  <2> SUFFICES ASSUME Init PROVE RingInv
    BY DEF RingGood
  <2>1. in_order /\ unread = {} /\ snd_wp = 0 /\ snd_rp = 0 /\ pc = "run" /\ ~cb
    BY DEF Init
  <2>2. Holds(0, 0) = {}
    BY HoldsNothing, SlotZero
  <2> QED
    BY <2>1, <2>2
       DEF RingInv, RingHolds, RoomIsKept, CopiesAreBetween, ResetIsQuiet, Reading
<1>2. Good /\ RingGood /\ [Next]_vars => RingGood'
  <2> SUFFICES ASSUME Good, RingGood, [Next]_vars PROVE RingGood'
    OBVIOUS
  <2> USE DEF Good
  <2>1. ASSUME NEW n \in Quanta, Slice(n)
        PROVE  RingGood'
    BY <2>1, QuietKeepsRing DEF Slice, RunExact
  <2>2. ASSUME NEW next \in {"access", "on", "off", "reset"}, SyncBefore(next)
        PROVE  RingGood'
    BY <2>2, QuietKeepsRing DEF SyncBefore, SoundSync, RunExact
  <2>3. CASE SoundBusAccess \/ SndOn \/ SndOff
    BY <2>3, QuietKeepsRing DEF SoundBusAccess, SndOn, SndOff
  <2>4. CASE UNCHANGED vars
    BY <2>4, StillKeepsRing DEF vars
  <2> QED
    BY <2>1, <2>2, <2>3, <2>4, ResetKeepsRing, WriterKeepsRing, ReaderKeepsRing
       DEF Next, Emulation, Slices
<1>3. Good /\ [Next]_vars => Good'
  BY StepGood
<1>4. RingGood => SamplesInOrder
  BY DEF RingGood, RingInv, SamplesInOrder
<1> QED
  BY InitGood, <1>1, <1>2, <1>3, <1>4, PTL DEF Spec

=============================================================================
