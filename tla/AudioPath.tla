----------------------------- MODULE AudioPath -----------------------------
(***************************************************************************)
(* The sound clock (runner/src/sound.c) and the ring between the emulation *)
(* thread and SDL's audio thread (sound.c, audio_cb of window.c).          *)
(*                                                                         *)
(* The emulation thread owes the cycles of each scheduler slice to the     *)
(* sound CPU and to the SCSP.  It pays them in batches, and at once before *)
(* an SH-2 touches the sound bus.  Each sample goes into a ring that the   *)
(* audio thread drains with no lock.                                       *)
(*                                                                         *)
(* snd_wp and snd_rp are plain variables, so a build may keep them in      *)
(* registers while sound_drain loops: `cached' says whether this one does. *)
(* The writer calls scsp_render between samples and cannot.  The contents  *)
(* of snd_buf are left out: what matters is which slots hold a sample that *)
(* nobody has taken.                                                       *)
(***************************************************************************)
EXTENDS Integers, FiniteSets

CONSTANTS
  RingFrames,                   \* SATURN_AUDIO_RING_FRAMES
  Target, Frames,               \* snd_target(), frames SDL asks for
  Quanta, Batch,                \* cycles of a scheduler slice, of a batch
  PerSample,                    \* SH-2 cycles per SCSP sample
  Num, Den,                     \* sound CPU cycles per SH-2 cycle: M68K_NUM/DEN
  MaxOvershoot                  \* cycles an instruction may run past its budget

ASSUME AudioAssumption ==
  /\ RingFrames \in Nat /\ Target \in 1 .. RingFrames - 1 /\ Frames \in Nat \ {0}
  /\ Quanta \subseteq Nat \ {0} /\ Batch \in Nat /\ PerSample \in Nat \ {0}
  /\ Num \in Nat \ {0} /\ Den \in Nat \ {0} /\ MaxOvershoot \in Nat

VARIABLES
  sound_deferred, scsp_acc,     \* cycles not yet handed over; not yet a sample
  sound_on, halted, m68k_acc,
  due,                          \* m68k_target - sound_cpu.cycles
  snd_wp, snd_rp,
  pc, then,                     \* emulation thread: where it is, what follows
                                \* the samples it is rendering
  cached,                       \* the build keeps the loop's indices in registers
  cb, rp_reg, wp_reg, left,     \* audio thread: in a callback, its registers,
  primed,                       \* frames it still wants
  unread, in_order,             \* history: slots stored and not taken; every
                                \* slot used in its turn so far
  raced,                        \* history: a reset overlapped a callback
  owed, owed_cpu                \* history: cycles elapsed and not rendered; not
                                \* run by the sound CPU, in 1/Den of its cycles

clock == <<sound_deferred, scsp_acc, owed>>
cpu == <<sound_on, halted, m68k_acc, due, owed_cpu>>
callback == <<cb, rp_reg, wp_reg, left, primed>>
samples == <<unread, in_order>>
ring == <<snd_wp, snd_rp, samples>>
vars == <<clock, cpu, callback, ring, pc, then, cached, raced>>

After(i) == (i + 1) % RingFrames
Fill == (snd_wp + RingFrames - snd_rp) % RingFrames

Init ==
  /\ sound_deferred = 0 /\ scsp_acc = 0 /\ owed = 0
  /\ sound_on = FALSE /\ halted = FALSE /\ m68k_acc = 0 /\ due = 0 /\ owed_cpu = 0
  /\ snd_wp = 0 /\ snd_rp = 0 /\ unread = {} /\ in_order = TRUE
  /\ pc = "run" /\ then = "run"
  /\ cached \in BOOLEAN
  /\ cb = FALSE /\ rp_reg = 0 /\ wp_reg = 0 /\ left = 0 /\ primed = FALSE
  /\ raced = FALSE

----------------------------------------------------------------------------
(* The sound clock. *)

\* Mutant: SATURN_M68KOLD, which never pays an overshoot back.
RunSoundCpuRaw(cycles, debt) ==
  IF ~sound_on \/ halted THEN owed_cpu' = debt /\ UNCHANGED <<halted, m68k_acc, due>>
  ELSE LET acc == m68k_acc + cycles * Num
           budget == acc \div Den
       IN /\ m68k_acc' = acc % Den
          /\ due' = 0
          /\ \E over \in 0 .. MaxOvershoot :
               owed_cpu' = IF budget > 0 THEN debt - Den * (budget + over) ELSE debt
          /\ halted' \in {FALSE, budget > 0}

\* The sound CPU runs up to a target that only grows, so an instruction that
\* ran past it is paid back later; an unknown opcode halts the CPU.
RunSoundCpu(cycles, debt) ==
  IF ~sound_on \/ halted THEN owed_cpu' = debt /\ UNCHANGED <<halted, m68k_acc, due>>
  ELSE LET acc == m68k_acc + cycles * Num
           budget == due + acc \div Den
       IN /\ m68k_acc' = acc % Den
          /\ IF budget > 0
             THEN /\ \E over \in 0 .. MaxOvershoot :
                       due' = -over /\ owed_cpu' = debt - Den * (budget + over)
                  /\ halted' \in BOOLEAN
             ELSE due' = budget /\ owed_cpu' = debt /\ UNCHANGED halted

\* sound_run_exact: the sound CPU first, then the samples the span makes.
RunExact(cycles, debt, next) ==
  /\ RunSoundCpu(cycles, debt)
  /\ sound_deferred' = 0
  /\ scsp_acc' = scsp_acc + cycles
  /\ pc' = "render" /\ then' = next

\* sound_run: a slice is added up until it makes a batch.
Slice(n) ==
  LET debt == IF sound_on /\ ~halted THEN owed_cpu + Num * n ELSE owed_cpu IN
  /\ pc = "run"
  /\ owed' = owed + n
  /\ IF sound_deferred + n < Batch
     THEN /\ sound_deferred' = sound_deferred + n
          /\ owed_cpu' = debt
          /\ UNCHANGED <<scsp_acc, halted, m68k_acc, due, pc, then>>
     ELSE RunExact(sound_deferred + n, debt, "run")
  /\ UNCHANGED <<sound_on, callback, ring, cached, raced>>

\* sound_sync, before anything that sees or changes the sound domain.
SoundSync(next) ==
  /\ IF sound_deferred = 0
     THEN pc' = next /\ UNCHANGED <<sound_deferred, scsp_acc, halted, m68k_acc, due,
                                    owed_cpu, then>>
     ELSE RunExact(sound_deferred, owed_cpu, next)
  /\ UNCHANGED <<sound_on, owed, callback, ring, cached, raced>>

\* An SH-2 access to the sound bus, SNDON, SNDOFF and a clock change.
SyncBefore(next) == pc = "run" /\ SoundSync(next)

SoundBusAccess ==
  /\ pc = "access"
  /\ pc' = "run"
  /\ UNCHANGED <<clock, cpu, callback, ring, then, cached, raced>>

SndOn ==
  /\ pc = "on"
  /\ IF sound_on THEN UNCHANGED cpu
     ELSE /\ sound_on' = TRUE /\ halted' = FALSE
          /\ m68k_acc' = 0 /\ due' = 0 /\ owed_cpu' = 0
  /\ pc' = "run"
  /\ UNCHANGED <<clock, callback, ring, then, cached, raced>>

SndOff ==
  /\ pc = "off"
  /\ sound_on' = FALSE
  /\ owed_cpu' = 0
  /\ pc' = "run"
  /\ UNCHANGED <<clock, halted, m68k_acc, due, callback, ring, then,
                 cached, raced>>

\* sound_clock_change_reset: two stores empty the ring, a new stream begins.
ClockChange ==
  /\ pc = "reset"
  /\ sound_deferred' = 0 /\ scsp_acc' = 0 /\ owed' = 0
  /\ sound_on' = FALSE /\ halted' = FALSE
  /\ m68k_acc' = 0 /\ due' = 0 /\ owed_cpu' = 0
  /\ snd_rp' = 0
  /\ unread' = {} /\ in_order' = TRUE
  /\ raced' = cb
  /\ pc' = "reset_wp"
  /\ UNCHANGED <<snd_wp, callback, then, cached>>

ClockChangeWp ==
  /\ pc = "reset_wp"
  /\ snd_wp' = 0
  /\ pc' = "run"
  /\ UNCHANGED <<clock, cpu, callback, snd_rp, samples, then, cached, raced>>
----------------------------------------------------------------------------
(* The writer: one sample at a time, dropped when the ring is full. *)

\* Mutant: a full ring is overwritten.
RoomAlways == TRUE

Room == After(snd_wp) # snd_rp

Render ==
  /\ pc = "render" /\ scsp_acc >= PerSample
  /\ scsp_acc' = scsp_acc - PerSample /\ owed' = owed - PerSample
  /\ pc' = IF Room THEN "store" ELSE "render"
  /\ UNCHANGED <<sound_deferred, cpu, callback, ring, then, cached, raced>>

RenderDone ==
  /\ pc = "render" /\ scsp_acc < PerSample
  /\ pc' = then /\ then' = "run"
  /\ UNCHANGED <<clock, cpu, callback, ring, cached, raced>>

StoreSample ==
  /\ pc = "store"
  /\ in_order' = (in_order /\ snd_wp \notin unread)
  /\ unread' = unread \cup {snd_wp}
  /\ pc' = "publish"
  /\ UNCHANGED <<clock, cpu, callback, snd_wp, snd_rp, then, cached, raced>>

PublishSample ==
  /\ pc = "publish"
  /\ snd_wp' = After(snd_wp)
  /\ pc' = "render"
  /\ UNCHANGED <<clock, cpu, callback, snd_rp, samples, then, cached, raced>>
----------------------------------------------------------------------------
(* The reader: audio_cb and the loop of sound_drain. *)

\* Mutant: the lead must be exceeded, not reached.
LeadExceeded == Fill > Target

LeadReached == Fill >= Target

\* Until the ring holds the lead the callback plays silence and takes nothing.
AudioCb ==
  /\ ~cb
  /\ primed \/ LeadReached
  /\ cb' = TRUE /\ primed' = TRUE
  /\ rp_reg' = (IF cached THEN snd_rp ELSE 0) /\ wp_reg' = (IF cached THEN snd_wp ELSE 0)
  /\ left' = Frames
  /\ raced' = (raced \/ pc = "reset_wp")
  /\ UNCHANGED <<clock, cpu, ring, pc, then, cached>>

ReadIndex == IF cached THEN rp_reg ELSE snd_rp
WriteIndex == IF cached THEN wp_reg ELSE snd_wp

DrainFrame ==
  /\ cb /\ left > 0 /\ ReadIndex # WriteIndex
  /\ in_order' = (in_order /\ ReadIndex \in unread)
  /\ unread' = unread \ {ReadIndex}
  /\ IF cached THEN rp_reg' = After(rp_reg) /\ UNCHANGED snd_rp
               ELSE snd_rp' = After(snd_rp) /\ UNCHANGED rp_reg
  /\ left' = left - 1
  /\ UNCHANGED <<clock, cpu, cb, wp_reg, primed, snd_wp, pc, then, cached, raced>>

\* A callback that comes up short plays a ramp and waits for the lead again.
DrainDone ==
  /\ cb /\ (left = 0 \/ ReadIndex = WriteIndex)
  /\ cb' = FALSE /\ primed' = (left = 0)
  /\ snd_rp' = ReadIndex
  /\ rp_reg' = 0 /\ wp_reg' = 0 /\ left' = 0
  /\ UNCHANGED <<clock, cpu, snd_wp, samples, pc, then, cached, raced>>
----------------------------------------------------------------------------
Reset == ClockChange \/ ClockChangeWp
Writer == Render \/ RenderDone \/ StoreSample \/ PublishSample
Slices == \E n \in Quanta : Slice(n)
Emulation ==
  \/ Slices \/ Writer
  \/ \E next \in {"access", "on", "off", "reset"} : SyncBefore(next)
  \/ SoundBusAccess \/ SndOn \/ SndOff \/ Reset
AudioThread == AudioCb \/ DrainFrame \/ DrainDone

Next == Emulation \/ AudioThread

Spec == Init /\ [][Next]_vars

\* The emulation thread does not stop and calls sound_run once per slice
\* whatever else the guest does (strong: an access comes between slices); SDL
\* keeps calling back.
FairSpec == Spec /\ WF_vars(Emulation) /\ SF_vars(Slices) /\ WF_vars(AudioThread)
----------------------------------------------------------------------------
(* Properties. *)

Slots == 0 .. RingFrames - 1
TypeOK ==
  /\ sound_deferred \in Nat /\ scsp_acc \in Nat /\ owed \in Nat
  /\ sound_on \in BOOLEAN /\ halted \in BOOLEAN
  /\ m68k_acc \in 0 .. Den - 1 /\ due \in Int /\ owed_cpu \in Int
  /\ snd_wp \in Slots /\ snd_rp \in Slots /\ unread \subseteq Slots
  /\ pc \in {"run", "render", "store", "publish", "access", "on", "off", "reset",
             "reset_wp"}
  /\ then \in {"run", "access", "on", "off", "reset"}
  /\ cached \in BOOLEAN /\ cb \in BOOLEAN /\ primed \in BOOLEAN
  /\ rp_reg \in Slots /\ wp_reg \in Slots /\ left \in 0 .. Frames
  /\ in_order \in BOOLEAN /\ raced \in BOOLEAN

\* The callback takes exactly the samples that were stored, each once and in
\* order: no slot is read before its sample is written, read twice or
\* overwritten unread, wherever either thread is interrupted and whether or
\* not the build keeps the indices in registers.  A clock change that overlaps
\* a callback is excused until the next one (see FillIsSamples).
SamplesInOrder == in_order \/ raced

\* "A command, upload or acknowledgement observes exactly the sound state due
\* at that machine-clock boundary" (sound_run): at an access every sample that
\* is due has been rendered, and the sound CPU is less than one of its cycles
\* behind and no more than one instruction ahead, however slices were batched
\* and instructions overran before it.
AccessSeesDueState ==
  pc = "access" =>
    /\ owed < PerSample
    /\ sound_on /\ ~halted => owed_cpu < Den /\ owed_cpu >= -Den * MaxOvershoot

\* Silence ends: after an underrun or a clock change the ring fills up to the
\* lead again and the callback resumes, unless clock changes never cease.
PrimesAgain == (<>[][~Reset]_vars) => []<>primed

----------------------------------------------------------------------------
(* What comments of the code say and the code does not do. *)

\* "this only ever moves the read pointer -- the writer only ever moves the
\* write pointer" (sound_drain): with each index moved by one thread alone, the
\* ring between callbacks holds as many samples as its indices say.
FillIsSamples == ~cb /\ pc = "run" => Fill = Cardinality(unread)
=============================================================================
