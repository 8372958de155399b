# A verification of SaturnRecomp

SaturnRecomp runs Sega Saturn games on a PC: it interprets the two SH-2s, and
emulates in C every other chip a game talks to. This directory holds TLA+ models
of the parts whose correctness lies in the *order* of things (register handshakes,
buffers that two parties share, clocks that several parties account for) and of the
algorithms that are written twice or take short cuts (the interpreter, the rasteriser, the
compositor), the TLC configurations that check them, and proofs checked by TLAPS. Paths below are relative to
`src/`; a bare `*.c` is in `runner/src/`, a bare `*.h` in `runner/include/`.

Contents:
[1 The system](#1-the-system) ·
[2 Modules](#2-modules-and-how-they-correspond-to-the-code) ·
[3 Runs](#3-runs) ·
[4 Bounds](#4-bounds-and-why-they-are-enough) ·
[5 Fairness](#5-fairness) ·
[6 Proofs](#6-proofs) ·
[7 Disagreements](#7-where-the-code-and-its-comments-disagree) ·
[8 Limits](#8-what-is-not-modelled) ·
[9 Plan](#9-plan)

Checking everything here:

    tlc -workers 2 -config CdDrive.cfg MCCdDrive      # any row of the runs table
    tlapm CdDriveProofs.tla                           # any *Proofs module

## 1 The system

One emulation thread runs `saturn_run_field` (bus.c) once per video field. It cuts
the field into scanlines and slices of at most 128 cycles; in each slice it runs the
master SH-2, then the slave, then lets every other device catch up to the new clock
(SMPC, free-running timers, SCU DSP, VDP1, sound), and raises the interrupts that
fall due. Devices are C structures that the CPUs reach through `bus.c`. In the
windowed build a worker thread runs that function while the main thread presents
the previous field, and SDL's audio thread drains samples. There is no other
concurrency: the CD block has no thread, it is stepped once per field and looked at
on every register access.

| Component | State | Operations | Talks to | Modelled |
|---|---|---|---|---|
| CD block, drive (`cdblock.c`) | status, head `fad`, play range, repeat counters, deadlines `drive_next` and `next_cy`, `loop_start` | PlayDisc, SeekDisc, ReadFile, AbortFile, Initialize..., `cdb_tick` with `cdda_tick` and the data streamer | disc reader; partitions; CD-DA ring of the SCSP; HIRQ | `CdDrive` |
| CD block, buffer (`cdblock.c`) | 24 partitions of slots (data, frame address, count), transfer FIFO, selected length, calculated size | GetSectorData, GetThenDelete, Delete, ResetSelector, CalculateActualSize, SetSectorLength, EndDataTransfer, DTR reads; the drive's store | drive; host through DTR | `CdBuffer` |
| CD block, selector (`cdblock.c`) | 24 filters, `cd_conn` | SetFilter*, SetDeviceConnection, ResetSelector, GetFilterRange; `route_sector` | drive | `CdSelector` |
| CD block, host interface (`cdblock.c`, `bus.c`) | CR1..CR4, staged packet, HIRQ, HIRQMASK, report timer | register reads and writes, periodic report, `cdb_update_interrupts` | SH-2s; SCU A-bus interrupt | `CdHost` |
| CD block, file system | cached directory | ChangeDirectory, ReadDirectory, GetFileInfo | disc reader | no |
| Sound clock and ring (`sound.c`, `window.c`) | deferred cycles, 68000 target, sample remainder, ring indices; callback's lead | `sound_run`, `sound_sync`, SNDON, SNDOFF, clock change; `sound_drain`, `audio_cb` | scheduler; SCSP; SDL thread | `AudioPath` |
| Scheduler (`bus.c`) | clock, scanline, dot position, boundary latch, TVSTAT | `saturn_run_line`, `saturn_run_field`, clock change | everything | `Machine` |
| SCU (`bus.c`) | pending and mask, DMA channels, timers | raise, accept, trigger, copy | everything | `Machine`, in part |
| SCU DSP (`scu_dsp.c`) | program, four banks, accumulator, counters | step, DMA, host ports | SH-2s; work RAM | `ScuDsp` |
| FRT, DMAC, divider (`bus.c`) | counter, compare, capture and flags; two channels; quotient and remainder | advance, register access, doorbell, transfer, divide | both SH-2s | `OnChip` |
| VDP1 (`vdp1.c`, `bus.c`) | two frame buffers, draw context, latches | begin, tick, swap, erase, registers; quads, lines, clipping | scheduler; SCU; renderer | `Vdp1`, `Vdp1Draw` |
| VDP2 (`vdp2.c`) | registers, VRAM, CRAM | render a line | window | `Vdp2Dot`, `Vdp2Screen` |
| SMPC (`smpc.c`) | command in flight, INTBACK phase, settings, pad | command, tick, persist, direct port | SH-2s; slave; sound; disk file | `Smpc`, `Pad` |
| SH-2 and cache (`sh2_interp.c`, `sh2_cache.h`) | registers, cache lines, fetch shortcut | step, run; read, write, purge | bus | `Sh2Alu`, `Sh2Core`, `Sh2Cache` |
| Window (`window.c`, `frame_pacing.h`, `geometry_interp.h`) | snapshot, semaphores, deadlines | field worker, present, pace | emulation; GPU; SDL | `Pipeline` |
| Vulkan renderer (`vulkan_renderer.c`) | operation queue, framebuffers, material, history | queue, submit, replay | window; VDP1 | `Renderer` |
| SCSP and its DSP, 68000 | slots, timers, effects memory, processor state | render a sample, registers, step | ring; sound RAM | no |
| Overlay and settings; boot and BIOS services; diagnostics; recompiler CLI; launcher; tests; vendored code | | | | no |

What makes each hard, and what makes it right:

* **Drive.** One head, two loops that move it in the same tick, and a host that may
  send any command between two ticks. Sinks refuse: the CD-DA ring is full, a
  partition is full, a filter swallows the sector, the disc does not read. Right means:
  no sector of a range is skipped or delivered twice; only one loop owns the head; the
  ring is not lapped; PEND comes once per play and never while the drive runs; a play that
  comes to its end, or an audio play that fails, says so, and a data play that fails, which says nothing,
  can be taken up again where it stopped; a finite play ends.
* **Buffer.** A chunked reader deletes from the front of a partition while the drive
  appends to its end; sector, TOC and directory replies share one register. Right
  means: partitions are queues, a transfer is a copy, the address array follows the
  data array, EHST ends sector transfers only, a quoted size stays good.
* **Selector.** A bank programmed command by command while sectors stream; outputs
  that form cycles. Right means: the bounded walk finds what an unbounded one would;
  a command moves only sectors its filter sees; recycling a partition moves none.
* **Host interface.** A report lands *inside* a register read; the CPUs and their
  interrupt handlers share the registers. Right means: a reply is not overwritten
  while it is collected, no enabled cause is forgotten, a polling host gets news.
* **Sound clock and ring.** Two threads and no lock; cycles paid late, in batches and
  with overshoot. Right means: first in first out at every interleaving, an access
  sees the state due at its clock, silence ends.
* **Scheduler.** A call ends in the middle of a line, at V-Blank-IN, and the next one
  resumes there; slices come in any length; a CPU derives H-Blank from another counter
  than the one that raises it, and may overwrite V-Blank. Right means: every edge
  once, in order, at its clock; the registers agree with the interrupts; a line is counted
  once; a sleeping master is woken by the end of a clock change.
* **VDP1.** Software may ask for an erase, a swap or a list at any moment, and a list may
  still be drawing when the buffers change roles. Right means: a finished picture is
  displayed for a field before anything erases it, an automatic list starts on an erased
  buffer, a draw end is announced for every list that ended and for no other, and every walk stops.
* **Window and renderer.** A second thread emulates the next field while this one draws
  pictures of the last, out of a queue and geometry that the second thread is filling. Right
  means: a picture is of one field and of one version of memory, a replay leaves no
  trace, no field is lost, neither thread waits for ever.
* **SMPC.** A command is executed some slices after it is written, from input registers
  that stay writable; a report comes in two parts; the slave is let go before its program is
  there; a file is cut and then written. Right means: the program that polls is served,
  what is owed is announced, a released slave is reset and starts, settings survive.
* **Processors.** Every common instruction exists twice, wait loops are folded, the timer
  jumps over quiet spans, the fetcher keeps a pointer into a cache line, one DSP word drives
  three buses. Right means: the short way ends where the long way ends.
* **Pictures.** Counters that wrap, quotients kept as running remainders, masks built
  window by window, early ways out. Right means: no gap and no texel out of place, a
  pattern name found where the tables put it, a dot composed of the layers that rank first.

`PROJECT.json` lists the hazards these come from, each at its line of source.

## 2 Modules and how they correspond to the code

| Module | Role |
|---|---|
| `CdDrive`, `MCCdDrive`, `CdDriveProofs` | the drive and its tick |
| `SectorStore` | what the buffer promises, without memory layout |
| `CdBuffer`, `MCCdBuffer` | the buffer, and that it implements `SectorStore` |
| `CdSelector`, `MCCdSelector` | the filter bank and routing |
| `CdHost`, `MCCdHost` | registers, report, interrupt |
| `CdBlockProofs` | what is proved of `CdBuffer`, `CdSelector` and `CdHost` |
| `AudioPath`, `MCAudioPath`, `AudioPathProofs` | sound clock, sample ring, audio callback |
| `Raster` | what the scheduler promises about the beam |
| `Machine`, `MCMachine`, `MachineProofs` | scheduler, SCU timers and DMA starts, clock change, and that it implements `Raster` |
| `Vdp1`, `MCVdp1`, `Vdp1Proofs` | VDP1's buffers, registers and walk of a list |
| `Smpc`, `Pad`, `MCSmpc`, `SmpcProofs` | the system manager with the slave's release; the pad's two paths |
| `Renderer` | the renderer's state as operators on a record |
| `Pipeline`, `MCPipeline`, `PipelineProofs` | the window's two threads over `Renderer` |
| `Sh2Alu`, `Sh2Core`, `ScuDsp` | operators: instructions, control flow and both engines, DSP |
| `Sh2Cache`, `OnChip`, `Sh2Proofs` | the instruction cache, and the timer, divider and DMA controller beside the core; what is proved of both |
| `Vdp1Draw`, `Vdp2Screen`, `Vdp2Dot` | operators: rasteriser, what VDP2 finds at a dot, what it makes of it |
| `MCProcessors`, `MCPictures`, `MCAlgorithms` | reference definitions and inputs for the operators, starts for the cache and the timer; `MCAlgorithms` puts both in one run |

Variables carry the names of the structure members they model. A variable whose
comment says *history* is not in the code: it records what a property needs (which
sectors a pass consumed, which reply must be readable, which slots are unread) and no
guard reads it. An operator whose comment starts with *Mutant* is a plausible bug in
the operator it precedes; replacing the one by the other breaks the property that
`PROJECT.json` pairs it with, which is how each property is known to have teeth.

**`CdDrive`.** Commands are actions of their own, enabled at `pc = "cpu"`, and answer
at once as `cdb_execute` does. A tick is cut at each sector: `FieldPasses` starts
it, `Cdda*` is `cdda_tick`, `Gate*` the early returns and the deadline arithmetic of
`cdb_tick`, `Data*` the streamer loop with its four exits. The host cannot run in
between, so the cuts only name the steps for properties. Clocks are kept relative
to the current one: `drive_next - clk` in the code is `drive_next` here. A
partition is its count, the bank is a function `route`, `Owed` is the arithmetic that
turns a late deadline into sectors. `part_sectors[cd_conn]` with
`cd_conn = CD_DISCONNECTED` reads outside the array, so the model lets that read have
either outcome (`PartFull`). The tick is the one of the asynchronous drive, which is the default
(`asyncdrv`); what `SATURN_SYNCDRIVE` restores is not modelled. The ring is counted in whole sectors:
`PlayRing` is `scsp_render` taking one, once `ReadySectors` of them were in hand since the last
underrun (`cdda_ready`), and `ClockChangeReset` is `scsp_clock_reset` emptying it.

**`CdBuffer`.** A slot holds the sector's frame address and stale contents stay
behind after deletion. `Compact` is the pair of `memmove`s, `First` and `HowMany`
the clipping of CR2 and CR4, `RawServed` the loop that re-reads raw sectors until one
fails or the FIFO is full, `ReadDtr` the data register with its EHST. The drive is the
action `StoreSector`, enabled as in `cdb_tick` when there is room.

**`CdSelector`.** `FilterTest` is `filter_test`; `Chain` and `PassingHops` are
`route_sector`'s walk of at most `CD_NUM_FILTERS` hops. Sectors are what a filter can
see of them. Every setting command is an action.

**`CdHost`.** The four response registers are always written together, so `cr` is
the message they hold; a command packet is one value staged by CR1 and executed
by the write of CR4. `Periodic` is `cdb_periodic_maybe`, a part of every read
action because the code runs it before the value is returned. `WriteHirq`,
`WriteHirqMask` and `HirqSet` all end with `cdb_update_interrupts`, as in the code.
`Clock` lets `master.cycles` grow between accesses. Its specification is `HostInit`, `HostNext`
and `HostSpec` over the variables `interface`, so that one module can hold the proofs of both
halves of the block's host side.

**`AudioPath`.** `Slice` is `sound_run`, `SoundSync` is `sound_sync`, `RunExact` and
`RunSoundCpu` are `sound_run_exact` with its growing target. Rendering is one step
per sample, with the test for room, the store and the publication apart, because the
audio thread can run between any two of them; the callback is one step per frame.
The indices are plain variables shared by two threads. `cached` therefore lets the
reader's loop either re-read them or keep them in registers for the whole loop, the
two things a compiler may make of it; which of the two is chosen once, in the
initial state.

**`Machine`.** There is one action for each part of `saturn_run_field` and
`saturn_run_line`: the two boundaries, the timers at the start of a line, the run of a
slice, the edges after it, the end of the line. `pc` is the place in these loops, and `pos`,
`hb` and `field_change` are locals of a call, reset when they go out of scope. Only
where lines begin matters of the clock, so `clk` is kept modulo a line. While
`pc = "cpu"` CPU code runs: any sequence of register writes and accepted interrupts;
its time passes at the end of the slice, in `RunSlice`, together with SMPC's tick.
`Raise` is `scu_raise` with the transfers that `scu_dma_trigger` starts. The value 1 of
`pending_ckchg` stands for the command while SMPC holds it as well. `Nmi` may enter a
game every time where the code does so once. The data of a transfer, the interrupts of the
other devices, SR.I and the stand-in for a stopped sound CPU are left out.
In `Raster` a line is a list of edges with their places, and the beam may not pass the
next one. `Announced` maps the latch, `hb`, `field_change` and `pc` to the number of
edges announced; a fault ends the promise, since a halted machine leaves a line where it is.

**`Vdp1`.** A command of a list is one step, as `vdp1_tick` executes one when the
last one's cost is paid. Buffers go by their roles (`"draw"`, `"display"`), which a swap
exchanges in place of the index `fb_draw`; the walk keeps the buffer it captured, except
under the GPU renderer (`Target`). `End` is the END of a list, `Runaway` the guard that
stops a walk which never meets one (`AtEnd` tells which is next). What was drawn is one mark per buffer: nothing, part
of a list, a whole list, or a whole list that a field has displayed. `FieldChange` is
`vdp1_field_change` in its order: erase what was asked before, swap, begin. Registers
are written at any moment, V-Blank and list walk included.

**`Vdp1Draw`, `Vdp2Screen`, `Vdp2Dot`.** The code's arithmetic as functions, the
hardware's fixed widths as parameters. `Line`, `LineStep`, `Edge` and `EdgeStep` walk as
`line_setup`, `line_step`, `edge_setup` and `edge_step` do, the accumulators included;
`Columns` to `WindowMask` are the windows, `NameAddr` to `Beyond` the way from a dot to a
character, `Push` the ranking of a dot's layers and `Composed` all that is made of it. A colour is one
channel, since the code treats the three alike.

**`Sh2Alu`, `Sh2Core`, `Sh2Cache`, `OnChip`, `ScuDsp`.** `Exec` is `exec_one`,
`FastSimple` its inline copy, `Step` is `sh2_step`, `RunOnce` a turn of `sh2_run` with its
interrupt gate and folded loops. A byte has `B` bits and every size follows from it, so
that whole registers can be enumerated; the formulas name no width of their own. The DSP's
`OneInstr` takes the three buses in the order of the code.

`Sh2Cache` is a specification of one core's cache and the memory behind it: a fetch (`Fetch` is
`cache_ifetch` behind `ifetch`'s gate, with the shortcut to the line it is in), a store of this
core and one of anybody else, a purge, the two arrays, and CCR. A line is its set and tag and
holds one value, since a fill and a hit treat its sixteen bytes alike. The history `age` counts
for each way the others touched since; the six bits of the code are compared with it.

`OnChip` is a specification too. The timer lives on from step to step: `Advance` is
`frt_advance` with its jump (`FrtTick` is one count of it), `Ring` the other core's doorbell,
and the register accesses are the cases of `frt_write8`. `base` and `since` remember the timer
at the last access and the clocks it was given after that. A division and a transfer are done when the write that starts them is, so
`Divu32`, `Divu64` and `DmacRun` are operators, and `given` is what they were last given.

**`Smpc`, `Pad`.** A slice is three steps, the master, the slave and `smpc_tick`, in the
order of bus.c. `Ask` is a program that polls the busy flag, writes its inputs, the flag and a
command; `WriteUnpolled` is a write of COMREG by one that does not poll: at any moment, by either CPU,
with nothing pending, an INTBACK or anything else, and with the flag set or not. `Command` is what
`smpc_command` makes of a write: the command starts, or it is dropped because another is in flight. `pending.silent`
remembers a command written without the flag, `host.behind` a program whose own write was dropped. `Save` is the file being cut and
written, with the process possibly ended in between; `Boot` reads it back.
`RetrySlave` is the re-arming of a slave that died on its first instruction. `Pad` is the
controller seen from the INTBACK report and from the direct port. A bit is the control behind it, or
a constant where the code fixes it, so `Report` and `Stream` keep what differs between the two: the report
sends the right trigger before the left and closes its second byte of buttons with three ones, the
port the left before the right and closes it with the left trigger and two zeros.

**`Renderer`, `Pipeline`.** `Queue`, `Submit`, `Pair`, `Safe` and `Replay` are
`queue_vdp1`, the submission of a field, `saturn_vk_interpolation_begin`, its test of what
may be drawn again, and `saturn_vk_interpolation_render`. A framebuffer is the list of
operations drawn since its last full erase, each with the version of VDP1's memory that it
was drawn from, so two memories in one picture show. `Pipeline` has one action for each
part of the main loop and four for the worker, whose field is cut at the frame change,
where the renderer sees it. The history variables `truth` and `seen` record every operation emulated and
the last field rendered. What a field does is a plan of the set `PlanSet`: an erase, full or partial, or none, a
swap or none, and a list or a CPU write or neither.

**`MCProcessors`, `MCPictures`.** A state is one question: a kind and its arguments. Most
are asked and answered at once. The cache and the units beside the core are state machines: from
the reset, or from a state that long use leads to (a full cache, a timer about to wrap), the run
takes a bounded number of steps of `CacheNext` or of `OnChipNext`. The reference beside each operator is written another way: a
division instead of a running remainder, instruction by instruction instead of a folded
loop, a set of pixels instead of a walk.

The CD modules meet at interfaces each abstracts in the same way: `CdDrive`'s `route`
is `CdSelector`'s `Route`; its `part_sectors` and `Drain` are the counts and the
removals of `CdBuffer`; its `raised` and that of `CdBuffer` are the causes of
`CdHost`'s `DriveTick` and `WriteCR4`; its `PlayRing` is the consumption that
`AudioPath`'s rendering causes, and its `ClockChangeReset` comes with `AudioPath`'s.

## 3 Runs

Passing runs.

| Run | Properties | What it shows |
|---|---|---|
| `cddrive` | `HeadFollowsSectors` `StopIsAnnounced` `FullPartitionHolds` `PlayEnds` | An audio play with a repeat, a data play and a file read, against a host that drains, seeks, aborts, pauses, resumes, resets and changes the clock between any two fields, a ring and partitions that are often full, a sector routed elsewhere, filtered or unreadable; under fair ticks, mixing and draining a finite play ends after the last command |
| `cdbuffer` | `DataMatchesFad` `Implements` `QuotedSizeIsServed` | Cooked and raw transfers, deletions anywhere, replies in between, a drive that keeps storing: the arrays are queues and the transfers copies |
| `cdselector` | `RouteIsFirstPass` `PristineRouting` | Any order of programming, with chains and cycles of fail outputs, while two channels stream |
| `cdhost` | `AnswerStays` `NoLostInterrupt` `PollingIsAnswered` | Any interleaving of register accesses, reports, ticks and interrupts |
| `machine` | `Implements` `TvstatTracksBeam` `ClockChangeCompletes` | Any register accesses, clock changes and faults between slices, the shortest and the longest slice: the scheduler is a raster across calls, the registers agree with it, no wake-up is lost |
| `audio` | `SamplesInOrder` `AccessSeesDueState` `PrimesAgain` | Every interleaving of the emulation thread and the audio callback, both compilations of the reader's loop, clock changes at any time |
| `vdp1` | `WholePictureIsShown` `AutoDrawsOnErased` `DrawEndIsOwed` `WalkEnds` | A list that ends and one that never does, rewritten and restarted at any command, registers written in any field, both renderers; the walk comes to rest under a fair tick and beam |
| `smpc` | `RequestIsServed` `OwedIsAnnounced` `ReleaseIsAReset` `SettingsSurvive` `PadPathsAgree` `SlaveStartsEventually` | Programs that poll and programs that write a command at any moment, every command, the process ended at any step and started again; both pads read in any order |
| `pipeline` | `PictureIsOneField` `FramebufferIsCanonical` `FieldsInStep` `LoopComesRound` | Every interleaving of the main loop and the field worker, with pauses, steps, resizes, interpolation switched on and off, failures of Vulkan and exits |
| `algorithms` | `QuadIsSolid` `DrawingIsExact` `LayoutIsRead` `DotIsComposed` `EnginesAgree` `OnChipIsExact` `CacheIsPrivateLru` `DspRunsAsWritten` | The operators against their references over all inputs of small words; the cache, the timer, the divider and the DMA controller in each order of their steps |

Violation runs, one property each; section 7 says what they show: `cddrive_cdda_is_audio`
and `processors_doorbell`.

Deadlock is checked, except in `pipeline`, whose program ends, and in the runs of questions
(`algorithms`, `processors_doorbell`), where an answered question has no successor.

Beside the runs there are configurations that ask more:

* `CdDriveWide.cfg` (`MCCdDrive`), the drive with two sectors per tick, a field that is not
  a whole number of sectors and a longer disc, without fairness. It passes, and adds
  `OneConsumer`, `RingNotLapped`, `FullRingIsPlayed` and `PendEndsPlay` (all also proved).
* `CdDriveRepeat.cfg`, `CdBufferHandedOver.cfg`, `CdHostOutstanding.cfg` and
  `ProcessorsEngines.cfg` each name a property the code violates (section 7).

Modules hold further properties which no configuration names; to check one, add it to the
configuration given. These hold: `TypeOK` (any), `FrameEndsAtBlanking` and `Timer0OnItsLine`
(`Machine.cfg`; proved), `EhstEndsSectors` (`CdBuffer.cfg`), `ProgrammingIsLocal` and
`RecyclingKeepsRoutes` (`CdSelector.cfg`; proved). These fail, and section 7
has their story: `FillIsSamples` (`AudioPath.cfg`), `ArmedRunsEveryField` (`Machine.cfg`) and `DisplayedIsStill`
(`Vdp1.cfg`), each with `Spec` in place of the fair specification, `OneSectorPerPeriod` and `ParkedHeadStays` (`CdDriveRepeat.cfg`),
`StreamTargetInRange` (`CdDrive.cfg` with 255 in `Conns`), `EveryStopIsTold` and `DataEndsWithoutPend`
(`CdDrive.cfg`, with `Spec`), `ServesSelectedLength` (`CdBufferHandedOver.cfg` with 4 in `GetLengths`),
`RangeReadsBack` (`CdSelector.cfg`), `OddHeldInProgressive` and `VBlankMaintained` (`Machine.cfg`),
`SetUpForGood`, `PollingIsEnough` and `ReportsAreOne` (`Smpc.cfg`), `WindowsHideInside`, `EarlyOutIsFinal` and `MsbIsOfTheColour`
(`MCPictures`, with the constants `MCAlgorithms` gives it), `SkipProvesNothing`, `ZeroDivideIsThreeSteps` and `EnginesAgreeAnywhere` (`ProcessorsEngines.cfg`).

## 4 Bounds and why they are enough

* **Drive.** A data track of three sectors and two short audio tracks; two partitions of
  one slot, a ring of three sectors, which one short of that is full and is played from two on. Partitions are
  full after one sector and the ring after two, so refusal, the exact end of a range on a full sink, and a
  full sink at the first sector of a pass all occur. One sector is routed to the second
  partition, one nowhere, and one does not read. A tick owes one sector: that is what a liveness
  run of this size affords; `CdDriveWide.cfg` has ticks that owe one or two, with lateness
  (`MaxCredit`) of one cycle. The proofs cover all discs, sizes, requests and speeds.
* **Buffer.** One partition of three slots, the fewest in which a deletion can have
  something before and something behind it; two interchangeable frame addresses
  (symmetry: nothing compares them); offsets and counts of 0 and one positive value, with
  count 0 meaning one sector as in the code. Words per sector are 1 and 2 so that a full FIFO
  holds fewer raw sectors than cooked ones. Several partitions do not interact but
  through the one FIFO, and the refinement proof covers any number.
* **Selector.** Three filters make chains and cycles of length 1, 2 and 3; two sectors
  differ in each condition; one filter has a range and another the subheader values,
  and either may enable them in any order.
* **Host.** A sector period of three accesses separates "first read", "during the
  period" and "at its end"; two commands tell an old reply from a new one; one more
  cause stands for the rest, which the code treats alike.
* **Sound.** Slices of 1 and 2 cycles with a batch of 3 make batches of 3 and of 4; 4 cycles
  per sample leave remainders; the sound CPU runs at half speed with an overshoot of
  one; the ring has three slots with a lead of two, the fullest it can be; a
  callback asks for two frames.
* **Machine.** Two visible lines and a blanked one are the three kinds of line. A line
  has three cycles, with the field change after one and H-Blank after two; slices are of one
  cycle, which meets each edge, or of the whole line, which straddles both (a length of
  9 is clamped). Timer 0's compare value is 0, as at power-on, or the second line's.
  One DMA channel, idle or armed for V-Blank-IN; masks are that of reset and none; guests write zeros over
  TVSTAT. V-Blank-OUT, H-Blank-IN and Timer 1 interrupts are switched off as
  `SATURN_NOINT` does, since no property tells whether they are pending; the edges
  themselves are not. The proofs cover every value of these.
* **VDP1.** Two addresses and two tables: one draws and ends, the other calls a subroutine,
  returns and never ends. `MaxCommands` = 2 is the guard of 8192. Tables are replaced at any
  command, so the walk sees every mixture of the two.
* **SMPC.** Four guests, each with the commands that interact: INTBACK with the reset latch and a
  clock change, the slave's commands with the other clock change, the settings with one more, and the
  resets with the sound CPU's commands. One routine for the slave; a command is executed one slice after it is written, or two. A guest
  that owned all commands would only interleave what the code handles apart.
* **Pipeline.** `MaxFrames` = 4 fields are the fewest in which a pair of pictures is drawn,
  displaced and drawn again; the first draws a full picture, the others one of four plans (another
  one, more drawing into the hidden buffer, a partial clear, a CPU write). `MaxOps` = 5 operations
  overflow the queue when two fields go by unrendered, `GeometryCap` = 4 stops the geometry
  growing in three. `MaxEvents` = 2 keys, resizes or failures, at most one per
  iteration (SDL delivers them in batches, but the loop handles them one by one and none
  depends on another); `MaxPictures` = 1 picture between two fields, because a second one
  starts from what the first one restored.
* **Processors.** Bytes of two bits make registers of eight, MAC of sixteen; register files with
  values at the ends of their ranges and in each region of memory. Programs are all triples
  from a menu of eighteen (branches, calls, their slots, traps, sleep), each wait loop, and what breaks it. A DSP
  of four bits is enumerated in full.
* **Cache.** Five lines of one set, one more than it has ways, and one of another, so that a full set, an eviction and a set left
  alone all occur. Order bits written through the address array are the reset's, another order, and three
  bits in a circle, which are the order of nothing. It starts cold and on, cold and off, or full in either mode
  (which a cold cache reaches by four fetches), and takes three steps.
* **On-chip units.** A divider with words of six bits (`HalfWord` = 32), its operands at and next to zero, the sign
  change and the ends. A timer that counts to eight, with dividers of one and two clocks and the external
  pin, which starts at the reset or one or two ticks before a wrap or a match, and is given spans below, at and
  above a whole turn; three steps. Transfers of up to six longwords (a count of zero stands for six) with overlapping and
  separate ranges. The proofs cover every size of all of these.
* **Pictures.** Coordinates of six bits on a buffer of four by three: every line, quads with every
  combination of corners from a set that holds degenerate, concave and crossing ones; windows on lines
  of four dots with each register before, in and behind the line; pages of four
  dots and characters of one or two cells; three backgrounds and a sprite of every type.

## 5 Fairness

* Drive: weak fairness of the tick, as the scheduler calls it in every field. Strong
  fairness of the mixer taking from the ring and of the host emptying each
  partition: both are disabled during a tick, and both do run between ticks (the SCSP
  renders in every slice; emptying is the host's part of the protocol, and
  `PlayEnds` speaks of such a host). Commands are not fair; `PlayEnds` assumes only
  that they cease.
* Host: weak fairness of the clock and of reading a register, for a host that polls.
  Nothing is assumed of CR4 reads, writes or interrupts.
* Sound: weak fairness of the emulation thread and of SDL's callbacks. Strong fairness
  of slices, because an access can come before any slice but the scheduler still runs
  one in each turn of its loop. Nothing is assumed of SNDON, SNDOFF or clock changes.
* Machine: weak fairness of the scheduler's steps, one thread that no device can hold
  up and whose CPU slices are bounded by their cycles, and of the NMI, which is the first thing
  the master does in a slice. CPU code is not fair.
* VDP1: weak fairness of the walk's tick and of the beam, both steps of the scheduler; guests
  are not fair.
* SMPC: weak fairness of the slave's part of a slice, of `smpc_tick` and of the NMI. The
  master's program is not fair: `SlaveStartsEventually` is about a slave that stays released,
  with its code in memory, while the process runs.
* Pipeline: weak fairness of each of the two threads as a whole. Which events
  come, and how many pictures, stays open.

## 6 Proofs

Assumptions are only the named `ASSUME`s on constants: sizes are positive, a raw
sector is longer than a cooked one, commands carry natural numbers, a command table has a first command,
a reset command waits at least as long as any other, what a field does is one of `PlanSet`, half a word
of the divider is a multiple of four (it is 2^31), the tag and the value of a cleared line are among those
there are. All bounds of
section 4 disappear. One theorem has a hypothesis beside them, `QuotedSizeAlwaysServed`: the sector
lengths a guest selects are the two the buffer can stage (the others are the divergence
`ServesSelectedLength` of section 7).

* **`CdDriveProofs`.** `Invariance` proves the inductive invariant `IInv`. The
  properties are not inductive alone: that the ring loop feeds the pass the
  streamer does not, needs `LoopMatchesTransport` (in the middle of a loop the transport flags
  are those its gate tested) and `LastSinkMatches` (while the drive plays, the
  last sector consumed went where `cdda_play` says). From it follow `TypeCorrect`,
  `NoSectorLost`, `NoLap`, `FullRingAlwaysPlayed` (a ring that refuses has enough in hand to be played),
  `OneHead`, and the action properties `PendOnlyAtEnd`,
  `StopsAnnounced` (the end of a range and an audio sector that does not read are told; a data sector that does not
  read leaves the range, the head and the sectors delivered as they were) and `FullPartitionAlwaysHolds` (a full sink stops the head where it is, which
  needs the types alone, but over every way out of the streamer loop). Each command, each step of a tick and each consumer is a case of
  its own.
* **`CdBlockProofs`**, the buffer. `BufferInvariance` (types, and the pairing of the two
  arrays), then `BufferIsAStore`: initial states map to initial states, and every step
  to a step of `SectorStore`. The mapping takes a partition's queue to be the used part of
  its slots and the hand-over to be the unread rest of the FIFO. The lemmas on
  `Compact`, `Staged` and `RawServed` carry the arithmetic; that `RawServed` exists
  uses a greatest-element lemma for bounded sets of naturals. `QuotedSizeAlwaysServed` rests on
  `QuoteStands`: as long as a quote is remembered, the range it was computed for still holds at least
  as many sectors as it did, because a store only appends and everything else that could shorten the range drops the quote.
* **`CdBlockProofs`**, the host interface. `ReplySurvivesReports` needs to relate two clocks.
  `FreshUntilShown`: a reply nobody could have read yet is still marked fresh, so no report lands on it.
  `TimerBehind`: from the first read on, the report timer is never ahead of the time
  the reply has been shown. `PowerOn` covers the signature before the first command.
  `InterruptsNotLost` is inductive as it stands. `HostTypeCorrect` gives the types.
* **`MachineProofs`.** `BeamInv` says where the beam stands at each place of the
  loops: an edge's latch is set exactly when the beam has reached it, or is about to be, right
  after a slice (`FieldChangeAt`, `HBlankAt`); outside a line its locals are
  reset (`OutsideLine`); the clock has kept step (`Clocked`). `SliceBounds` shows that no slice is
  empty or passes an edge. `MachineIsARaster` follows step by step. For `TvstatAgrees` the
  V-Blank bit must be tied to the line while the edge of a boundary line is still due, and for
  `Timer0Exact` the counter to the line while the timers stay enabled, across the
  return and resumption; `FramesEndAtBlanking` needs that nothing but the front end's call
  leaves `"frontend"`.
* **`Vdp1Proofs`.** `Vdp1Invariance` has three parts beside the types. `WalkOwes` ties what is owed to
  the walk, and gives `DrawEndIsOwed` in both directions: what is announced is the END of a list that was owed it, and
  a walk that stops has announced it, has spent its guard or was reset. That each walk does stop is
  `WalkEnds`, which TLC checks. `AutoErases` says that an automatic field change leaves an erase to
  the next one, which is what `AutoDrawsOnErased` needs across the field in between. `DisplayIsSeen` says
  that outside the visible field no whole picture on display is unseen; a field change falls there, so
  the erase it carries out takes none (`WholePictureIsShown`).
* **`CdBlockProofs`**, the selector. `Chain` is a recursive function: that it is the chain the filters make is
  shown by least counterexample, over walks of each length. That the bounded walk is the unbounded one
  (`RouteAlwaysFirstPass`) is then a pigeonhole: a walk of `NumFilters` hops that has passed no filter has
  met one twice, and from there on meets no new one. `PristineBank` strengthens `PristineAlwaysRoutes`:
  a bank as ResetSelector left it has no conditions and each filter's own partition behind it.
  `SameRoute` (banks that agree on the filters a sector meets give it the same place) carries
  `ProgrammingAlwaysLocal` and `RecyclingAlwaysKeepsRoutes`.
* **`SmpcProofs`.** What is pending keeps the flag up unless it was written without it (`BusyWhilePending`),
  what is asked by a program that polled is what is pending, with the interrupt still to come, unless its write was
  dropped (`AskedIsPending`), and the file is whole and holds the
  choice whether or not the process runs (`FileHoldsChoice`); the rest follows step by step. For
  the pad, `HandshakeInOrder` ties the pad's place in the report to what the program has taken, by the
  phases of TR and TL, and `GroupsTaken` says that the groups of a standard pad are taken once each; bit by bit, the two paths are then compared where
  `Place` puts each byte.
* **`AudioPathProofs`.** For the clock, three equations: what has elapsed is deferred or on its way to a
  sample (`ClockAddsUp`), less than a sample is left outside the rendering loop (`PaidUp`), and the sound
  CPU's debt is its distance, its fraction and the deferred cycles at its rate (`DebtIsKnown`), which is why
  overshoot never accumulates. For the ring, the unread slots are the interval between the indices and the one being stored
  (`RingHolds`), one slot stays free (`RoomIsKept`), and an index held in a register only makes
  the ring look fuller to the writer and emptier to the reader (`CopiesAreBetween`).
  `ResetIsQuiet` is the clock change that overlaps no callback.
* **`PipelineProofs`.** `LoopInv` is the hand-over: who has the machine at each place of the loop
  (`WorkersTurn`), how far the counts are apart (`InStep`), which field the snapshot is of
  (`SnapshotSeen`), and that a field which falls due in a pause does so in a visible window
  (`DueIsVisible`: the keys that make it due need one). `PictureInv` is the renderer. Its core
  is that geometry which begins with a full erase and is remembered whole *is* what the framebuffer
  holds, once the submission has drawn it (`GeometryDrawn`) and, before that, whatever version of
  memory it will be drawn from (`GeometryQueued`); revisions tell the two buffers' geometry apart
  (`Numbered`, `BlendIsGeometry`). While pictures may be made (`Held`) the saved copy is the framebuffer
  and the blend is what the framebuffer holds (`Replayable`), so a replay draws the same thing over it,
  moved, and takes it away again. `Draw` and `QueueAll` are recursive functions, unfolded by least
  counterexample (`DrawIsWalk`); `PlainDraw`, `DrawUntouched` and `DrawErased` say what a list leaves
  in a buffer. The last
  iteration has to be excused: a render that fails ends the loop, but its iteration still presents, and
  after interpolation went off and on (in no fewer than five fields) the pair is an old one (section 8).
* **`Sh2Proofs`**, the cache. `CacheAlwaysPrivateLru` needs `CacheInv`. That the six bits say the order of use (`InOrder`) is
  inductive only if the ages of a set's ways differ, and not inductive for a fetch by the shortcut, which
  touches nothing: `ShortcutOk` says that the way it uses, while the line is still in it, is the one
  a search would find *and* already the latest of its set. Each action has a lemma: a fetch by any of its
  ways out, a fill, a store that hits (which makes the fetcher search again), a purge, an array write. `LruWayIsOldest`
  turns the masks of `cache_lru_way` into "no usable way is older", for sets with at most two ways of unknown age;
  `AddressArrayRestores` is the save and restore of a way.
* **`Sh2Proofs`**, the on-chip units. `OnChipAlwaysExact` has four parts. *Timer*: `TimerInv` says that the timer is what the last access left, told on
  by the clocks since (`Counted`), as long as a match does not clear the counter. That ticking one by one is
  the same as telling all at once is the induction the loop needs; it goes by least counterexample on the
  number of ticks, and that a quiet span passes no match or wrap is arithmetic modulo `Counts`. *Divider*: `QuotientUnique` (no other quotient leaves a smaller
  remainder of the dividend's sign) and `QuotientFits` show that an overflow is reported exactly when there is no quotient;
  `StepsOverZero` follows the three steps of shift and subtract, and `WidthsAgree` compares the two
  divisions. *Transfers*: `BurstsExact` follows a burst channel and a longword channel unit by unit, with one burst beside
  four longwords. *Pending flag*: `pend` is what enabled flags say after every step, so a vector exists exactly when the
  fast paths are told so.

Only model-checked:

* The liveness properties `PlayEnds`, `PollingIsAnswered`, `PrimesAgain`, `ClockChangeCompletes`,
  `WalkEnds`, `SlaveStartsEventually` and `LoopComesRound`: fairness and ENABLED are beyond this prover.
* Six of the eight properties of `algorithms`: `QuadIsSolid`, `DrawingIsExact`, `LayoutIsRead`, `DotIsComposed`,
  `EnginesAgree` and `DspRunsAsWritten`. Their references run an algorithm step by step on every input,
  by recursion, and the equality of two recursive definitions needs an induction over data
  that the installed provers cannot instantiate; several need nonlinear arithmetic as well.
* `EhstEndsSectors`, which no run names.

The proofs of walks that a recursive *function* makes (`Chain`, `Draw`, the timer's ticks, the units of a
transfer) are no exception to this: each takes the least number of steps at which a stated formula would
fail, which needs only that numbers are well ordered.

## 7 Where the code and its comments disagree

The two findings first; the rest are violated by the configuration named, or by adding the
property to one (section 3).

| Property | The comment | The code |
|---|---|---|
| `RingGetsAudio`, `CdDriveCddaIsAudio.cfg` | saturn.h:102, `cdda_play` is "the active play range is an audio track" | ReadFile starts a data play without writing `cdda_play`: after an audio play the file's sectors go to the SCSP and never to a partition |
| `DoorbellIsKept`, `ProcessorsDoorbell.cfg` | bus.c:1701, "a read-modify-write that sets an unrelated bit cannot clear a flag that set between the read and the write" | A flag survives only where the written byte has a one: the zero that was read is written back and the new flag is gone |
| `RepeatRewindsToStart`, `CdDriveRepeat.cfg` | cdblock.c:603, "a repeat only rewinds the head" | `loop_start` is captured only after a tick saw the drive idle: a second PlayDisc before that repeats from the first one's start |
| `RemovesOnlyHandedOver`, `CdBufferHandedOver.cfg` | cdblock.c:1584, "removes ONLY the sectors just handed over" | The whole range is deleted though the raw path may stage fewer sectors |
| `ReportsWhateverIsOutstanding`, `CdHostOutstanding.cfg` | cdblock.c:416, "whether or not a command is outstanding" | No report from the write of CR1 to the read of CR4 |
| `FillIsSamples` | sound.c:257, "this only ever moves the read pointer -- the writer only ever moves the write pointer" | A clock change stores both; a callback in progress stores its old index afterwards |
| `ArmedRunsEveryField` | bus.c:1348, it is wrong that "a channel armed for a repeating event fires exactly once instead of once per frame" | `scu_dma_run` clears the enable register when a transfer ends, whatever started it |
| `DataEndsWithoutPend` | cdblock.c:511-518, at the end of a data range, "do NOT raise PEND here ... Left out deliberately" | Line 527 raises PEND and EFLS there whenever the drive is asynchronous. The comment above it calls that an opt-in, but it is the default (lines 100-114), and line 500 says PEND "must fire too". `StopIsAnnounced` states what the code does |
| `EveryStopIsTold` | (a host's expectation; an audio play meets it, cdblock.c:625-630) | A data sector that does not read stops the drive (533-536) with neither PEND nor EFLS, and the status stays that of a drive that plays. `StopIsAnnounced` says what is left: the head and the range stay for a resume |
| `PollingIsEnough` | smpc.c:591, "Clearing SF is what tells the host the command finished" | The end of a command that was written without the flag clears it for a program whose own command was dropped meanwhile (599): the flag tells that program of a command that was never carried out. `RequestIsServed` excepts exactly this |
| `ReportsAreOne` | smpc.c:295, "Bits 2-0 are fixed high on both standard and 3D pad reports", and tests/smpc_pad.c:43-45, "X Y R L in INTBACK order" | The report has X Y R L and its second byte of buttons closes with ones (smpc.c:296-301); the port sends L before R and closes it with the left trigger and two zeros (716, 720-723, 749); the report says six bytes follow, the port "five following byte pairs" and sends six (712). `PadPathsAgree` compares each control in its place |
| `EnginesAgreeAnywhere`, `ProcessorsEngines.cfg` | tests/sh2_fastpath_fuzz.c:5, the two engines must agree | A master whose program counter left executable memory is sent back to PR by `sh2_step` (sh2_interp.c:899-914); the inline dispatch (1955-1956, 2056) executes what it finds there. In `EnginesAgree` programs lie where they may be fetched |
| `EnginesAlwaysAgree`, `ProcessorsEngines.cfg` | tests/sh2_fastpath_fuzz.c:5, the two engines must agree | The slave's gate asks only whether its timer's interrupt is pending, a flag that stays down when no interrupt was requested through it; `take_interrupt` looks at the timer itself. `EnginesAgree` leaves that slave out |
| `DisplayedIsStill` | (a guest's expectation) | A list still being walked at a swap goes on drawing into the buffer now displayed |
| `OneSectorPerPeriod` | cdblock.c:483, "One sector per drive period, at the configured read speed" | `drive_next` keeps its value over idle spells, so a restart begins with a burst |
| `StreamTargetInRange` | cdblock.c, `cd_conn` "Clamped to the valid range" | ResetSelector sets it to 0xFF, and the tick indexes 24 counts with it |
| `ParkedHeadStays` | Initialize parks the head | Without a soft reset a drive that plays goes on from the new place |
| `ServesSelectedLength` | SetSectorLength "selects the get sector size" | Lengths 2336 and 2340 select the size quoted, but 2048 bytes are staged |
| `RangeReadsBack` | "GetFilterRange: FAD start in CR1/CR2, count in CR3/CR4" | The answer is a constant |
| `OddHeldInProgressive` | bus.c, on ODD: "when it is NOT interlaced the flag is held at 1 permanently" | A clock change or a write clears it until the next V-Blank-IN |
| `VBlankMaintained` | bus.c:949, V-Blank "is maintained by the frame loop" | The loop writes it at its two edges only; a guest's write or a clock change stays until the next one |
| `SetUpForGood` | docs/GAME_SETUP.md, complete the clock and language setup once | A process that ends between the cut and the write of the file has to do it again |
| `ZeroDivideIsThreeSteps` | bus.c:356, of a division by zero, "3 cycles of partial shift-subtract reach the result registers" | The 32-bit and the 64-bit division of the same dividend leave different registers |
| `SkipProvesNothing` | the gate of `take_interrupt`, the way out is taken when "nothing can fire" | A transfer-end interrupt of the on-chip DMA controller is not asked for there |
| `WindowsHideInside` | vdp2.c:565, the mask hides a dot "inside active window area" | Under AND, a line above or below an upright window leaves the mask all hidden |
| `EarlyOutIsFinal` | vdp2.c:2093, a sprite that exceeds every background key "is already the final answer" | The way out passes over a sprite's own shadow bit, and bounds a pattern name's raised priority too low |
| `MsbIsOfTheColour` | vdp2.c:34, masking with the whole memory reads "colours the hardware would never return" | The colour's top bit is still looked up with the whole memory's mask in mode 0 |

More was seen than is stated as a property: the divider's partial quotient, a DSP
opcode class that never advances its program counter, a compare match with CCLRA that drops the prescaler's
remainder, and an on-chip channel control register whose 16-bit write starts no transfer.

The passing runs do not exclude these: `HeadFollowsSectors`, for instance, holds on a
repeat that rewinds to the wrong place, because it speaks of passes; the range a pass
belongs to is what `RepeatRewindsToStart` adds. `SamplesInOrder` excuses exactly the
stretch after a clock change that overlapped a callback.

## 8 What is not modelled

* Parsers of immutable data (ISO9660 directories, cue sheets, game configuration)
  and user interfaces (launcher, overlay): no state that outlives a call, or none that
  interacts.
* Instruction semantics of the 68000, sample synthesis and the SCSP's effects: the
  repository tests them against references, and the code has them once, so that a model could only repeat it.
  The SCSP's timers and interrupt lines reach nothing but the 68000.
* Vulkan objects, the GPU shaders (a second rasteriser and compositor), vendored code,
  diagnostics, tests and tools.
* A master at words it may not fetch is outside `EnginesAgree`; section 7 has what happens there.
* Of the SH-2: the high-level BIOS calls trapped in `sh2_step`, the game-entry case of the clock
  change's NMI, and `SATURN_ILLEXC`. Of the DSP: the width of the B-bus in a DMA. Of SMPC: the date
  and OREG's layout beyond the bits a property needs, the scripted pad. A program that polls finds the flag
  down and writes its inputs, the flag and its command in one step (`Ask`); the model carries the identity and the length
  that precede a pad's report, but no property compares them. A pad may
  also change while the direct port is being read, if the reads straddle a field.
* Of VDP1: the cost of a command, which only decides in which slice the next one comes, and
  the rectangle of an erase. Of its rasteriser: the wrap of thirteen-bit coordinates, which
  coordinates of six bits do not reach, and the seam between two quads that share an edge. Of VDP2: the loops over lines and layers, the signature
  by which the background cache is kept, output scaling.
* Of the window: pacing's deadlines (how many pictures a field gets is chosen freely), the
  matching of faces between two fields (`Pair` is told the outcome), quality options and changes of
  the picture's size. `FramebufferIsCanonical` speaks of a running loop: in the last iteration after a failed render
  a replay may restore a copy that was never made, and `PictureIsOneField` says nothing of that
  iteration either. The window's size changes only where an iteration takes its events; in the code a window
  minimised between an F2 and the render of the same iteration would leave the copy unmade, and the replays of a pause would
  restore it.
* In the CD block: the put direction (PutSectorData, CopySector and MoveSector are
  answered without effect by the code), CD-ROM authentication beyond its status, and
  status flags that only a reply shows.
* In the sound path: the values of samples, and compilations that tear an aligned
  32-bit index, which no supported target produces.
* In the scheduler: devices' own work in a slice, the data DMA copies, and the interrupts
  of other sources, as section 2 says.

## 9 Plan

Done: the CD block's four halves, the sound path, the scheduler, VDP1, SMPC with the slave's
release, the window's two threads with the renderer, and the algorithms; every safety and action
property that a run checks of a component with state, the cache and the on-chip units among them, is also proved. What would come next:

1. **Lemmas about the operators**: steps of the rasteriser, the compositor and the interpreter that need no induction
   (a window's edge, one step of the line's accumulator, one instruction in both engines), as a
   base for what `algorithms` checks as a whole.
2. **`CdBlock`**: `CdDrive`, `CdSelector` and `CdBuffer` composed on one partition
   array, which replaces `Drain` and `route` by the real thing.
3. **Clock change across modules**: `Smpc`'s `ChangeClock` composed with `AudioPath`'s reset and
   `Machine`'s NMI.
