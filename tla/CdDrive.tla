------------------------------- MODULE CdDrive -------------------------------
(***************************************************************************)
(* The playback half of the CD block (runner/src/cdblock.c): the drive     *)
(* commands a Saturn title issues, and cdb_tick, which the scheduler calls *)
(* at every V-Blank-IN to move the one optical head.                       *)
(*                                                                         *)
(* A tick is atomic for the host (it runs on the emulation thread between  *)
(* two CPU quanta), but each sector it handles is a step here: pc is "cpu" *)
(* while the host runs and names the loop of cdb_tick otherwise.  Clocks   *)
(* are kept relative to s->clk: drive_next and next_cy are the cycles left *)
(* until the next sector is due, negative when the drive is behind.        *)
(*                                                                         *)
(* Abstractions: a partition is its sector count (CdBuffer keeps the       *)
(* sectors), the filter bank is the function `route' from sectors to       *)
(* partitions (CdSelector is the bank), the CD-DA ring is counted in whole *)
(* sectors, and `raised' holds the HIRQ bits a step raises (CdHost is the  *)
(* register).  Status flags that only a reply shows (ctrl, track, index,   *)
(* flag) are left out.                                                     *)
(***************************************************************************)
EXTENDS Integers, Sequences

CONSTANTS
  NumParts, PartSectors,         \* CD_NUM_PARTS, CD_PART_SECTORS
  Disconnected,                  \* CD_DISCONNECTED
  SectorsPerTick,                \* CD_SECTORS_PER_TICK
  RingSectors,                   \* CDDA_RING, in sectors of 2352 bytes
  ReadySectors,                  \* sectors in hand before the ring is played (4)
  FadBase, UnknownFad,           \* FAD_BASE and the FAD of a stopped drive
  SectorCycles, FieldCycles,     \* CDB_SECTOR_CYCLES, cycles between two ticks
  MaxCredit,                     \* bound: how far behind a clock is followed
  Unset,                         \* "no deadline yet" (0 in the code)
  TrackStart, AudioTracks,       \* start LBA of each track, the audio ones
  TotalSectors, Unreadable,      \* size of the disc, LBAs that fail to read
  PlayRequests, SeekTargets,     \* commands the host may send
  Files,                         \* [lba, nsec] extents of the disc's files
  Conns, Routes                  \* selector settings the host may program

Parts == 0 .. NumParts - 1
Forever == 15                    \* repeat count 0xF
NotRouted == NumParts            \* route_sector's -1

ASSUME GeometryAssumption ==
  /\ NumParts \in Nat \ {0}      /\ PartSectors \in Nat \ {0}
  /\ SectorsPerTick \in Nat \ {0} /\ RingSectors \in Nat \ {0}
  /\ ReadySectors \in 1 .. RingSectors - 1
  /\ FadBase \in Nat             /\ UnknownFad \in Nat
  /\ SectorCycles \in Nat \ {0, 1} /\ FieldCycles \in Nat
  /\ MaxCredit \in Nat           /\ Unset \notin Int

ASSUME DiscAssumption ==
  /\ TrackStart \in Seq(Nat)     /\ AudioTracks \subseteq DOMAIN TrackStart
  /\ TotalSectors \in Nat        /\ Unreadable \subseteq Nat

ASSUME HostAssumption ==
  /\ PlayRequests \subseteq
       [form : {"track", "fad"}, at : Nat, count : Nat, repeat : 0 .. Forever]
  /\ SeekTargets \subseteq Nat
  /\ Files \subseteq [lba : Nat, nsec : Nat]
  /\ Conns \subseteq Parts \cup {Disconnected}
  /\ Routes \subseteq [0 .. TotalSectors - 1 -> Parts \cup {NotRouted}]

VARIABLES
  status, playing, cdda_play, fad, play_end_fad, efls_at_end,
  play_repeat, play_rptcnt, read_speed,
  drive_next, next_cy, loop_start,
  cd_conn, route, part_sectors,
  ring, cdda_ready,              \* the CD-DA ring, and whether it is being played
  pc, quota, dest, raised,
  range_start,                   \* history: first FAD of the commanded range,
  pass_start, sunk               \* first FAD of the current pass over it, and
                                 \* the sectors consumed on it, with their sink

transport == <<status, playing, cdda_play, play_end_fad, efls_at_end,
               play_repeat, play_rptcnt, read_speed>>
clocks == <<drive_next, next_cy, loop_start>>
selector == <<cd_conn, route>>
mixer == <<ring, cdda_ready>>
loop == <<pc, quota, dest>>
history == <<range_start, pass_start, sunk>>
vars == <<transport, fad, clocks, selector, part_sectors, mixer, loop, raised,
          history>>

Least(a, b) == IF a <= b THEN a ELSE b
Most(a, b) == IF a >= b THEN a ELSE b

----------------------------------------------------------------------------
(* The disc. *)

Lba(f) == IF f >= FadBase THEN f - FadBase ELSE 0

\* disc_track_for_lba: the track with the greatest start at or below the LBA.
LbaIsAudio(l) ==
  \E t \in AudioTracks :
    /\ TrackStart[t] <= l
    /\ \A u \in DOMAIN TrackStart :
         TrackStart[u] <= l => TrackStart[u] <= TrackStart[t]

Readable(l) == l < TotalSectors /\ l \notin Unreadable

\* A play request becomes a first LBA and a sector count.  Track form plays to
\* the next track; a FAD below FAD_BASE is taken as an LBA.
Following(l) == {TrackStart[t] : t \in {u \in DOMAIN TrackStart : TrackStart[u] > l}}
Extent(l) ==
  IF Following(l) = {} THEN UnknownFad
  ELSE (CHOOSE e \in Following(l) : \A g \in Following(l) : e <= g) - l
AsLba(f) == IF f >= FadBase THEN f - FadBase ELSE f
FirstLba(req) ==
  IF req.form = "track" /\ req.at \in DOMAIN TrackStart
  THEN TrackStart[req.at] ELSE AsLba(req.at)
SectorCount(req) ==
  LET n == IF req.form = "track" /\ req.at \in DOMAIN TrackStart
           THEN Extent(TrackStart[req.at]) ELSE req.count
  IN  IF n = 0 THEN 1 ELSE n

\* The stream gate and the end-of-loop test index part_sectors with cd_conn.
\* With cd_conn = CD_DISCONNECTED the index is outside the array and the word
\* read there decides: oob is that outcome.
PartFull(q, oob) == IF q \in Parts THEN part_sectors[q] >= PartSectors ELSE oob

\* route_sector: nothing is routed from a disconnected drive.
Destination == IF cd_conn \in Parts THEN route[Lba(fad)] ELSE NotRouted

Init ==
  /\ status = "PAUSE" /\ playing = FALSE /\ cdda_play = FALSE
  /\ fad = UnknownFad /\ play_end_fad = 0 /\ efls_at_end = FALSE
  /\ play_repeat = 0 /\ play_rptcnt = Forever /\ read_speed = 1
  /\ drive_next = Unset /\ next_cy = Unset /\ loop_start = 0
  /\ cd_conn \in Conns \cap Parts
  /\ route \in Routes
  /\ part_sectors = [q \in Parts |-> 0] /\ ring = 0 /\ cdda_ready = FALSE
  /\ pc = "cpu" /\ quota = 0 /\ dest = 0 /\ raised = {}
  /\ range_start = UnknownFad /\ pass_start = UnknownFad /\ sunk = <<>>

----------------------------------------------------------------------------
(* Commands.  The host is a CPU: it only runs while no tick does. *)

\* The history after a new range is commanded, and after the head is moved.
NewPass(first) == pass_start' = first /\ sunk' = <<>>
NewRange(first) == range_start' = first /\ NewPass(first)
SameConsumerOrNewPass(audio) ==
  IF sunk # <<>> /\ (sunk[Len(sunk)].to = "ring") # audio
  THEN NewPass(fad) /\ UNCHANGED range_start
  ELSE UNCHANGED history
Sunk(sink) == sunk' = Append(sunk, [fad |-> fad, to |-> sink])

\* PlayDisc on an audio range: cdb_tick streams it at drive speed.
PlayAudio(req) ==
  LET first == FirstLba(req) + FadBase IN
  /\ pc = "cpu"
  /\ LbaIsAudio(FirstLba(req))
  /\ playing' = TRUE /\ cdda_play' = TRUE /\ status' = "PLAY"
  /\ fad' = first
  /\ play_end_fad' = first + SectorCount(req)
  /\ play_repeat' = req.repeat
  /\ play_rptcnt' = 0
  /\ raised' = {}
  /\ NewRange(first)
  /\ UNCHANGED <<efls_at_end, read_speed, clocks, selector, part_sectors, mixer,
                 loop>>

\* PlayDisc on a data range: the drive seeks and the tick delivers.
PlayData(req) ==
  LET first == FirstLba(req) + FadBase IN
  /\ pc = "cpu"
  /\ ~LbaIsAudio(FirstLba(req))
  /\ playing' = TRUE /\ cdda_play' = FALSE /\ status' = "SEEK"
  /\ fad' = first
  /\ play_end_fad' = first + SectorCount(req)
  /\ play_rptcnt' = 0
  /\ raised' = {}
  /\ NewRange(first)
  /\ UNCHANGED <<efls_at_end, play_repeat, read_speed, clocks, selector,
                 part_sectors, mixer, loop>>

\* PlayDisc with every parameter FF: resume the current range if one is left.
PlayResume ==
  /\ pc = "cpu"
  /\ IF play_end_fad # 0 /\ fad < play_end_fad
     THEN /\ playing' = TRUE
          /\ cdda_play' = LbaIsAudio(Lba(fad))
          /\ status' = "PLAY"
          /\ SameConsumerOrNewPass(cdda_play')
     ELSE UNCHANGED <<playing, cdda_play, status, history>>
  /\ raised' = {}
  /\ UNCHANGED <<fad, play_end_fad, efls_at_end, play_repeat, play_rptcnt,
                 read_speed, clocks, selector, part_sectors, mixer, loop>>

\* SeekDisc 0xFFFFFF.
SeekPause ==
  /\ pc = "cpu"
  /\ playing' = FALSE /\ cdda_play' = FALSE /\ status' = "PAUSE"
  /\ raised' = {}
  /\ UNCHANGED <<fad, play_end_fad, efls_at_end, play_repeat, play_rptcnt,
                 read_speed, clocks, selector, part_sectors, mixer, loop, history>>

\* SeekDisc 0.
SeekStop ==
  /\ pc = "cpu"
  /\ playing' = FALSE /\ cdda_play' = FALSE /\ status' = "STANDBY"
  /\ fad' = UnknownFad /\ play_rptcnt' = Forever
  /\ drive_next' = Unset
  /\ raised' = {}
  /\ NewPass(UnknownFad)
  /\ UNCHANGED <<range_start, play_end_fad, efls_at_end, play_repeat, read_speed,
                 next_cy, loop_start, selector, part_sectors, mixer, loop>>

SeekTo(target) ==
  /\ pc = "cpu"
  /\ target # 0 /\ target # UnknownFad
  /\ playing' = FALSE /\ cdda_play' = FALSE /\ status' = "PAUSE"
  /\ fad' = target
  /\ raised' = {}
  /\ NewPass(target)
  /\ UNCHANGED <<range_start, play_end_fad, efls_at_end, play_repeat,
                 play_rptcnt, read_speed, clocks, selector, part_sectors, mixer, loop>>

\* ReadFile, the file found: a bounded play that ends with EFLS.  cdda_play
\* keeps whatever the last play left.
ReadFile(file, off) ==
  LET skip == Least(off, file.nsec) IN
  /\ pc = "cpu"
  /\ fad' = FadBase + file.lba + skip
  /\ play_end_fad' = FadBase + file.lba + file.nsec
  /\ playing' = TRUE /\ efls_at_end' = TRUE /\ status' = "PLAY"
  /\ raised' = {"DRDY"}
  /\ NewRange(FadBase + file.lba + skip)
  /\ UNCHANGED <<cdda_play, play_repeat, play_rptcnt, read_speed, clocks,
                 selector, part_sectors, mixer, loop>>

\* ReadFile, no such file.
ReadFileMissing ==
  /\ pc = "cpu"
  /\ status' = "PAUSE"
  /\ raised' = {"DRDY"}
  /\ UNCHANGED <<playing, cdda_play, play_end_fad, efls_at_end, play_repeat,
                 play_rptcnt, read_speed, fad, clocks, selector, part_sectors,
                 mixer, loop, history>>

AbortFile ==
  /\ pc = "cpu"
  /\ playing' = FALSE /\ play_end_fad' = 0 /\ efls_at_end' = FALSE
  /\ raised' = {"EFLS"}
  /\ UNCHANGED <<status, cdda_play, play_repeat, play_rptcnt, read_speed, fad,
                 clocks, selector, part_sectors, mixer, loop, history>>

\* InitializeCDSystem: parks the head at FAD 150 and doubles the read speed;
\* only a soft reset also stops the drive and empties the partitions.
InitializeCDSystem(soft) ==
  /\ pc = "cpu"
  /\ status' = "PAUSE" /\ read_speed' = 2 /\ fad' = FadBase
  /\ IF soft
     THEN /\ playing' = FALSE /\ play_end_fad' = 0
          /\ part_sectors' = [q \in Parts |-> 0]
     ELSE UNCHANGED <<playing, play_end_fad, part_sectors>>
  /\ raised' = {"EFLS"}
  /\ NewPass(FadBase)
  /\ UNCHANGED <<range_start, cdda_play, efls_at_end, play_repeat, play_rptcnt,
                 clocks, selector, mixer, loop>>

\* GetSessionInfo and AuthenticateDevice answer with a paused drive.
ReportPaused(flags) ==
  /\ pc = "cpu"
  /\ status' = "PAUSE"
  /\ raised' = flags
  /\ UNCHANGED <<playing, cdda_play, play_end_fad, efls_at_end, play_repeat,
                 play_rptcnt, read_speed, fad, clocks, selector, part_sectors,
                 mixer, loop, history>>
GetSessionInfo == ReportPaused({})
AuthenticateDevice == ReportPaused({"EFLS", "CSCT"})

\* Selector commands (SetFilter*, SetDeviceConnection, ResetSelector) change
\* the routing; ResetSelector may disconnect the drive.
ProgramSelector ==
  /\ pc = "cpu"
  /\ cd_conn' \in Conns /\ route' \in Routes
  /\ raised' = {}
  /\ UNCHANGED <<transport, fad, clocks, part_sectors, mixer, loop, history>>

\* GetThenDelete, DeleteSectorData and ResetSelector free sectors.
Drain(q) ==
  /\ pc = "cpu"
  /\ part_sectors[q] > 0
  /\ \E n \in 1 .. part_sectors[q] :
       part_sectors' = [part_sectors EXCEPT ![q] = @ - n]
  /\ raised' = {}
  /\ UNCHANGED <<transport, fad, clocks, selector, mixer, loop, history>>

\* scsp_render plays the ring once enough of it has been in hand; when it runs
\* dry it stops, until the ring is primed again.
PlayRing ==
  /\ pc = "cpu"
  /\ cdda_ready
  /\ \/ /\ ring > 0
        /\ \E n \in 1 .. ring : ring' = ring - n
        /\ UNCHANGED cdda_ready
     \/ /\ ring = 0
        /\ cdda_ready' = FALSE
        /\ UNCHANGED ring
  /\ raised' = {}
  /\ UNCHANGED <<transport, fad, clocks, selector, part_sectors, loop, history>>

\* sound_clock_change_reset empties the ring, whatever the drive is doing.
ClockChangeReset ==
  /\ pc = "cpu"
  /\ ring' = 0 /\ cdda_ready' = FALSE
  /\ raised' = {}
  /\ UNCHANGED <<transport, fad, clocks, selector, part_sectors, loop, history>>

----------------------------------------------------------------------------
(* cdb_tick.  A field passes, then cdda_tick, then the data streamer. *)

Advance(deadline) ==
  IF deadline = Unset THEN Unset ELSE Most(deadline - FieldCycles, -MaxCredit)

FieldPasses ==
  /\ pc = "cpu"
  /\ drive_next' = Advance(drive_next) /\ next_cy' = Advance(next_cy)
  /\ pc' = "tick" /\ raised' = {}
  /\ UNCHANGED <<transport, fad, loop_start, selector, part_sectors, mixer,
                 quota, dest, history>>

CddaIdle ==
  /\ pc = "tick"
  /\ ~(cdda_play /\ playing)
  /\ next_cy' = Unset
  /\ pc' = "gate" /\ raised' = {}
  /\ UNCHANGED <<transport, fad, drive_next, loop_start, selector, part_sectors,
                 mixer, quota, dest, history>>

\* The first tick of an audio play anchors the clock and the repeat point.
CddaStart ==
  /\ pc = "tick"
  /\ cdda_play /\ playing
  /\ IF next_cy = Unset
     THEN next_cy' = 0 /\ loop_start' = fad
     ELSE UNCHANGED <<next_cy, loop_start>>
  /\ IF next_cy' > 0
     THEN pc' = "gate" /\ UNCHANGED quota
     ELSE pc' = "cdda" /\ quota' = SectorsPerTick
  /\ raised' = {}
  /\ UNCHANGED <<transport, fad, drive_next, selector, part_sectors, mixer, dest,
                 history>>

AtEnd == play_end_fad # 0 /\ fad >= play_end_fad

CddaTurn == pc = "cdda" /\ quota > 0

\* Mutant: the repeat is not counted.
CddaRepeatUncounted ==
  /\ CddaTurn /\ AtEnd
  /\ play_repeat = Forever \/ play_rptcnt < play_repeat
  /\ fad' = loop_start
  /\ quota' = quota - 1 /\ raised' = {}
  /\ NewPass(loop_start)
  /\ UNCHANGED <<range_start, status, playing, cdda_play, play_end_fad, efls_at_end,
                 play_repeat, play_rptcnt, read_speed, clocks, selector,
                 part_sectors, mixer, pc, dest>>

CddaRepeat ==
  /\ CddaTurn /\ AtEnd
  /\ play_repeat = Forever \/ play_rptcnt < play_repeat
  /\ fad' = loop_start
  /\ play_rptcnt' = Least(play_rptcnt + 1, Forever)
  /\ quota' = quota - 1 /\ raised' = {}
  /\ NewPass(loop_start)
  /\ UNCHANGED <<range_start, status, playing, cdda_play, play_end_fad, efls_at_end,
                 play_repeat, read_speed, clocks, selector, part_sectors, mixer,
                 pc, dest>>

\* The range is finished or the disc does not read: the play is over.
CddaEnd ==
  /\ CddaTurn
  /\ \/ AtEnd /\ play_repeat # Forever /\ play_rptcnt >= play_repeat
     \/ ~AtEnd /\ ~Readable(Lba(fad))
  /\ cdda_play' = FALSE /\ playing' = FALSE /\ status' = "PAUSE"
  /\ raised' = {"PEND", "EFLS"}
  /\ pc' = "gate" /\ quota' = 0
  /\ UNCHANGED <<play_end_fad, efls_at_end, play_repeat, play_rptcnt, read_speed,
                 fad, clocks, selector, part_sectors, mixer, dest, history>>

\* scsp_cdda_push refuses a sector that would lap the reader; the head stays.
RingRefuses == ring + 1 >= RingSectors

\* Mutant: a refused sector is skipped.
CddaRefusedSkips ==
  /\ CddaTurn /\ ~AtEnd /\ Readable(Lba(fad))
  /\ RingRefuses
  /\ fad' = fad + 1
  /\ next_cy' = SectorCycles
  /\ pc' = "gate" /\ quota' = 0 /\ raised' = {}
  /\ UNCHANGED <<transport, drive_next, loop_start, selector, part_sectors,
                 mixer, dest, history>>

CddaRefused ==
  /\ CddaTurn /\ ~AtEnd /\ Readable(Lba(fad))
  /\ RingRefuses
  /\ next_cy' = SectorCycles
  /\ pc' = "gate" /\ quota' = 0 /\ raised' = {}
  /\ UNCHANGED <<transport, fad, drive_next, loop_start, selector, part_sectors,
                 mixer, dest, history>>

\* The sector is handed over and the head advances; the loop goes on while
\* another sector is due and the ring is under two thirds full.
CddaDelivered ==
  /\ CddaTurn /\ ~AtEnd /\ Readable(Lba(fad))
  /\ ~RingRefuses
  /\ ring' = ring + 1
  /\ cdda_ready' = (cdda_ready \/ ring' >= ReadySectors)
  /\ Sunk("ring")
  /\ fad' = fad + 1
  /\ next_cy' = next_cy + SectorCycles
  /\ IF next_cy' > 0 \/ (3 * ring') \div RingSectors >= 2
     THEN pc' = "gate" /\ quota' = 0
     ELSE quota' = quota - 1 /\ UNCHANGED pc
  /\ raised' = {"CSCT"}
  /\ UNCHANGED <<transport, drive_next, loop_start, selector, part_sectors,
                 dest, range_start, pass_start>>

CddaBudgetSpent ==
  /\ pc = "cdda" /\ quota = 0
  /\ pc' = "gate" /\ raised' = {}
  /\ UNCHANGED <<transport, fad, clocks, selector, part_sectors, mixer, quota,
                 dest, history>>

----------------------------------------------------------------------------
(* The data streamer. *)

DriveBusy == playing /\ ~cdda_play

Period == SectorCycles \div read_speed

\* Sectors the drive owes at a deadline, one per period, capped per tick.
Owed(deadline) ==
  IF deadline > 0 THEN 0 ELSE Least((-deadline) \div Period + 1, SectorsPerTick)

GateClosed ==
  /\ pc = "gate"
  /\ \/ ~DriveBusy
     \/ \E oob \in BOOLEAN : PartFull(cd_conn, oob)
  /\ pc' = "cpu" /\ raised' = {}
  /\ UNCHANGED <<transport, fad, clocks, selector, part_sectors, mixer, quota,
                 dest, history>>

GateOpen ==
  LET due == IF drive_next = Unset THEN 0 ELSE drive_next
      n == Owed(due)
  IN
  /\ pc = "gate"
  /\ DriveBusy
  /\ \E oob \in BOOLEAN : ~PartFull(cd_conn, oob)
  /\ drive_next' = due + n * Period
  /\ dest' = IF n = 0 THEN dest ELSE cd_conn
  /\ quota' = n
  /\ pc' = IF n = 0 THEN "cpu" ELSE "data"
  /\ raised' = {}
  /\ UNCHANGED <<transport, fad, next_cy, loop_start, selector, part_sectors,
                 mixer, history>>

DataTurn == pc = "data" /\ quota > 0

\* The commanded range has run out.
DataEnd ==
  /\ DataTurn /\ AtEnd
  /\ playing' = FALSE /\ play_end_fad' = 0 /\ status' = "PAUSE"
  /\ efls_at_end' = FALSE
  /\ raised' = {"PEND", "EFLS"}
  /\ quota' = 0
  /\ UNCHANGED <<cdda_play, play_repeat, play_rptcnt, read_speed, fad, clocks,
                 selector, part_sectors, mixer, pc, dest, history>>

\* Mutant: the read error forgets the range as the end of one does.
DataReadErrorForgets ==
  /\ DataTurn /\ ~AtEnd
  /\ ~Readable(Lba(fad))
  /\ \E oob \in BOOLEAN : ~PartFull(dest, oob)
  /\ playing' = FALSE /\ play_end_fad' = 0
  /\ raised' = {}
  /\ quota' = 0
  /\ UNCHANGED <<status, cdda_play, efls_at_end, play_repeat, play_rptcnt,
                 read_speed, fad, clocks, selector, part_sectors, mixer, pc,
                 dest, history>>

\* A sector that does not read stops the drive: no PEND, and the status stays.
DataReadError ==
  /\ DataTurn /\ ~AtEnd
  /\ ~Readable(Lba(fad))
  /\ \E oob \in BOOLEAN : ~PartFull(dest, oob)
  /\ playing' = FALSE
  /\ raised' = {}
  /\ quota' = 0
  /\ UNCHANGED <<status, cdda_play, play_end_fad, efls_at_end, play_repeat,
                 play_rptcnt, read_speed, fad, clocks, selector, part_sectors,
                 mixer, pc, dest, history>>

\* The partition in hand, or the one this sector is routed to, has no room:
\* the sector waits at the head.
DataBlocked ==
  /\ DataTurn /\ ~AtEnd
  /\ \/ /\ \E oob \in BOOLEAN : PartFull(dest, oob)
        /\ UNCHANGED dest
     \/ /\ \E oob \in BOOLEAN : ~PartFull(dest, oob)
        /\ Readable(Lba(fad)) /\ Destination \in Parts
        /\ PartFull(Destination, FALSE)
        /\ dest' = Destination
  /\ raised' = {}
  /\ quota' = 0
  /\ UNCHANGED <<transport, fad, clocks, selector, part_sectors, mixer, pc,
                 history>>

\* Mutant: a sector routed to a full partition is discarded.
DataDeliveredDropping ==
  /\ DataTurn /\ ~AtEnd
  /\ \E oob \in BOOLEAN : ~PartFull(dest, oob)
  /\ Readable(Lba(fad))
  /\ IF Destination \in Parts /\ ~PartFull(Destination, FALSE)
     THEN /\ part_sectors' = [part_sectors EXCEPT ![Destination] = @ + 1]
          /\ dest' = Destination
     ELSE UNCHANGED <<dest, part_sectors>>
  /\ Sunk("buffer")
  /\ fad' = fad + 1
  /\ quota' = quota - 1 /\ raised' = {}
  /\ UNCHANGED <<transport, clocks, selector, mixer, pc, range_start, pass_start>>

\* A sector is read: stored where the selector routes it, or discarded.
DataDelivered ==
  /\ DataTurn /\ ~AtEnd
  /\ \E oob \in BOOLEAN : ~PartFull(dest, oob)
  /\ Readable(Lba(fad))
  /\ \/ /\ Destination = NotRouted
        /\ UNCHANGED <<dest, part_sectors>>
     \/ /\ Destination \in Parts /\ ~PartFull(Destination, FALSE)
        /\ part_sectors' = [part_sectors EXCEPT ![Destination] = @ + 1]
        /\ dest' = Destination
  /\ Sunk("buffer")
  /\ fad' = fad + 1
  /\ quota' = quota - 1 /\ raised' = {}
  /\ UNCHANGED <<transport, clocks, selector, mixer, pc, range_start,
                 pass_start>>

\* After the loop: CSCT, and BFUL when the last partition touched is full.
DataLoopDone ==
  /\ pc = "data" /\ quota = 0
  /\ \E oob \in BOOLEAN :
       raised' = {"CSCT"} \cup (IF PartFull(dest, oob) THEN {"BFUL"} ELSE {})
  /\ pc' = "cpu" /\ dest' = 0
  /\ UNCHANGED <<transport, fad, clocks, selector, part_sectors, mixer, quota,
                 history>>

----------------------------------------------------------------------------
PlayDisc(req) == PlayAudio(req) \/ PlayData(req)
SeekDisc == SeekPause \/ SeekStop \/ \E f \in SeekTargets : SeekTo(f)

Command ==
  \/ \E req \in PlayRequests : PlayDisc(req)
  \/ PlayResume
  \/ SeekDisc
  \/ \E file \in Files : \E off \in 0 .. file.nsec : ReadFile(file, off)
  \/ ReadFileMissing
  \/ AbortFile
  \/ \E soft \in BOOLEAN : InitializeCDSystem(soft)
  \/ GetSessionInfo
  \/ AuthenticateDevice
  \/ ProgramSelector

CddaTick == CddaIdle \/ CddaStart \/ CddaRepeat \/ CddaEnd \/ CddaRefused
            \/ CddaDelivered \/ CddaBudgetSpent
DataTick == GateClosed \/ GateOpen \/ DataEnd \/ DataReadError \/ DataBlocked
            \/ DataDelivered \/ DataLoopDone
Tick == FieldPasses \/ CddaTick \/ DataTick
Consume == PlayRing \/ ClockChangeReset \/ \E q \in Parts : Drain(q)

Next == Command \/ Tick \/ Consume

Spec == Init /\ [][Next]_vars

\* The scheduler calls cdb_tick once a field for ever; the mixer takes samples
\* in every field; this host keeps emptying the partitions it is sent sectors
\* in.  The last two are strong: they are disabled while a tick runs.
FairSpec ==
  Spec /\ WF_vars(Tick) /\ SF_vars(PlayRing) /\ \A q \in Parts : SF_vars(Drain(q))
----------------------------------------------------------------------------
(* Properties. *)

Deadline == Int \cup {Unset}

TransportType ==
  /\ status \in {"PAUSE", "SEEK", "PLAY", "STANDBY"}
  /\ playing \in BOOLEAN /\ cdda_play \in BOOLEAN /\ efls_at_end \in BOOLEAN
  /\ raised \subseteq {"CSCT", "BFUL", "PEND", "EFLS", "DRDY"}
HeadType ==
  /\ fad \in Nat /\ play_end_fad \in Nat /\ loop_start \in Nat
  /\ range_start \in Nat /\ pass_start \in Nat
  /\ sunk \in Seq([fad : Nat, to : {"ring", "buffer"}])
ClockType ==
  /\ drive_next \in Deadline /\ next_cy \in Deadline
  /\ play_repeat \in 0 .. Forever /\ play_rptcnt \in 0 .. Forever
  /\ read_speed \in {1, 2}
BufferType ==
  /\ cd_conn \in Conns /\ route \in Routes
  /\ part_sectors \in [Parts -> 0 .. PartSectors]
  /\ ring \in Nat /\ cdda_ready \in BOOLEAN
LoopType ==
  /\ pc \in {"cpu", "tick", "cdda", "gate", "data"}
  /\ quota \in 0 .. SectorsPerTick
  /\ dest \in Parts \cup {Disconnected}
TypeOK == TransportType /\ HeadType /\ ClockType /\ BufferType /\ LoopType

\* The CD-DA ring is never lapped: its fill is measured modulo its size, so a
\* writer that reaches the reader makes a full ring look empty (scsp.c).
RingNotLapped == ring < RingSectors

\* The head passes a sector exactly when that sector has been consumed: across
\* refusals, full partitions, pauses and resumes a pass never skips a sector
\* and never delivers one twice.
HeadFollowsSectors ==
  /\ fad = pass_start + Len(sunk)
  /\ \A i \in 1 .. Len(sunk) : sunk[i].fad = pass_start + i - 1

\* The drive has one head: a pass feeds the SCSP or the partitions, never
\* both, however the two consumers of cdb_tick are interleaved.
OneConsumer == \A i \in 2 .. Len(sunk) : sunk[i].to = sunk[1].to

\* PEND means that playback has stopped: the drive raises it only in the step
\* that ends a play, and so once per play, not once per repeat.
PendEndsPlay == [][ "PEND" \in raised' => playing /\ ~playing' ]_vars

\* The drive stops by itself in three ways only.  At the end of a range, and
\* when an audio sector does not read, the host is told with PEND and EFLS and
\* the drive is paused.  When a data sector does not read it is not told; then
\* the range, the head and what was delivered stay as they are, so that a host
\* that asks to resume takes up at the sector that failed.
ToldOfStop == {"PEND", "EFLS"} \subseteq raised' /\ status' = "PAUSE"
StoppedAtSector ==
  /\ ~Readable(Lba(fad))
  /\ UNCHANGED <<fad, play_end_fad, part_sectors, mixer, history>>
StopIsAnnounced ==
  [][ playing /\ ~playing' /\ pc # "cpu" =>
        IF AtEnd \/ cdda_play THEN ToldOfStop ELSE StoppedAtSector ]_vars

\* A ring that holds enough is being played: one that refuses the next sector is
\* always one that scsp_render empties, or the drive would wait for ever.
FullRingIsPlayed == ring >= ReadySectors => cdda_ready

\* A tick only adds sectors to partitions and only the host takes them away;
\* while a partition is full no tick moves the head past a sector routed to it.
FullPartitionHolds ==
  [][ \A q \in Parts :
        pc # "cpu" => /\ part_sectors'[q] >= part_sectors[q]
                      /\ (part_sectors[q] = PartSectors /\ pc = "data"
                          /\ Readable(Lba(fad)) /\ Destination = q) => fad' = fad
    ]_vars

\* Once the host stops commanding, every play that does not repeat for ever
\* comes to an end.
PlayEnds ==
  (<>[][~Command]_vars) => []<>(~playing \/ (cdda_play /\ play_repeat = Forever))

----------------------------------------------------------------------------
(* What comments of the code say and the code does not do. *)

\* "the active play range is an audio track" (saturn.h, cdda_play): only audio
\* sectors go to the SCSP.
RingGetsAudio ==
  \A i \in 1 .. Len(sunk) :
    (sunk[i].to = "ring" /\ pass_start = range_start) =>
      LbaIsAudio(Lba(sunk[i].fad))

\* What a host should expect, and cdda_tick does for audio: a drive that stops
\* by itself says so.  A data sector that does not read says nothing.
EveryStopIsTold ==
  [][ playing /\ ~playing' /\ pc # "cpu" => "PEND" \in raised' ]_vars

\* "do NOT raise PEND here ... Left out deliberately" (cdb_tick, at the end of a
\* data range): it is raised a few lines below, unless SATURN_SYNCDRIVE is set.
DataEndsWithoutPend == [][ pc = "data" => "PEND" \notin raised' ]_vars

\* "a repeat only rewinds the head" (cdda_tick): to the start of the range the
\* host asked to repeat.
RepeatRewindsToStart == [][ CddaRepeat => fad' = range_start ]_vars

\* "One sector per drive period, at the configured read speed" (cdb_tick).
OneSectorPerPeriod == pc = "data" => quota <= FieldCycles \div Period + 1

\* "cd_conn for the streaming tick. Clamped to the valid range" (cdblock.c).
StreamTargetInRange == pc = "data" => cd_conn \in Parts

\* InitializeCDSystem "parks the head" and reports a paused drive: the head
\* stays where it is until a command moves it.
ParkedHeadStays ==
  [][ pc # "cpu" /\ status = "PAUSE" /\ pass_start = FadBase /\ range_start # FadBase
        => fad' = fad ]_vars
=============================================================================
