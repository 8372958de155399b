---------------------------- MODULE CdDriveProofs ----------------------------
(* Proofs about CdDrive, for every disc, host, clock and buffer size.        *)
EXTENDS CdDrive, SequenceTheorems, WellFoundedInduction, TLAPS

\* The loops of cdb_tick run only while the transport is in their mode, and
\* the audio loop only with its clock anchored.  Without it a sector could be
\* charged to a deadline that is still Unset, and PEND raised by a drive that
\* has already stopped.
LoopMatchesTransport ==
  /\ pc = "cdda" => playing /\ cdda_play /\ next_cy \in Int
  /\ pc = "data" /\ quota > 0 => playing /\ ~cdda_play

\* A playing drive goes on feeding the consumer that took the last sector.
LastSinkMatches ==
  playing /\ sunk # <<>> => (sunk[Len(sunk)].to = "ring" <=> cdda_play)

IInv ==
  /\ TypeOK
  /\ HeadFollowsSectors
  /\ RingNotLapped
  /\ FullRingIsPlayed
  /\ LoopMatchesTransport
  /\ LastSinkMatches
  /\ OneConsumer

----------------------------------------------------------------------------
(* Lemmas about the operators. *)

LEMMA NatSubsetHasMin ==
  ASSUME NEW T \in SUBSET Nat, T # {}
  PROVE  \E e \in T : \A g \in T : e <= g
<1> DEFINE R == {xy \in Nat \X Nat : xy[1] < xy[2]}
<1>1. IsWellFoundedOn(R, Nat)
  BY NatLessThanWellFounded DEF OpToRel
<1>2. PICK e \in T : \A g \in T : <<g, e>> \notin R
  BY <1>1, WFMin
<1>3. ASSUME NEW g \in T PROVE e <= g
  <2>1. e \in Nat /\ g \in Nat /\ <<g, e>> \notin R
    BY <1>2
  <2>2. <<g, e>> \in Nat \X Nat
    BY <2>1
  <2>3. ~(g < e)
    BY <2>1, <2>2
  <2>4. QED BY <2>1, <2>3
<1>4. QED BY <1>2, <1>3

\* A track always has a length: the distance to the next track start, or the
\* rest of the disc.
LEMMA ExtentType ==
  ASSUME NEW l \in Nat
  PROVE  Extent(l) \in Nat
<1>1. Following(l) \subseteq Nat /\ \A g \in Following(l) : g > l
  BY DiscAssumption DEF Following
<1>2. CASE Following(l) = {}
  BY <1>2, GeometryAssumption DEF Extent
<1>3. CASE Following(l) # {}
  <2> DEFINE least == CHOOSE e \in Following(l) : \A g \in Following(l) : e <= g
  <2>1. \E e \in Following(l) : \A g \in Following(l) : e <= g
    BY <1>1, <1>3, NatSubsetHasMin
  <2>2. least \in Following(l)
    BY <2>1
  <2>3. least \in Nat /\ least > l
    BY <1>1, <2>2
  <2>4. Extent(l) = least - l
    BY <1>3 DEF Extent
  <2>5. QED BY <2>3, <2>4
<1>4. QED BY <1>2, <1>3

\* A play request names a sector of the disc and at least one sector of it.
LEMMA RequestType ==
  ASSUME NEW req \in PlayRequests
  PROVE  FirstLba(req) \in Nat /\ SectorCount(req) \in Nat
<1>1. req.at \in Nat /\ req.count \in Nat
  BY HostAssumption
<1>2. \A t \in DOMAIN TrackStart : TrackStart[t] \in Nat
  BY DiscAssumption
<1>3. FirstLba(req) \in Nat
  BY <1>1, <1>2, GeometryAssumption DEF FirstLba, AsLba
<1>4. SectorCount(req) \in Nat
  BY <1>1, <1>2, ExtentType DEF SectorCount
<1>5. QED BY <1>3, <1>4

LEMMA PeriodType ==
  ASSUME TypeOK
  PROVE  Period \in Nat \ {0}
<1>1. read_speed = 1 \/ read_speed = 2
  BY DEF TypeOK, ClockType
<1>2. QED BY <1>1, GeometryAssumption DEF Period

\* The credit a tick grants is a number of sectors it can deliver.
LEMMA OwedType ==
  ASSUME TypeOK, NEW d \in Int
  PROVE  Owed(d) \in 0 .. SectorsPerTick
<1>1. Period \in Nat \ {0}
  BY PeriodType
<1>2. CASE d > 0
  BY <1>2, GeometryAssumption DEF Owed
<1>3. CASE d <= 0
  <2> DEFINE k == (-d) \div Period
  <2>1. k \in Nat
    BY <1>1, <1>3
  <2>2. Owed(d) = Least(k + 1, SectorsPerTick)
    BY <1>3 DEF Owed
  <2>3. QED BY <2>1, <2>2, GeometryAssumption DEF Least
<1>4. QED BY <1>2, <1>3

LEMMA AdvanceType ==
  ASSUME NEW d \in Int \cup {Unset}
  PROVE  Advance(d) \in Int \cup {Unset}
BY GeometryAssumption DEF Advance, Most

\* Appending a sector to the history keeps it a history.
LEMMA SunkType ==
  ASSUME TypeOK, NEW sink \in {"ring", "buffer"}, Sunk(sink)
  PROVE  /\ sunk' \in Seq([fad : Nat, to : {"ring", "buffer"}])
         /\ Len(sunk') = Len(sunk) + 1
         /\ \A i \in 1 .. Len(sunk) : sunk'[i] = sunk[i]
         /\ sunk'[Len(sunk) + 1] = [fad |-> fad, to |-> sink]
BY DEF TypeOK, HeadType, Sunk

----------------------------------------------------------------------------
(* Type correctness. *)

LEMMA InitType == Init => TypeOK
<1> SUFFICES ASSUME Init PROVE TypeOK
  OBVIOUS
<1>1. TransportType
  BY DEF Init, TransportType
<1>2. HeadType /\ ClockType
  BY GeometryAssumption DEF Init, HeadType, ClockType, Deadline, Forever
<1>3. BufferType /\ LoopType
  BY GeometryAssumption DEF Init, BufferType, LoopType, Parts
<1>4. QED BY <1>1, <1>2, <1>3 DEF TypeOK

\* Every command of the host keeps the types.
LEMMA CommandType == TypeOK /\ Command => TypeOK'
<1> SUFFICES ASSUME TypeOK, Command PROVE TypeOK'
  OBVIOUS
<1> USE DEF Deadline, transport, clocks, selector, mixer, loop, history, NewPass, NewRange
<1>1. ASSUME NEW req \in PlayRequests, PlayAudio(req) PROVE TypeOK'
  <2>1. /\ FirstLba(req) + FadBase \in Nat
        /\ FirstLba(req) + FadBase + SectorCount(req) \in Nat
        /\ req.repeat \in 0 .. Forever
    BY RequestType, GeometryAssumption, HostAssumption
  <2>2. TransportType'
    BY <1>1, <2>1 DEF TypeOK, TransportType, PlayAudio
  <2>3. HeadType'
    BY <1>1, <2>1 DEF TypeOK, HeadType, PlayAudio
  <2>4. ClockType' /\ BufferType' /\ LoopType'
    BY <1>1, <2>1 DEF TypeOK, ClockType, BufferType, LoopType, PlayAudio, Forever
  <2>5. QED BY <2>2, <2>3, <2>4 DEF TypeOK
<1>2. ASSUME NEW req \in PlayRequests, PlayData(req) PROVE TypeOK'
  <2>1. /\ FirstLba(req) + FadBase \in Nat
        /\ FirstLba(req) + FadBase + SectorCount(req) \in Nat
    BY RequestType, GeometryAssumption
  <2>2. TransportType'
    BY <1>2 DEF TypeOK, TransportType, PlayData
  <2>3. HeadType'
    BY <1>2, <2>1 DEF TypeOK, HeadType, PlayData
  <2>4. ClockType' /\ BufferType' /\ LoopType'
    BY <1>2, <2>1 DEF TypeOK, ClockType, BufferType, LoopType, PlayData, Forever
  <2>5. QED BY <2>2, <2>3, <2>4 DEF TypeOK
<1>3. CASE PlayResume
  <2>1. TransportType'
    BY <1>3 DEF TypeOK, TransportType, PlayResume, LbaIsAudio
  <2>2. HeadType'
    <3>1. /\ UNCHANGED <<fad, play_end_fad, loop_start>>
          /\ range_start' = range_start
          /\ \/ pass_start' = fad /\ sunk' = <<>>
             \/ UNCHANGED <<pass_start, sunk>>
      BY <1>3 DEF PlayResume, SameConsumerOrNewPass
    <3>2. CASE pass_start' = fad /\ sunk' = <<>>
      BY <3>1, <3>2 DEF TypeOK, HeadType
    <3>3. CASE UNCHANGED <<pass_start, sunk>>
      BY <3>1, <3>3 DEF TypeOK, HeadType
    <3>4. QED BY <3>1, <3>2, <3>3
  <2>3. ClockType' /\ BufferType' /\ LoopType'
    BY <1>3 DEF TypeOK, ClockType, BufferType, LoopType, PlayResume
  <2>4. QED BY <2>1, <2>2, <2>3 DEF TypeOK
<1>4. CASE SeekPause
  <2>1. TransportType'
    BY <1>4 DEF TypeOK, TransportType, SeekPause
  <2>2. HeadType'
    BY <1>4 DEF TypeOK, HeadType, SeekPause
  <2>3. ClockType' /\ BufferType' /\ LoopType'
    BY <1>4 DEF TypeOK, ClockType, BufferType, LoopType, SeekPause
  <2>4. QED BY <2>1, <2>2, <2>3 DEF TypeOK
<1>5. CASE SeekStop
  <2>1. TransportType'
    BY <1>5 DEF TypeOK, TransportType, SeekStop
  <2>2. HeadType'
    BY <1>5, GeometryAssumption DEF TypeOK, HeadType, SeekStop
  <2>3. ClockType' /\ BufferType' /\ LoopType'
    BY <1>5 DEF TypeOK, ClockType, BufferType, LoopType, SeekStop, Forever
  <2>4. QED BY <2>1, <2>2, <2>3 DEF TypeOK
<1>6. ASSUME NEW f \in SeekTargets, SeekTo(f) PROVE TypeOK'
  <2>1. TransportType'
    BY <1>6 DEF TypeOK, TransportType, SeekTo
  <2>2. HeadType'
    BY <1>6, HostAssumption DEF TypeOK, HeadType, SeekTo
  <2>3. ClockType' /\ BufferType' /\ LoopType'
    BY <1>6 DEF TypeOK, ClockType, BufferType, LoopType, SeekTo
  <2>4. QED BY <2>1, <2>2, <2>3 DEF TypeOK
<1>7. ASSUME NEW file \in Files, NEW off \in 0 .. file.nsec, ReadFile(file, off)
      PROVE  TypeOK'
  <2>1. file.lba \in Nat /\ file.nsec \in Nat /\ FadBase \in Nat
    BY HostAssumption, GeometryAssumption
  <2>2. Least(off, file.nsec) \in Nat
    BY <2>1 DEF Least
  <2>3. TransportType'
    BY <1>7, <2>1, <2>2 DEF TypeOK, TransportType, ReadFile
  <2>4. HeadType'
    BY <1>7, <2>1, <2>2 DEF TypeOK, HeadType, ReadFile
  <2>5. ClockType' /\ BufferType' /\ LoopType'
    BY <1>7, <2>1, <2>2 DEF TypeOK, ClockType, BufferType, LoopType, ReadFile
  <2>6. QED BY <2>3, <2>4, <2>5 DEF TypeOK
<1>8. CASE ReadFileMissing
  <2>1. TransportType'
    BY <1>8 DEF TypeOK, TransportType, ReadFileMissing
  <2>2. HeadType'
    BY <1>8 DEF TypeOK, HeadType, ReadFileMissing
  <2>3. ClockType' /\ BufferType' /\ LoopType'
    BY <1>8 DEF TypeOK, ClockType, BufferType, LoopType, ReadFileMissing
  <2>4. QED BY <2>1, <2>2, <2>3 DEF TypeOK
<1>9. CASE AbortFile
  <2>1. TransportType'
    BY <1>9 DEF TypeOK, TransportType, AbortFile
  <2>2. HeadType'
    BY <1>9 DEF TypeOK, HeadType, AbortFile
  <2>3. ClockType' /\ BufferType' /\ LoopType'
    BY <1>9 DEF TypeOK, ClockType, BufferType, LoopType, AbortFile
  <2>4. QED BY <2>1, <2>2, <2>3 DEF TypeOK
<1>10. ASSUME NEW soft \in BOOLEAN, InitializeCDSystem(soft) PROVE TypeOK'
  <2>1. TransportType'
    BY <1>10 DEF TypeOK, TransportType, InitializeCDSystem
  <2>2. HeadType'
    BY <1>10, GeometryAssumption DEF TypeOK, HeadType, InitializeCDSystem
  <2>3. ClockType' /\ BufferType' /\ LoopType'
    BY <1>10, GeometryAssumption DEF TypeOK, ClockType, BufferType, LoopType, InitializeCDSystem
  <2>4. QED BY <2>1, <2>2, <2>3 DEF TypeOK
<1>11. CASE GetSessionInfo
  <2>1. TransportType'
    BY <1>11 DEF TypeOK, TransportType, GetSessionInfo, ReportPaused
  <2>2. HeadType'
    BY <1>11 DEF TypeOK, HeadType, GetSessionInfo, ReportPaused
  <2>3. ClockType' /\ BufferType' /\ LoopType'
    BY <1>11 DEF TypeOK, ClockType, BufferType, LoopType, GetSessionInfo, ReportPaused
  <2>4. QED BY <2>1, <2>2, <2>3 DEF TypeOK
<1>12. CASE AuthenticateDevice
  <2>1. TransportType'
    BY <1>12 DEF TypeOK, TransportType, AuthenticateDevice, ReportPaused
  <2>2. HeadType'
    BY <1>12 DEF TypeOK, HeadType, AuthenticateDevice, ReportPaused
  <2>3. ClockType' /\ BufferType' /\ LoopType'
    BY <1>12 DEF TypeOK, ClockType, BufferType, LoopType, AuthenticateDevice, ReportPaused
  <2>4. QED BY <2>1, <2>2, <2>3 DEF TypeOK
<1>13. CASE ProgramSelector
  <2>1. TransportType'
    BY <1>13 DEF TypeOK, TransportType, ProgramSelector
  <2>2. HeadType'
    BY <1>13 DEF TypeOK, HeadType, ProgramSelector
  <2>3. ClockType' /\ BufferType' /\ LoopType'
    BY <1>13 DEF TypeOK, ClockType, BufferType, LoopType, ProgramSelector
  <2>4. QED BY <2>1, <2>2, <2>3 DEF TypeOK
<1>14. QED
  BY <1>1, <1>2, <1>3, <1>4, <1>5, <1>6, <1>7, <1>8, <1>9, <1>10, <1>11, <1>12,
     <1>13 DEF Command, PlayDisc, SeekDisc

\* So does every sector cdda_tick plays or refuses.
LEMMA CddaType == TypeOK /\ LoopMatchesTransport /\ CddaTick => TypeOK'
<1> SUFFICES ASSUME TypeOK, LoopMatchesTransport, CddaTick PROVE TypeOK'
  OBVIOUS
<1> USE DEF Deadline, transport, clocks, selector, mixer, loop, history, NewPass, CddaTurn
<1>1. CASE CddaIdle
  <2>1. TransportType'
    BY <1>1 DEF TypeOK, TransportType, CddaIdle
  <2>2. HeadType'
    BY <1>1 DEF TypeOK, HeadType, CddaIdle
  <2>3. ClockType' /\ BufferType' /\ LoopType'
    BY <1>1 DEF TypeOK, ClockType, BufferType, LoopType, CddaIdle
  <2>4. QED BY <2>1, <2>2, <2>3 DEF TypeOK
<1>2. CASE CddaStart
  <2>1. TransportType'
    BY <1>2 DEF TypeOK, TransportType, CddaStart
  <2>2. HeadType'
    BY <1>2 DEF TypeOK, HeadType, CddaStart
  <2>3. ClockType' /\ BufferType' /\ LoopType'
    BY <1>2, GeometryAssumption DEF TypeOK, ClockType, BufferType, LoopType, CddaStart
  <2>4. QED BY <2>1, <2>2, <2>3 DEF TypeOK
<1>3. CASE CddaRepeat
  <2>1. TransportType'
    BY <1>3 DEF TypeOK, TransportType, CddaRepeat
  <2>2. HeadType'
    BY <1>3 DEF TypeOK, HeadType, CddaRepeat
  <2>3. ClockType' /\ BufferType' /\ LoopType'
    <3>1. /\ quota' = quota - 1 /\ quota > 0
          /\ play_rptcnt' = Least(play_rptcnt + 1, Forever)
          /\ UNCHANGED <<play_repeat, read_speed, clocks, selector, part_sectors,
                         mixer, pc, dest>>
      BY <1>3 DEF CddaRepeat
    <3>2. play_rptcnt' \in 0 .. Forever
      BY <3>1 DEF TypeOK, ClockType, Least, Forever
    <3>3. QED
      BY <3>1, <3>2, GeometryAssumption DEF TypeOK, ClockType, BufferType, LoopType
  <2>4. QED BY <2>1, <2>2, <2>3 DEF TypeOK
<1>4. CASE CddaEnd
  <2>1. TransportType'
    BY <1>4 DEF TypeOK, TransportType, CddaEnd
  <2>2. HeadType'
    BY <1>4 DEF TypeOK, HeadType, CddaEnd
  <2>3. ClockType' /\ BufferType' /\ LoopType'
    BY <1>4, GeometryAssumption DEF TypeOK, ClockType, BufferType, LoopType, CddaEnd
  <2>4. QED BY <2>1, <2>2, <2>3 DEF TypeOK
<1>5. CASE CddaRefused
  <2>1. TransportType'
    BY <1>5 DEF TypeOK, TransportType, CddaRefused
  <2>2. HeadType'
    BY <1>5 DEF TypeOK, HeadType, CddaRefused
  <2>3. ClockType' /\ BufferType' /\ LoopType'
    BY <1>5, GeometryAssumption DEF TypeOK, ClockType, BufferType, LoopType, CddaRefused
  <2>4. QED BY <2>1, <2>2, <2>3 DEF TypeOK
<1>6. CASE CddaDelivered
  <2>1. next_cy \in Int /\ SectorCycles \in Nat
    BY <1>6, GeometryAssumption DEF CddaDelivered, LoopMatchesTransport
  <2>2. sunk' \in Seq([fad : Nat, to : {"ring", "buffer"}])
    BY <1>6, SunkType DEF CddaDelivered
  <2>3. TransportType'
    BY <1>6, <2>1, <2>2 DEF TypeOK, TransportType, CddaDelivered
  <2>4. HeadType'
    BY <1>6, <2>1, <2>2 DEF TypeOK, HeadType, CddaDelivered
  <2>5. ClockType' /\ BufferType' /\ LoopType'
    <3>1. /\ ring' = ring + 1 /\ next_cy' = next_cy + SectorCycles
          /\ cdda_ready' = (cdda_ready \/ ring' >= ReadySectors)
          /\ pc' \in {pc, "gate"}
          /\ quota > 0 /\ quota' \in {0, quota - 1}
          /\ UNCHANGED <<play_repeat, play_rptcnt, read_speed, drive_next, selector,
                         part_sectors, dest>>
      BY <1>6 DEF CddaDelivered
    <3>2. QED
      BY <3>1, <2>1, GeometryAssumption DEF TypeOK, ClockType, BufferType, LoopType
  <2>6. QED BY <2>3, <2>4, <2>5 DEF TypeOK
<1>7. CASE CddaBudgetSpent
  <2>1. TransportType'
    BY <1>7 DEF TypeOK, TransportType, CddaBudgetSpent
  <2>2. HeadType'
    BY <1>7 DEF TypeOK, HeadType, CddaBudgetSpent
  <2>3. ClockType' /\ BufferType' /\ LoopType'
    BY <1>7 DEF TypeOK, ClockType, BufferType, LoopType, CddaBudgetSpent
  <2>4. QED BY <2>1, <2>2, <2>3 DEF TypeOK
<1>8. QED BY <1>1, <1>2, <1>3, <1>4, <1>5, <1>6, <1>7 DEF CddaTick

\* A sector is stored only in a partition with room for it.
LEMMA DataType == TypeOK /\ DataTick => TypeOK'
<1> SUFFICES ASSUME TypeOK, DataTick PROVE TypeOK'
  OBVIOUS
<1> USE DEF Deadline, transport, clocks, selector, mixer, loop, history, DataTurn
<1>1. CASE GateClosed
  <2>1. TransportType'
    BY <1>1 DEF TypeOK, TransportType, GateClosed
  <2>2. HeadType'
    BY <1>1 DEF TypeOK, HeadType, GateClosed
  <2>3. ClockType' /\ BufferType' /\ LoopType'
    BY <1>1 DEF TypeOK, ClockType, BufferType, LoopType, GateClosed
  <2>4. QED BY <2>1, <2>2, <2>3 DEF TypeOK
<1>2. CASE GateOpen
  <2> DEFINE due == IF drive_next = Unset THEN 0 ELSE drive_next
             n == Owed(due)
  <2>1. due \in Int
    BY DEF TypeOK, ClockType
  <2>2. n \in 0 .. SectorsPerTick
    BY <2>1, OwedType
  <2>3. Period \in Nat
    BY PeriodType
  <2>4. drive_next' \in Int /\ quota' = n
    <3>1. drive_next' = due + n * Period /\ quota' = n
      BY <1>2 DEF GateOpen
    <3>2. QED BY <2>1, <2>2, <2>3, <3>1
  <2>5. TransportType' /\ HeadType'
    BY <1>2 DEF TypeOK, TransportType, HeadType, GateOpen
  <2>6. ClockType' /\ BufferType'
    BY <1>2, <2>4 DEF TypeOK, ClockType, BufferType, GateOpen
  <2>7. LoopType'
    BY <1>2, <2>2, <2>4, HostAssumption DEF TypeOK, BufferType, LoopType, GateOpen
  <2>8. QED BY <2>5, <2>6, <2>7 DEF TypeOK
<1>3. CASE DataEnd
  <2>1. TransportType'
    BY <1>3 DEF TypeOK, TransportType, DataEnd
  <2>2. HeadType'
    BY <1>3 DEF TypeOK, HeadType, DataEnd
  <2>3. ClockType' /\ BufferType' /\ LoopType'
    BY <1>3, GeometryAssumption DEF TypeOK, ClockType, BufferType, LoopType, DataEnd
  <2>4. QED BY <2>1, <2>2, <2>3 DEF TypeOK
<1>4. CASE DataReadError
  <2>1. TransportType'
    BY <1>4 DEF TypeOK, TransportType, DataReadError
  <2>2. HeadType'
    BY <1>4 DEF TypeOK, HeadType, DataReadError
  <2>3. ClockType' /\ BufferType' /\ LoopType'
    BY <1>4, GeometryAssumption DEF TypeOK, ClockType, BufferType, LoopType, DataReadError
  <2>4. QED BY <2>1, <2>2, <2>3 DEF TypeOK
<1>5. CASE DataBlocked
  <2>1. TransportType'
    BY <1>5 DEF TypeOK, TransportType, DataBlocked
  <2>2. HeadType'
    BY <1>5 DEF TypeOK, HeadType, DataBlocked
  <2>3. ClockType' /\ BufferType' /\ LoopType'
    <3>1. /\ UNCHANGED <<transport, clocks, selector, part_sectors, mixer, pc>>
          /\ quota' = 0
          /\ dest' = dest \/ dest' \in Parts
      BY <1>5 DEF DataBlocked
    <3>2. QED
      BY <3>1, GeometryAssumption DEF TypeOK, ClockType, BufferType, LoopType
  <2>4. QED BY <2>1, <2>2, <2>3 DEF TypeOK
<1>6. CASE DataDelivered
  <2>1. sunk' \in Seq([fad : Nat, to : {"ring", "buffer"}])
    BY <1>6, SunkType DEF DataDelivered
  <2>2. part_sectors' \in [Parts -> 0 .. PartSectors]
    BY <1>6, GeometryAssumption DEF TypeOK, BufferType, DataDelivered, PartFull
  <2>3. TransportType'
    BY <1>6, <2>1, <2>2 DEF TypeOK, TransportType, DataDelivered
  <2>4. HeadType'
    BY <1>6, <2>1, <2>2 DEF TypeOK, HeadType, DataDelivered
  <2>5. ClockType' /\ BufferType' /\ LoopType'
    <3>1. /\ quota > 0 /\ quota' = quota - 1
          /\ dest' = dest \/ dest' \in Parts
          /\ UNCHANGED <<transport, clocks, selector, mixer, pc>>
      BY <1>6 DEF DataDelivered
    <3>2. QED
      BY <3>1, <2>2, GeometryAssumption DEF TypeOK, ClockType, BufferType, LoopType
  <2>6. QED BY <2>3, <2>4, <2>5 DEF TypeOK
<1>7. CASE DataLoopDone
  <2>1. TransportType'
    BY <1>7 DEF TypeOK, TransportType, DataLoopDone
  <2>2. HeadType'
    BY <1>7 DEF TypeOK, HeadType, DataLoopDone
  <2>3. ClockType' /\ BufferType' /\ LoopType'
    BY <1>7, GeometryAssumption DEF TypeOK, ClockType, BufferType, LoopType, DataLoopDone, Parts
  <2>4. QED BY <2>1, <2>2, <2>3 DEF TypeOK
<1>8. QED BY <1>1, <1>2, <1>3, <1>4, <1>5, <1>6, <1>7 DEF DataTick

LEMMA ConsumeType == TypeOK /\ Consume => TypeOK'
<1> SUFFICES ASSUME TypeOK, Consume PROVE TypeOK'
  OBVIOUS
<1> USE DEF Deadline, transport, clocks, selector, mixer, loop, history
<1>1. CASE PlayRing
  <2>1. TransportType'
    BY <1>1 DEF TypeOK, TransportType, PlayRing
  <2>2. HeadType'
    BY <1>1 DEF TypeOK, HeadType, PlayRing
  <2>3. ring' \in Nat /\ cdda_ready' \in BOOLEAN
    <3>1. CASE \E n \in 1 .. ring : ring' = ring - n /\ UNCHANGED cdda_ready
      BY <3>1 DEF TypeOK, BufferType
    <3>2. CASE ring = 0 /\ cdda_ready' = FALSE /\ UNCHANGED ring
      BY <3>2
    <3>3. QED BY <1>1, <3>1, <3>2 DEF PlayRing
  <2>4. ClockType' /\ BufferType' /\ LoopType'
    BY <1>1, <2>3 DEF TypeOK, ClockType, BufferType, LoopType, PlayRing
  <2>5. QED BY <2>1, <2>2, <2>4 DEF TypeOK
<1>2. ASSUME NEW q \in Parts, Drain(q) PROVE TypeOK'
  <2>1. TransportType'
    BY <1>2 DEF TypeOK, TransportType, Drain
  <2>2. HeadType'
    BY <1>2 DEF TypeOK, HeadType, Drain
  <2>3. ClockType' /\ BufferType' /\ LoopType'
    BY <1>2, GeometryAssumption DEF TypeOK, ClockType, BufferType, LoopType, Drain
  <2>4. QED BY <2>1, <2>2, <2>3 DEF TypeOK
<1>3. CASE ClockChangeReset
  <2>1. TransportType'
    BY <1>3 DEF TypeOK, TransportType, ClockChangeReset
  <2>2. HeadType'
    BY <1>3 DEF TypeOK, HeadType, ClockChangeReset
  <2>3. ClockType' /\ BufferType' /\ LoopType'
    BY <1>3 DEF TypeOK, ClockType, BufferType, LoopType, ClockChangeReset
  <2>4. QED BY <2>1, <2>2, <2>3 DEF TypeOK
<1>4. QED BY <1>1, <1>2, <1>3 DEF Consume

LEMMA FieldType == TypeOK /\ FieldPasses => TypeOK'
<1> SUFFICES ASSUME TypeOK, FieldPasses PROVE TypeOK'
  OBVIOUS
<1> USE DEF transport, selector, mixer, history
<1>1. TransportType' /\ HeadType'
  BY DEF TypeOK, TransportType, HeadType, FieldPasses
<1>2. ClockType'
  BY AdvanceType DEF TypeOK, ClockType, FieldPasses, Deadline
<1>3. BufferType' /\ LoopType'
  BY DEF TypeOK, BufferType, LoopType, FieldPasses
<1>4. QED BY <1>1, <1>2, <1>3 DEF TypeOK

LEMMA NextType == TypeOK /\ LoopMatchesTransport /\ Next => TypeOK'
BY CommandType, CddaType, DataType, ConsumeType, FieldType DEF Next, Tick

----------------------------------------------------------------------------
(* The loops of a tick and the transport. *)

LEMMA LoopInvariant ==
  TypeOK /\ LoopMatchesTransport /\ Next => LoopMatchesTransport'
<1> SUFFICES ASSUME TypeOK, LoopMatchesTransport, Next PROVE LoopMatchesTransport'
  OBVIOUS
<1> USE DEF transport, clocks, selector, mixer, loop, history
<1>1. CASE Command
  <2>1. pc = "cpu" /\ pc' = "cpu"
    BY <1>1 DEF Command, PlayDisc, SeekDisc, PlayAudio, PlayData, PlayResume,
       SeekPause, SeekStop, SeekTo, ReadFile, ReadFileMissing, AbortFile,
       InitializeCDSystem, GetSessionInfo, AuthenticateDevice, ReportPaused,
       ProgramSelector
  <2>2. QED BY <2>1 DEF LoopMatchesTransport
<1>2. CASE FieldPasses
  BY <1>2 DEF FieldPasses, LoopMatchesTransport
<1>3. CASE Consume
  BY <1>3 DEF Consume, PlayRing, ClockChangeReset, Drain, LoopMatchesTransport
<1>4. CASE CddaTick
  <2>1. CASE CddaIdle \/ CddaEnd \/ CddaRefused \/ CddaBudgetSpent
    BY <2>1 DEF CddaIdle, CddaEnd, CddaRefused, CddaBudgetSpent, LoopMatchesTransport
  <2>2. CASE CddaStart
    <3>1. pc' = "gate" \/ next_cy' \in Int
      BY <2>2 DEF CddaStart, TypeOK, ClockType, Deadline
    <3>2. pc' # "data" /\ playing' = playing /\ cdda_play' = cdda_play
          /\ playing /\ cdda_play
      BY <2>2 DEF CddaStart
    <3>3. QED BY <3>1, <3>2, <2>2 DEF CddaStart, LoopMatchesTransport
  <2>3. CASE CddaRepeat
    BY <2>3 DEF CddaRepeat, CddaTurn, LoopMatchesTransport
  <2>4. CASE CddaDelivered
    <3>1. next_cy \in Int /\ SectorCycles \in Int /\ playing /\ cdda_play
      BY <2>4, GeometryAssumption DEF CddaDelivered, CddaTurn, LoopMatchesTransport
    <3>2. next_cy' \in Int
      BY <2>4, <3>1 DEF CddaDelivered
    <3>3. pc' # "data" /\ playing' = playing /\ cdda_play' = cdda_play
      BY <2>4 DEF CddaDelivered, CddaTurn
    <3>4. QED BY <3>1, <3>2, <3>3 DEF LoopMatchesTransport
  <2>5. QED BY <1>4, <2>1, <2>2, <2>3, <2>4 DEF CddaTick
<1>5. CASE DataTick
  <2>1. CASE GateClosed
    BY <2>1 DEF GateClosed, LoopMatchesTransport
  <2>2. CASE GateOpen
    BY <2>2 DEF GateOpen, DriveBusy, LoopMatchesTransport
  <2>3. CASE DataEnd \/ DataReadError \/ DataBlocked
    <3>1. quota' = 0 /\ pc' = "data"
      BY <2>3 DEF DataEnd, DataReadError, DataBlocked, DataTurn
    <3>2. QED BY <3>1 DEF LoopMatchesTransport
  <2>4. CASE DataDelivered
    BY <2>4 DEF DataDelivered, DataTurn, LoopMatchesTransport
  <2>5. CASE DataLoopDone
    BY <2>5 DEF DataLoopDone, LoopMatchesTransport
  <2>6. QED BY <1>5, <2>1, <2>2, <2>3, <2>4, <2>5 DEF DataTick
<1>6. QED BY <1>1, <1>2, <1>3, <1>4, <1>5 DEF Next, Tick

----------------------------------------------------------------------------
(* The sectors of a pass. *)

\* A step either starts a new pass where it puts the head, or consumes the
\* sector under the head and moves past it, or leaves head and history alone.
HeadKept == UNCHANGED <<fad, pass_start, sunk>>
HeadMoved == NewPass(fad')
HeadPassed == \E sink \in {"ring", "buffer"} :
                Sunk(sink) /\ fad' = fad + 1 /\ UNCHANGED pass_start

LEMMA HeadSteps == TypeOK /\ Next => HeadKept \/ HeadMoved \/ HeadPassed
<1> SUFFICES ASSUME TypeOK, Next PROVE HeadKept \/ HeadMoved \/ HeadPassed
  OBVIOUS
<1> USE DEF transport, clocks, selector, mixer, loop, history, NewPass, NewRange,
            HeadKept, HeadMoved, HeadPassed
<1>1. CASE Command
  <2>1. ASSUME NEW req \in PlayRequests, PlayDisc(req) PROVE HeadMoved
    BY <2>1 DEF PlayDisc, PlayAudio, PlayData
  <2>2. CASE PlayResume
    BY <2>2 DEF PlayResume, SameConsumerOrNewPass
  <2>3. CASE SeekDisc
    BY <2>3 DEF SeekDisc, SeekPause, SeekStop, SeekTo
  <2>4. ASSUME NEW file \in Files, NEW off \in 0 .. file.nsec, ReadFile(file, off)
        PROVE  HeadMoved
    BY <2>4 DEF ReadFile
  <2>5. CASE ReadFileMissing \/ AbortFile \/ GetSessionInfo \/ AuthenticateDevice
              \/ ProgramSelector
    BY <2>5 DEF ReadFileMissing, AbortFile, GetSessionInfo, AuthenticateDevice,
       ReportPaused, ProgramSelector
  <2>6. ASSUME NEW soft \in BOOLEAN, InitializeCDSystem(soft) PROVE HeadMoved
    BY <2>6 DEF InitializeCDSystem
  <2>7. QED BY <1>1, <2>1, <2>2, <2>3, <2>4, <2>5, <2>6 DEF Command
<1>2. CASE FieldPasses \/ Consume
  BY <1>2 DEF FieldPasses, Consume, PlayRing, ClockChangeReset, Drain
<1>3. CASE CddaTick
  BY <1>3 DEF CddaTick, CddaIdle, CddaStart, CddaRepeat, CddaEnd, CddaRefused,
     CddaDelivered, CddaBudgetSpent
<1>4. CASE DataTick
  BY <1>4 DEF DataTick, GateClosed, GateOpen, DataEnd, DataReadError, DataBlocked,
     DataDelivered, DataLoopDone
<1>5. QED BY <1>1, <1>2, <1>3, <1>4 DEF Next, Tick

LEMMA HeadInvariant ==
  TypeOK /\ TypeOK' /\ HeadFollowsSectors /\ Next => HeadFollowsSectors'
<1> SUFFICES ASSUME TypeOK, TypeOK', HeadFollowsSectors, Next
             PROVE  HeadFollowsSectors'
  OBVIOUS
<1>1. CASE HeadKept
  BY <1>1 DEF HeadKept, HeadFollowsSectors
<1>2. CASE HeadMoved
  <2>1. /\ pass_start' = fad' /\ sunk' = <<>> /\ Len(sunk') = 0
    BY <1>2 DEF HeadMoved, NewPass
  <2>2. fad' \in Nat
    BY DEF TypeOK, HeadType
  <2>3. fad' = pass_start' + Len(sunk')
    <3>1. \A n \in Nat : n = n + 0
      OBVIOUS
    <3>2. QED BY <2>1, <2>2, <3>1
  <2>4. \A i \in 1 .. Len(sunk') : FALSE
    BY <2>1
  <2>5. QED BY <2>3, <2>4 DEF HeadFollowsSectors
<1>3. CASE HeadPassed
  <2>1. PICK sink \in {"ring", "buffer"} :
          Sunk(sink) /\ fad' = fad + 1 /\ pass_start' = pass_start
    BY <1>3 DEF HeadPassed
  <2>2. /\ Len(sunk') = Len(sunk) + 1
        /\ \A i \in 1 .. Len(sunk) : sunk'[i] = sunk[i]
        /\ sunk'[Len(sunk) + 1] = [fad |-> fad, to |-> sink]
    BY <2>1, SunkType
  <2>3. Len(sunk) \in Nat /\ fad \in Nat /\ pass_start \in Nat
    BY DEF TypeOK, HeadType
  <2>4. fad' = pass_start' + Len(sunk')
    BY <2>1, <2>2, <2>3 DEF HeadFollowsSectors
  <2>5. ASSUME NEW i \in 1 .. Len(sunk')
        PROVE  sunk'[i].fad = pass_start' + i - 1
    <3>1. CASE i \in 1 .. Len(sunk)
      BY <3>1, <2>1, <2>2 DEF HeadFollowsSectors
    <3>2. CASE i = Len(sunk) + 1
      <4>1. sunk'[i].fad = fad
        BY <3>2, <2>2
      <4>2. QED BY <4>1, <3>2, <2>1, <2>3 DEF HeadFollowsSectors
    <3>3. QED BY <3>1, <3>2, <2>2, <2>3
  <2>6. QED BY <2>4, <2>5 DEF HeadFollowsSectors
<1>4. QED BY <1>1, <1>2, <1>3, HeadSteps

----------------------------------------------------------------------------
(* The CD-DA ring. *)

LEMMA RingInvariant ==
  TypeOK /\ RingNotLapped /\ FullRingIsPlayed /\ Next
    => RingNotLapped' /\ FullRingIsPlayed'
<1> SUFFICES ASSUME TypeOK, RingNotLapped, FullRingIsPlayed, Next
             PROVE  RingNotLapped' /\ FullRingIsPlayed'
  OBVIOUS
<1> USE DEF transport, clocks, selector, mixer, loop, history, RingNotLapped,
            FullRingIsPlayed
<1>1. CASE CddaDelivered
  <2>1. /\ ring \in Nat /\ RingSectors \in Nat
        /\ ring' = ring + 1 /\ ~RingRefuses
        /\ cdda_ready' = (cdda_ready \/ ring' >= ReadySectors)
    BY <1>1, GeometryAssumption DEF CddaDelivered, TypeOK, BufferType
  <2>2. RingNotLapped'
    BY <2>1 DEF RingRefuses
  <2>3. FullRingIsPlayed'
    BY <2>1
  <2>4. QED BY <2>2, <2>3
<1>2. CASE PlayRing
  <2>1. /\ ring \in Nat /\ RingSectors \in Nat
        /\ ReadySectors \in Nat \ {0}
    BY GeometryAssumption DEF TypeOK, BufferType
  <2>2. CASE \E n \in 1 .. ring : ring' = ring - n /\ UNCHANGED cdda_ready
    BY <1>2, <2>1, <2>2 DEF PlayRing
  <2>3. CASE ring = 0 /\ UNCHANGED ring
    BY <2>1, <2>3
  <2>4. QED BY <1>2, <2>2, <2>3 DEF PlayRing
<1>3. CASE ClockChangeReset
  BY <1>3, GeometryAssumption DEF ClockChangeReset
<1>4. ASSUME UNCHANGED mixer PROVE RingNotLapped' /\ FullRingIsPlayed'
  BY <1>4
<1>5. ASSUME NEW q \in Parts, Drain(q) PROVE UNCHANGED mixer
  BY <1>5 DEF Drain
<1>6. CASE Command
  <2>1. UNCHANGED mixer
    BY <1>6 DEF Command, PlayDisc, SeekDisc, PlayAudio, PlayData, PlayResume,
       SeekPause, SeekStop, SeekTo, ReadFile, ReadFileMissing, AbortFile,
       InitializeCDSystem, GetSessionInfo, AuthenticateDevice, ReportPaused,
       ProgramSelector
  <2>2. QED BY <2>1
<1>7. CASE FieldPasses \/ CddaIdle \/ CddaStart \/ CddaRepeat \/ CddaEnd
            \/ CddaRefused \/ CddaBudgetSpent
  <2>1. UNCHANGED mixer
    BY <1>7 DEF FieldPasses, CddaIdle, CddaStart, CddaRepeat, CddaEnd, CddaRefused,
       CddaBudgetSpent
  <2>2. QED BY <2>1
<1>8. CASE DataTick
  <2>1. UNCHANGED mixer
    BY <1>8 DEF DataTick, GateClosed, GateOpen, DataEnd, DataReadError, DataBlocked,
       DataDelivered, DataLoopDone
  <2>2. QED BY <2>1
<1>9. QED
  BY <1>1, <1>2, <1>3, <1>4, <1>5, <1>6, <1>7, <1>8 DEF Next, Tick, Consume, CddaTick

----------------------------------------------------------------------------
(* One consumer per pass. *)

Consumers == LastSinkMatches /\ OneConsumer

\* A sector joins the pass of the consumer that is playing.
LEMMA SunkConsumer ==
  ASSUME TypeOK, Consumers, playing,
         NEW sink \in {"ring", "buffer"}, Sunk(sink),
         sink = "ring" <=> cdda_play,
         playing' = playing, cdda_play' = cdda_play
  PROVE  Consumers'
<1>1. /\ Len(sunk') = Len(sunk) + 1 /\ Len(sunk) \in Nat
      /\ \A i \in 1 .. Len(sunk) : sunk'[i] = sunk[i]
      /\ sunk'[Len(sunk) + 1] = [fad |-> fad, to |-> sink]
  BY SunkType DEF TypeOK, HeadType
<1>2. sunk'[Len(sunk')].to = sink
  BY <1>1
<1>3. LastSinkMatches'
  BY <1>2 DEF LastSinkMatches
<1>4. CASE sunk = <<>>
  <2>1. Len(sunk) = 0
    BY <1>4
  <2>2. QED BY <1>1, <1>3, <2>1 DEF Consumers, OneConsumer
<1>5. CASE sunk # <<>>
  <2>1. Len(sunk) \in Nat \ {0}
    BY <1>5, EmptySeq DEF TypeOK, HeadType
  <2>2. sunk[Len(sunk)] \in [fad : Nat, to : {"ring", "buffer"}]
    <3>1. Len(sunk) \in 1 .. Len(sunk)
      BY <2>1
    <3>2. QED BY <3>1, ElementOfSeq DEF TypeOK, HeadType
  <2>3. sunk[Len(sunk)].to = sink
    BY <1>5, <2>2 DEF Consumers, LastSinkMatches
  <2>4. sunk[1].to = sink
    <3>1. CASE Len(sunk) = 1
      BY <2>3, <3>1
    <3>2. CASE Len(sunk) >= 2
      <4>1. Len(sunk) \in 2 .. Len(sunk)
        BY <2>1, <3>2
      <4>2. QED BY <2>3, <4>1 DEF Consumers, OneConsumer
    <3>3. Len(sunk) = 1 \/ Len(sunk) >= 2
      BY <2>1
    <3>4. QED BY <3>1, <3>2, <3>3
  <2>5. ASSUME NEW i \in 2 .. Len(sunk') PROVE sunk'[i].to = sunk'[1].to
    <3>1. sunk'[1].to = sink
      BY <1>1, <2>1, <2>4
    <3>2. CASE i \in 2 .. Len(sunk)
      BY <3>1, <3>2, <1>1, <2>4 DEF Consumers, OneConsumer
    <3>3. CASE i = Len(sunk')
      BY <3>1, <3>3, <1>2
    <3>4. QED BY <1>1, <3>2, <3>3
  <2>6. QED BY <1>3, <2>5 DEF Consumers, OneConsumer
<1>6. QED BY <1>4, <1>5

\* An empty pass has no consumer yet.
LEMMA NewPassConsumer == ASSUME sunk' = <<>> PROVE Consumers'
BY DEF Consumers, LastSinkMatches, OneConsumer

\* A drive that is stopped, or keeps its mode, keeps the pass as it is.
LEMMA SameConsumer ==
  ASSUME Consumers, sunk' = sunk,
         ~playing' \/ (playing /\ cdda_play' = cdda_play)
  PROVE  Consumers'
BY DEF Consumers, LastSinkMatches, OneConsumer

LEMMA ConsumerInvariant ==
  TypeOK /\ LoopMatchesTransport /\ Consumers /\ Next => Consumers'
<1> SUFFICES ASSUME TypeOK, LoopMatchesTransport, Consumers, Next
             PROVE  Consumers'
  OBVIOUS
<1> USE DEF transport, clocks, selector, mixer, loop, history, NewPass, NewRange
<1> USE SameConsumer, NewPassConsumer
<1>1. CASE Command
  <2>1. ASSUME NEW req \in PlayRequests, PlayDisc(req) PROVE Consumers'
    BY <2>1 DEF PlayDisc, PlayAudio, PlayData
  <2>2. CASE PlayResume
    <3>1. CASE UNCHANGED <<playing, cdda_play, history>>
      BY <3>1
    <3>2. CASE sunk' = <<>>
      BY <3>2
    <3>3. CASE /\ UNCHANGED history
               /\ playing' = TRUE
               /\ ~(sunk # <<>> /\ (sunk[Len(sunk)].to = "ring") # cdda_play')
               /\ cdda_play' = LbaIsAudio(Lba(fad))
      BY <3>3 DEF Consumers, LastSinkMatches, OneConsumer, LbaIsAudio
    <3>4. QED BY <2>2, <3>1, <3>2, <3>3 DEF PlayResume, SameConsumerOrNewPass
  <2>3. CASE SeekDisc
    BY <2>3 DEF SeekDisc, SeekPause, SeekStop, SeekTo
  <2>4. ASSUME NEW file \in Files, NEW off \in 0 .. file.nsec, ReadFile(file, off)
        PROVE  Consumers'
    BY <2>4 DEF ReadFile
  <2>5. CASE ReadFileMissing \/ AbortFile \/ GetSessionInfo \/ AuthenticateDevice
              \/ ProgramSelector
    <3>1. sunk' = sunk /\ cdda_play' = cdda_play /\ (playing' = playing \/ ~playing')
      BY <2>5 DEF ReadFileMissing, AbortFile, GetSessionInfo, AuthenticateDevice,
         ReportPaused, ProgramSelector
    <3>2. QED BY <3>1 DEF Consumers, LastSinkMatches, OneConsumer
  <2>6. ASSUME NEW soft \in BOOLEAN, InitializeCDSystem(soft) PROVE Consumers'
    BY <2>6 DEF InitializeCDSystem
  <2>7. QED BY <1>1, <2>1, <2>2, <2>3, <2>4, <2>5, <2>6 DEF Command
<1>2. CASE FieldPasses \/ Consume
  <2>1. UNCHANGED <<playing, cdda_play, sunk>>
    BY <1>2 DEF FieldPasses, Consume, PlayRing, ClockChangeReset, Drain
  <2>2. QED BY <2>1 DEF Consumers, LastSinkMatches, OneConsumer
<1>3. CASE CddaTick
  <2>1. CASE CddaIdle \/ CddaStart \/ CddaRefused \/ CddaBudgetSpent
    <3>1. UNCHANGED <<playing, cdda_play, sunk>>
      BY <2>1 DEF CddaIdle, CddaStart, CddaRefused, CddaBudgetSpent
    <3>2. QED BY <3>1 DEF Consumers, LastSinkMatches, OneConsumer
  <2>2. CASE CddaEnd
    BY <2>2 DEF CddaEnd
  <2>3. CASE CddaRepeat
    BY <2>3 DEF CddaRepeat
  <2>4. CASE CddaDelivered
    <3>1. playing /\ cdda_play /\ Sunk("ring") /\ UNCHANGED <<playing, cdda_play>>
      BY <2>4 DEF CddaDelivered, CddaTurn, LoopMatchesTransport
    <3>2. QED BY <3>1, SunkConsumer
  <2>5. QED BY <1>3, <2>1, <2>2, <2>3, <2>4 DEF CddaTick
<1>4. CASE DataTick
  <2>1. CASE GateClosed \/ GateOpen \/ DataBlocked \/ DataLoopDone
    <3>1. UNCHANGED <<playing, cdda_play, sunk>>
      BY <2>1 DEF GateClosed, GateOpen, DataBlocked, DataLoopDone
    <3>2. QED BY <3>1 DEF Consumers, LastSinkMatches, OneConsumer
  <2>2. CASE DataEnd \/ DataReadError
    BY <2>2 DEF DataEnd, DataReadError
  <2>3. CASE DataDelivered
    <3>1. playing /\ ~cdda_play /\ Sunk("buffer") /\ UNCHANGED <<playing, cdda_play>>
      BY <2>3 DEF DataDelivered, DataTurn, LoopMatchesTransport
    <3>2. QED BY <3>1, SunkConsumer
  <2>4. QED BY <1>4, <2>1, <2>2, <2>3 DEF DataTick
<1>5. QED BY <1>1, <1>2, <1>3, <1>4 DEF Next, Tick

----------------------------------------------------------------------------
(* The theorems. *)

LEMMA StutterInvariant == IInv /\ UNCHANGED vars => IInv'
BY DEF IInv, TypeOK, TransportType, HeadType, ClockType, BufferType, LoopType,
   HeadFollowsSectors, RingNotLapped, FullRingIsPlayed, LoopMatchesTransport, LastSinkMatches,
   OneConsumer, vars, transport, clocks, selector, mixer, loop, history

\* IInv is inductive: it holds at power-on, and every command, every step of a
\* tick and every step of a consumer keeps it.
THEOREM Invariance == Spec => []IInv
<1>1. Init => IInv
  <2> SUFFICES ASSUME Init PROVE IInv
    OBVIOUS
  <2>1. TypeOK
    BY InitType
  <2>2. sunk = <<>> /\ Len(sunk) = 0 /\ fad = UnknownFad /\ pass_start = UnknownFad
    BY DEF Init
  <2>3. HeadFollowsSectors
    <3>1. \A i \in 1 .. Len(sunk) : FALSE
      BY <2>2
    <3>2. fad = pass_start + Len(sunk)
      BY <2>2, GeometryAssumption
    <3>3. QED BY <3>1, <3>2 DEF HeadFollowsSectors
  <2>4. RingNotLapped /\ FullRingIsPlayed
    BY GeometryAssumption DEF Init, RingNotLapped, FullRingIsPlayed
  <2>5. LoopMatchesTransport
    BY DEF Init, LoopMatchesTransport
  <2>6. LastSinkMatches /\ OneConsumer
    BY <2>2 DEF LastSinkMatches, OneConsumer
  <2>7. QED BY <2>1, <2>3, <2>4, <2>5, <2>6 DEF IInv
<1>2. IInv /\ [Next]_vars => IInv'
  <2> SUFFICES ASSUME IInv, Next PROVE IInv'
    BY StutterInvariant
  <2>1. TypeOK'
    BY NextType DEF IInv
  <2>2. HeadFollowsSectors' /\ RingNotLapped' /\ FullRingIsPlayed' /\ LoopMatchesTransport'
    BY <2>1, HeadInvariant, RingInvariant, LoopInvariant DEF IInv
  <2>3. Consumers'
    BY ConsumerInvariant DEF IInv, Consumers
  <2>4. QED BY <2>1, <2>2, <2>3 DEF IInv, Consumers
<1>3. QED BY <1>1, <1>2, PTL DEF Spec

\* The variables of the drive keep their types and their bounds; among them, no
\* partition ever holds more than PartSectors sectors.
THEOREM TypeCorrect == Spec => []TypeOK
<1>1. IInv => TypeOK
  BY DEF IInv
<1>2. QED BY <1>1, Invariance, PTL

\* However refusals, full partitions, pauses, seeks and resumes interleave, a
\* pass consumes every sector under the head exactly once, in order.
THEOREM NoSectorLost == Spec => []HeadFollowsSectors
<1>1. IInv => HeadFollowsSectors
  BY DEF IInv
<1>2. QED BY <1>1, Invariance, PTL

\* scsp_cdda_push never lets the writer of the CD-DA ring catch its reader.
THEOREM NoLap == Spec => []RingNotLapped
<1>1. IInv => RingNotLapped
  BY DEF IInv
<1>2. QED BY <1>1, Invariance, PTL

\* A ring with enough in it is being played, so a full one is always emptied:
\* the drive never waits for a mixer that waits for the drive.
THEOREM FullRingAlwaysPlayed == Spec => []FullRingIsPlayed
<1>1. IInv => FullRingIsPlayed
  BY DEF IInv
<1>2. QED BY <1>1, Invariance, PTL

\* The two loops of cdb_tick never share a pass of the head.
THEOREM OneHead == Spec => []OneConsumer
<1>1. IInv => OneConsumer
  BY DEF IInv
<1>2. QED BY <1>1, Invariance, PTL

\* PEND is raised only by the step that ends a play: never by a command, by a
\* repeat, or by a drive that is already stopped.
THEOREM PendOnlyAtEnd == Spec => PendEndsPlay
<1> DEFINE A == "PEND" \in raised' => playing /\ ~playing'
<1>1. IInv /\ [Next]_vars => [A]_vars
  <2> SUFFICES ASSUME IInv, Next PROVE [A]_vars
    OBVIOUS
  <2> USE DEF transport, clocks, selector, mixer, loop, history
  <2>1. CASE Command \/ Consume \/ FieldPasses
    <3>1. "PEND" \notin raised'
      BY <2>1 DEF Command, PlayDisc, SeekDisc, PlayAudio, PlayData, PlayResume,
         SeekPause, SeekStop, SeekTo, ReadFile, ReadFileMissing, AbortFile,
         InitializeCDSystem, GetSessionInfo, AuthenticateDevice, ReportPaused,
         ProgramSelector, Consume, PlayRing, ClockChangeReset, Drain, FieldPasses
    <3>2. QED BY <3>1
  <2>2. CASE CddaTick
    <3>1. CASE CddaEnd
      BY <3>1 DEF CddaEnd, CddaTurn, IInv, LoopMatchesTransport
    <3>2. CASE ~CddaEnd
      <4>1. "PEND" \notin raised'
        BY <2>2, <3>2 DEF CddaTick, CddaIdle, CddaStart, CddaRepeat, CddaRefused,
           CddaDelivered, CddaBudgetSpent
      <4>2. QED BY <4>1
    <3>3. QED BY <3>1, <3>2
  <2>3. CASE DataTick
    <3>1. CASE DataEnd
      BY <3>1 DEF DataEnd, DataTurn, IInv, LoopMatchesTransport
    <3>2. CASE ~DataEnd
      <4>1. CASE DataLoopDone
        BY <4>1 DEF DataLoopDone
      <4>2. CASE ~DataLoopDone
        <5>1. raised' = {}
          BY <2>3, <3>2, <4>2 DEF DataTick, GateClosed, GateOpen, DataReadError,
             DataBlocked, DataDelivered
        <5>2. QED BY <5>1
      <4>3. QED BY <4>1, <4>2
    <3>3. QED BY <3>1, <3>2
  <2>4. QED BY <2>1, <2>2, <2>3 DEF Next, Tick
<1>2. QED BY <1>1, Invariance, PTL DEF Spec, PendEndsPlay

\* A drive that stops by itself raises PEND and EFLS and reports a pause, at the
\* end of any range and at an audio sector that does not read.  The one stop
\* that is not told is at a data sector that does not read, and it leaves the
\* range, the head, the partitions and the ring as they are.
THEOREM StopsAnnounced == Spec => StopIsAnnounced
<1> DEFINE A == playing /\ ~playing' /\ pc # "cpu" =>
                  IF AtEnd \/ cdda_play THEN ToldOfStop ELSE StoppedAtSector
<1>1. IInv /\ [Next]_vars => [A]_vars
  <2> SUFFICES ASSUME IInv, Next PROVE [A]_vars
    OBVIOUS
  <2> USE DEF transport, clocks, selector, mixer, loop, history
  <2>1. CASE Command \/ Consume \/ FieldPasses
    <3>1. pc = "cpu"
      BY <2>1 DEF Command, PlayDisc, SeekDisc, PlayAudio, PlayData, PlayResume,
         SeekPause, SeekStop, SeekTo, ReadFile, ReadFileMissing, AbortFile,
         InitializeCDSystem, GetSessionInfo, AuthenticateDevice, ReportPaused,
         ProgramSelector, Consume, PlayRing, ClockChangeReset, Drain, FieldPasses
    <3>2. QED BY <3>1
  <2>2. CASE CddaTick
    <3>1. CASE CddaEnd
      <4>1. cdda_play
        BY <3>1 DEF CddaEnd, CddaTurn, IInv, LoopMatchesTransport
      <4>2. ToldOfStop
        BY <3>1 DEF CddaEnd, ToldOfStop
      <4>3. QED BY <4>1, <4>2
    <3>2. CASE ~CddaEnd
      <4>1. playing' = playing
        BY <2>2, <3>2 DEF CddaTick, CddaIdle, CddaStart, CddaRepeat, CddaRefused,
           CddaDelivered, CddaBudgetSpent
      <4>2. QED BY <4>1
    <3>3. QED BY <3>1, <3>2
  <2>3. CASE DataTick
    <3>1. CASE DataEnd
      <4>1. AtEnd /\ ToldOfStop
        BY <3>1 DEF DataEnd, ToldOfStop
      <4>2. QED BY <4>1
    <3>2. CASE DataReadError
      <4>1. ~AtEnd /\ ~cdda_play
        BY <3>2 DEF DataReadError, DataTurn, IInv, LoopMatchesTransport
      <4>2. StoppedAtSector
        BY <3>2 DEF DataReadError, StoppedAtSector
      <4>3. QED BY <4>1, <4>2
    <3>3. CASE ~DataEnd /\ ~DataReadError
      <4>1. playing' = playing
        BY <2>3, <3>3 DEF DataTick, GateClosed, GateOpen, DataBlocked,
           DataDelivered, DataLoopDone
      <4>2. QED BY <4>1
    <3>4. QED BY <3>1, <3>2, <3>3
  <2>4. QED BY <2>1, <2>2, <2>3 DEF Next, Tick
<1>2. QED BY <1>1, Invariance, PTL DEF Spec, StopIsAnnounced

\* A tick only fills partitions, and a full partition holds the head at a sector
\* that is routed to it: nothing is dropped for want of room.
THEOREM FullPartitionAlwaysHolds == Spec => FullPartitionHolds
<1> DEFINE A == \A q \in Parts :
                  pc # "cpu" => /\ part_sectors'[q] >= part_sectors[q]
                                /\ (part_sectors[q] = PartSectors /\ pc = "data"
                                    /\ Readable(Lba(fad)) /\ Destination = q) => fad' = fad
<1>1. IInv /\ [Next]_vars => [A]_vars
  <2> DEFINE Grows(q) == part_sectors'[q] >= part_sectors[q]
             Waits(q) == part_sectors[q] = PartSectors /\ pc = "data"
                         /\ Readable(Lba(fad)) /\ Destination = q
  <2> SUFFICES ASSUME IInv, Next, pc # "cpu", NEW q \in Parts
               PROVE  Grows(q) /\ (Waits(q) => fad' = fad)
    OBVIOUS
  <2> USE DEF transport, clocks, selector, mixer, loop, history
  <2>1. /\ part_sectors \in [Parts -> 0 .. PartSectors]
        /\ part_sectors[q] \in Nat /\ PartSectors \in Nat
    BY GeometryAssumption DEF IInv, TypeOK, BufferType
  <2>2. CASE Command \/ Consume \/ FieldPasses
    <3>1. pc = "cpu"
      BY <2>2 DEF Command, PlayDisc, SeekDisc, PlayAudio, PlayData, PlayResume,
         SeekPause, SeekStop, SeekTo, ReadFile, ReadFileMissing, AbortFile,
         InitializeCDSystem, GetSessionInfo, AuthenticateDevice, ReportPaused,
         ProgramSelector, Consume, PlayRing, ClockChangeReset, Drain, FieldPasses
    <3>2. QED BY <3>1
  <2>3. CASE CddaTick
    <3>1. part_sectors' = part_sectors /\ pc # "data"
      BY <2>3 DEF CddaTick, CddaIdle, CddaStart, CddaTurn, CddaRepeat, CddaEnd,
         CddaRefused, CddaDelivered, CddaBudgetSpent
    <3>2. QED BY <3>1, <2>1
  <2>4. CASE DataDelivered
    <3>1. CASE Destination = NotRouted /\ UNCHANGED <<dest, part_sectors>>
      <4>1. NotRouted \notin Parts
        BY DEF NotRouted, Parts
      <4>2. QED BY <3>1, <4>1, <2>1
    <3>2. CASE /\ Destination \in Parts /\ ~PartFull(Destination, FALSE)
               /\ part_sectors' = [part_sectors EXCEPT ![Destination] = @ + 1]
      <4>1. Grows(q)
        BY <3>2, <2>1
      <4>2. ~Waits(q)
        BY <3>2, <2>1 DEF PartFull
      <4>3. QED BY <4>1, <4>2
    <3>3. QED BY <2>4, <3>1, <3>2 DEF DataDelivered
  <2>5. CASE DataTick /\ ~DataDelivered
    <3>1. part_sectors' = part_sectors /\ fad' = fad
      BY <2>5 DEF DataTick, GateClosed, GateOpen, DataEnd, DataReadError,
         DataBlocked, DataLoopDone
    <3>2. QED BY <3>1, <2>1
  <2>6. QED BY <2>2, <2>3, <2>4, <2>5 DEF Next, Tick
<1>2. QED BY <1>1, Invariance, PTL DEF Spec, FullPartitionHolds
=============================================================================
