----------------------------- MODULE SmpcProofs -----------------------------
(* Theorems about Smpc: its invariants for any set of guest programs, any     *)
(* slave routines and any delays between a command and its execution; and      *)
(* about Pad, that a program that clocks the port gets the same report.        *)
EXTENDS Smpc, Pad, SequenceTheorems, TLAPS

(***************************************************************************)
(* Types the records need beyond TypeOK.                                   *)
(***************************************************************************)
RecordTypes ==
  /\ host \in [asks : Commands \cup {"nothing"}, served : BOOLEAN, behind : BOOLEAN]
  /\ pending \in [on : BOOLEAN, cmd : Commands \cup {"none"}, left : 0 .. LongDelay,
                silent : BOOLEAN]
  /\ ib \in [active : BOOLEAN, first : BOOLEAN]
  /\ sr \in [pads : BOOLEAN, pdl : BOOLEAN, npe : BOOLEAN]
  /\ file \in [whole : BOOLEAN, ste : BOOLEAN, smem : Inputs]
  /\ chosen \in [on : BOOLEAN, smem : Inputs]
  /\ uses \in SUBSET Commands

(***************************************************************************)
(* Why a poll cannot end early.  A command that was written with the busy  *)
(* flag keeps it set until it is carried out, so a program that found the  *)
(* flag clear either has its own command pending, with the flag, until     *)
(* that is carried out, or was behind one written without; and the         *)
(* interrupt an INTBACK is awaited by was taken before it was asked, with  *)
(* nothing left that could raise it.                                       *)
(***************************************************************************)
BusyWhilePending == (up /\ pending.on /\ ~pending.silent) => sf
AskedIsPending ==
  (up /\ host # Idle /\ ~host.served /\ ~host.behind)
    => (pending.on /\ pending.cmd = host.asks /\ ~pending.silent /\ ~irq)

(***************************************************************************)
(* Why the settings survive: the file is whole and holds the choice        *)
(* whenever there is one, whether or not the process runs.                 *)
(***************************************************************************)
FileHoldsChoice ==
  chosen.on => (file.whole /\ file.ste /\ file.smem = chosen.smem)

Types == TypeOK /\ RecordTypes
Served == BusyWhilePending /\ AskedIsPending
Kept == FileHoldsChoice /\ SettingsSurvive

-----------------------------------------------------------------------------
(* Types.                                                                    *)

LEMMA RecordFacts ==
  /\ Blank \in Inputs
  /\ Idle \in [asks : Commands \cup {"nothing"}, served : BOOLEAN, behind : BOOLEAN]
  /\ NoCommand \in [on : BOOLEAN, cmd : Commands \cup {"none"}, left : 0 .. LongDelay,
                silent : BOOLEAN]
  /\ NoFile \in [whole : BOOLEAN, ste : BOOLEAN, smem : Inputs]
  /\ NoChoice \in [on : BOOLEAN, smem : Inputs]
<1>1. Blank \in Inputs
  BY DEF Blank, Inputs
<1>2. Idle \in [asks : Commands \cup {"nothing"}, served : BOOLEAN, behind : BOOLEAN]
  BY DEF Idle
<1>3. NoCommand \in [on : BOOLEAN, cmd : Commands \cup {"none"}, left : 0 .. LongDelay,
                silent : BOOLEAN]
  BY DelayAssumption DEF NoCommand
<1>4. /\ NoFile \in [whole : BOOLEAN, ste : BOOLEAN, smem : Inputs]
      /\ NoChoice \in [on : BOOLEAN, smem : Inputs]
  BY <1>1 DEF NoFile, NoChoice
<1> QED
  BY <1>1, <1>2, <1>3, <1>4

LEMMA ReportFacts ==
  /\ \A a, b \in BOOLEAN :
       [active |-> a, first |-> b] \in [active : BOOLEAN, first : BOOLEAN]
  /\ \A a, b, c \in BOOLEAN :
       [pads |-> a, pdl |-> b, npe |-> c] \in [pads : BOOLEAN, pdl : BOOLEAN, npe : BOOLEAN]
OBVIOUS

LEMMA InitTypes == Init => Types
<1> SUFFICES ASSUME Init PROVE Types
  OBVIOUS
<1>1. TypeOK
  <2>1. pending.left \in 0 .. LongDelay
    BY DelayAssumption DEF Init, NoCommand
  <2> QED
    BY <2>1, RecordFacts DEF Init, TypeOK
<1>2. /\ host = Idle /\ pending = NoCommand /\ file = NoFile /\ chosen = NoChoice
      /\ ib = [active |-> FALSE, first |-> FALSE]
      /\ sr = [pads |-> TRUE, pdl |-> FALSE, npe |-> FALSE] /\ uses \in Programs
  BY DEF Init
<1>3. RecordTypes
  BY <1>2, RecordFacts, ProgramsAssumption DEF RecordTypes
<1> QED
  BY <1>1, <1>3 DEF Types

LEMMA BootTypes ==
  ASSUME Types, Boot
  PROVE  Types'
<1>1. Loaded \in [whole : BOOLEAN, ste : BOOLEAN, smem : Inputs]
  BY RecordFacts DEF Types, RecordTypes, Loaded
<1>2. /\ host' = Idle /\ pending' = NoCommand /\ UNCHANGED <<uses, file, chosen>>
      /\ ib' = [active |-> FALSE, first |-> FALSE]
      /\ sr' = [pads |-> TRUE, pdl |-> FALSE, npe |-> FALSE]
      /\ smem' = Loaded.smem
  BY DEF Boot, Reset
<1>3. RecordTypes'
  BY <1>2, RecordFacts DEF Types, RecordTypes
<1>4. pending'.left \in 0 .. LongDelay /\ smem' \in Inputs
  BY <1>1, <1>2, DelayAssumption DEF NoCommand
<1>5. TypeOK'
  BY <1>4, RecordFacts DEF Boot, Reset, TypeOK
<1> QED
  BY <1>3, <1>5 DEF Types

\* The steps of the two CPUs.
LEMMA CpuTypes ==
  ASSUME Types,
         \/ Stop
         \/ \E c \in Commands, input \in Inputs : Ask(c, input)
         \/ \E c \in Commands, sets \in BOOLEAN : WriteUnpolled(c, sets)
         \/ Answered \/ TakeInterrupt \/ TakeNmi
         \/ \E bit \in {"break", "continue", "other"} : WriteIreg0(bit)
         \/ \E r \in Routines : ParkRoutine(r) \/ StoreRoutine(r) \/ RegisterEntry(r)
         \/ RunSlave
  PROVE  Types'
<1> USE DEF smpc, cpu
<1>1. CASE Stop
  <2>1. up' \in BOOLEAN
    BY <1>1 DEF Stop
  <2> QED
    BY <1>1, <2>1 DEF Stop, Types, TypeOK, RecordTypes
<1>2. ASSUME NEW c \in Commands, Command(c)
      PROVE  pending' \in [on : BOOLEAN, cmd : Commands \cup {"none"}, left : 0 .. LongDelay,
                silent : BOOLEAN]
  <2>1. \/ pending' = pending
        \/ pending' = [on |-> TRUE, cmd |-> c,
                       left |-> IF c \in Resets THEN LongDelay ELSE ShortDelay,
                       silent |-> ~sf']
    BY <1>2 DEF Command, Accept
  <2>2. (IF c \in Resets THEN LongDelay ELSE ShortDelay) \in 0 .. LongDelay
    BY DelayAssumption
  <2>3. [on |-> TRUE, cmd |-> c, left |-> IF c \in Resets THEN LongDelay ELSE ShortDelay,
         silent |-> ~sf']
          \in [on : BOOLEAN, cmd : Commands \cup {"none"}, left : 0 .. LongDelay,
                silent : BOOLEAN]
    BY <2>2
  <2> QED
    BY <2>1, <2>3, Zenon DEF Types, RecordTypes
<1>3. ASSUME NEW c \in Commands, NEW input \in Inputs, Ask(c, input)
      PROVE  Types'
  <2>1. pending' \in [on : BOOLEAN, cmd : Commands \cup {"none"}, left : 0 .. LongDelay,
                silent : BOOLEAN]
    BY <1>2, <1>3 DEF Ask
  <2>2. host' \in [asks : Commands \cup {"nothing"}, served : BOOLEAN, behind : BOOLEAN]
    <3>1. host' = [asks |-> c, served |-> FALSE, behind |-> pending.on]
      BY <1>3 DEF Ask
    <3>2. pending.on \in BOOLEAN
      BY DEF Types, RecordTypes
    <3> QED
      BY ONLY <1>3, <3>1, <3>2
  <2>3. RecordTypes'
    BY <1>3, <2>1, <2>2 DEF Types, RecordTypes, Ask
  <2>4. pending'.left \in 0 .. LongDelay
    BY <2>1
  <2> QED
    BY <1>3, <2>3, <2>4 DEF Types, TypeOK, Ask
<1>4. ASSUME NEW c \in Commands, NEW sets \in BOOLEAN, WriteUnpolled(c, sets)
      PROVE  Types'
  <2>1. pending' \in [on : BOOLEAN, cmd : Commands \cup {"none"}, left : 0 .. LongDelay,
                silent : BOOLEAN]
    BY <1>2, <1>4 DEF WriteUnpolled
  <2>2. pending'.left \in 0 .. LongDelay
    BY <2>1
  <2> QED
    BY <1>4, <2>1, <2>2 DEF Types, TypeOK, RecordTypes, WriteUnpolled
<1>5. CASE Answered
  BY <1>5, RecordFacts DEF Types, TypeOK, RecordTypes, Answered
<1>6. CASE TakeInterrupt \/ TakeNmi
  BY <1>6 DEF Types, TypeOK, RecordTypes, TakeInterrupt, TakeNmi
<1>7. ASSUME NEW bit, WriteIreg0(bit)
      PROVE  Types'
  <2>1. ireg' \in Inputs
    BY <1>7 DEF WriteIreg0, Types, TypeOK, Inputs
  <2>0. /\ ib \in [active : BOOLEAN, first : BOOLEAN] /\ ib.first \in BOOLEAN
        /\ sr \in [pads : BOOLEAN, pdl : BOOLEAN, npe : BOOLEAN] /\ sr.pads \in BOOLEAN
    BY DEF Types, RecordTypes
  <2>2. /\ ib' \in [active : BOOLEAN, first : BOOLEAN]
        /\ sr' \in [pads : BOOLEAN, pdl : BOOLEAN, npe : BOOLEAN]
    <3>1. CASE UNCHANGED <<ib, sr>>
      BY <2>0, <3>1
    <3>2. CASE SendPads
      BY <2>0, <3>2, ReportFacts DEF SendPads
    <3>3. CASE /\ ib' = [ib EXCEPT !.active = FALSE]
               /\ sr' = [sr EXCEPT !.npe = FALSE, !.pdl = FALSE]
      BY <2>0, <3>3
    <3> QED
      BY <1>7, <3>1, <3>2, <3>3 DEF WriteIreg0
  <2> QED
    BY <1>7, <2>1, <2>2 DEF Types, TypeOK, RecordTypes, WriteIreg0
<1>8. ASSUME NEW r \in Routines, ParkRoutine(r) \/ StoreRoutine(r) \/ RegisterEntry(r)
      PROVE  Types'
  BY <1>8 DEF Types, TypeOK, RecordTypes, ParkRoutine, StoreRoutine, RegisterEntry
<1>9. CASE RunSlave
  BY <1>9 DEF Types, TypeOK, RecordTypes, RunSlave
<1> QED
  BY <1>1, <1>3, <1>4, <1>5, <1>6, <1>7, <1>8, <1>9

LEMMA ExecutionTypes ==
  ASSUME Types, NEW c \in Commands, Execution(c), UNCHANGED <<uses, ireg>>, up
  PROVE  /\ ib' \in [active : BOOLEAN, first : BOOLEAN]
         /\ sr' \in [pads : BOOLEAN, pdl : BOOLEAN, npe : BOOLEAN]
         /\ file' \in [whole : BOOLEAN, ste : BOOLEAN, smem : Inputs]
         /\ chosen' \in [on : BOOLEAN, smem : Inputs]
         /\ up' \in BOOLEAN /\ smem' \in Inputs /\ UNCHANGED ckchg
         /\ entry' \in Routines \cup {NoRoutine} /\ UNCHANGED <<stored, mailbox>>
<1> USE RecordFacts DEF Types, TypeOK, RecordTypes, cpu
<1>1. CASE c = "INTBACK"
  <2>1. ireg.pads \in BOOLEAN
    BY DEF Inputs
  <2>2. /\ Intback
        /\ UNCHANGED <<ckchg, clock_352, ste, resd, smem, sound, file, chosen, cpu, up>>
    BY <1>1 DEF Execution, Resets
  <2>3. /\ ib \in [active : BOOLEAN, first : BOOLEAN] /\ ib.first \in BOOLEAN
        /\ sr \in [pads : BOOLEAN, pdl : BOOLEAN, npe : BOOLEAN]
    OBVIOUS
  <2>4. /\ \/ ib' = [active |-> FALSE, first |-> FALSE]
           \/ ib' = [active |-> FALSE, first |-> TRUE]
           \/ ib' = [active |-> ireg.pads, first |-> TRUE]
        /\ \/ sr' = sr
           \/ sr' = [pads |-> TRUE, pdl |-> ib.first, npe |-> FALSE]
           \/ sr' = [pads |-> FALSE, pdl |-> TRUE, npe |-> ireg.pads]
           \/ sr' = [pads |-> TRUE, pdl |-> TRUE, npe |-> FALSE]
    BY <2>2, Zenon DEF Intback, SendPads
  <2>5. ib' \in [active : BOOLEAN, first : BOOLEAN]
    BY ONLY <2>1, <2>4, ReportFacts, Zenon
  <2>6. sr' \in [pads : BOOLEAN, pdl : BOOLEAN, npe : BOOLEAN]
    <3>1. /\ TRUE \in BOOLEAN /\ FALSE \in BOOLEAN
          /\ ib.first \in BOOLEAN /\ ireg.pads \in BOOLEAN
      BY <2>1, <2>3
    <3>2. CASE sr' = sr
      BY <2>3, <3>2
    <3>3. CASE sr' = [pads |-> TRUE, pdl |-> ib.first, npe |-> FALSE]
      BY ONLY <3>1, <3>3, ReportFacts, Zenon
    <3>4. CASE sr' = [pads |-> FALSE, pdl |-> TRUE, npe |-> ireg.pads]
      BY ONLY <3>1, <3>4, ReportFacts, Zenon
    <3>5. CASE sr' = [pads |-> TRUE, pdl |-> TRUE, npe |-> FALSE]
      BY ONLY <3>1, <3>5, ReportFacts, Zenon
    <3> QED
      BY ONLY <2>4, <3>2, <3>3, <3>4, <3>5
  <2> QED
    BY <2>2, <2>5, <2>6
<1>2. CASE c = "SSHON"
  BY <1>2 DEF Execution, Resets, ReleaseSlave
<1>3. CASE c = "SSHOFF"
  BY <1>3 DEF Execution, Resets
<1>4. CASE c \in {"SETTIME", "SETSMEM"}
  <2>1. /\ smem' \in Inputs
        /\ \/ file' = [whole |-> TRUE, ste |-> TRUE, smem |-> smem'] /\ up' = TRUE
           \/ file' = NoFile /\ up' = FALSE
        /\ \/ chosen' = chosen
           \/ chosen' = [on |-> TRUE, smem |-> ireg]
           \/ chosen' = NoChoice
        /\ UNCHANGED <<ckchg, ib, sr, cpu>>
    BY <1>4 DEF Execution, Resets, SetTime, SetSmem, Save
  <2>2. up' \in BOOLEAN
    BY ONLY <2>1
  <2>3. file' \in [whole : BOOLEAN, ste : BOOLEAN, smem : Inputs]
    <3>1. [whole |-> TRUE, ste |-> TRUE, smem |-> smem']
             \in [whole : BOOLEAN, ste : BOOLEAN, smem : Inputs]
      BY ONLY <2>1
    <3> QED
      BY ONLY <2>1, <3>1, RecordFacts, Zenon
  <2>4. /\ chosen \in [on : BOOLEAN, smem : Inputs]
        /\ ireg \in Inputs
    OBVIOUS
  <2>5. chosen' \in [on : BOOLEAN, smem : Inputs]
    <3>1. [on |-> TRUE, smem |-> ireg] \in [on : BOOLEAN, smem : Inputs]
      BY ONLY <2>4
    <3> QED
      BY ONLY <2>1, <2>4, <3>1, RecordFacts, Zenon
  <2> QED
    BY <2>1, <2>2, <2>3, <2>5
<1>5. CASE c \in {"SNDON", "SNDOFF", "RESENAB", "RESDISA"}
  <2>1. UNCHANGED <<ib, sr, file, chosen, up, smem, ckchg, cpu>>
    BY <1>5 DEF Execution, Resets
  <2> QED
    BY <2>1
<1>6. CASE c \in {"SYSRES", "CDON"} \cup Resets
  BY <1>6 DEF Execution, Resets, EndsNow
<1> QED
  BY <1>1, <1>2, <1>3, <1>4, <1>5, <1>6 DEF Commands

\* The three things a tick does: nothing, count down, or carry the command out.
TickWaits ==
  /\ ~pending.on /\ UNCHANGED <<host, pending, sf>> /\ EndsNow
TickCounts ==
  /\ pending.on /\ pending.left > 1
  /\ pending' = [pending EXCEPT !.left = pending.left - 1]
  /\ UNCHANGED <<host, sf>> /\ EndsNow
TickCarriesOut ==
  /\ pending.on /\ pending' = NoCommand /\ sf' = FALSE
  /\ host' = [host EXCEPT !.served = host.served \/ pending.cmd = host.asks]
  /\ IF pending.cmd \in Resets \ {"SYSRES"} THEN ChangeClock(pending.cmd)
     ELSE Execution(pending.cmd)

LEMMA TickCases ==
  ASSUME SmpcTick
  PROVE  /\ up /\ turn' = "master" /\ UNCHANGED <<uses, ireg, comreg>>
         /\ TickWaits \/ TickCounts \/ TickCarriesOut
BY DEF SmpcTick, TickWaits, TickCounts, TickCarriesOut

LEMMA TickTypes ==
  ASSUME Types, SmpcTick
  PROVE  Types'
<1> USE DEF cpu
<1>1. CASE TickWaits
  BY <1>1, TickCases DEF TickWaits, EndsNow, Types, TypeOK, RecordTypes
<1>2. CASE TickCounts
  <2>1. /\ pending' = [pending EXCEPT !.left = pending.left - 1]
        /\ UNCHANGED <<uses, ireg, comreg, host, sf>> /\ EndsNow /\ turn' = "master"
    BY <1>2, TickCases DEF TickCounts
  <2>2. pending.left - 1 \in 0 .. LongDelay
    BY <1>2, DelayAssumption DEF TickCounts, Types, TypeOK
  <2>3. pending' \in [on : BOOLEAN, cmd : Commands \cup {"none"}, left : 0 .. LongDelay,
                silent : BOOLEAN]
    BY <2>1, <2>2 DEF Types, RecordTypes
  <2> QED
    BY <2>1, <2>2, <2>3 DEF EndsNow, Types, TypeOK, RecordTypes
<1>3. CASE TickCarriesOut
  <2>1. /\ pending' = NoCommand /\ sf' = FALSE /\ turn' = "master"
        /\ host' = [host EXCEPT !.served = host.served \/ pending.cmd = host.asks]
        /\ UNCHANGED <<uses, ireg, comreg>> /\ up
        /\ IF pending.cmd \in Resets \ {"SYSRES"} THEN ChangeClock(pending.cmd)
           ELSE Execution(pending.cmd)
    BY <1>3, TickCases DEF TickCarriesOut
  <2>2. host' \in [asks : Commands \cup {"nothing"}, served : BOOLEAN, behind : BOOLEAN]
    BY <2>1 DEF Types, RecordTypes
  <2>3. pending'.left \in 0 .. LongDelay
    BY <2>1, DelayAssumption DEF NoCommand
  <2>4. CASE ChangeClock(pending.cmd)
    <3>1. /\ ckchg' = 2 /\ pending' = NoCommand
          /\ UNCHANGED <<uses, ireg, ib, sr, ste, smem, file, chosen, up, mailbox, stored, entry>>
      BY <2>1, <2>4 DEF ChangeClock
    <3>2. TypeOK'
      BY <2>1, <2>3, <3>1 DEF Types, TypeOK
    <3>3. RecordTypes'
      BY <2>2, <3>1, RecordFacts DEF Types, RecordTypes
    <3> QED
      BY <3>2, <3>3 DEF Types
  <2>5. CASE Execution(pending.cmd)
    <3>1. pending.cmd \in Commands
      BY <2>5 DEF Execution, Commands, Resets
    <3>2. /\ ib' \in [active : BOOLEAN, first : BOOLEAN]
          /\ sr' \in [pads : BOOLEAN, pdl : BOOLEAN, npe : BOOLEAN]
          /\ file' \in [whole : BOOLEAN, ste : BOOLEAN, smem : Inputs]
          /\ chosen' \in [on : BOOLEAN, smem : Inputs]
          /\ up' \in BOOLEAN /\ smem' \in Inputs /\ UNCHANGED ckchg
          /\ entry' \in Routines \cup {NoRoutine} /\ UNCHANGED <<stored, mailbox>>
      BY <2>1, <2>5, <3>1, ExecutionTypes
    <3> QED
      BY <2>1, <2>2, <2>3, <3>2, RecordFacts DEF Types, TypeOK, RecordTypes
  <2> QED
    BY <2>1, <2>4, <2>5
<1> QED
  BY <1>1, <1>2, <1>3, TickCases

\* Every register, record and setting keeps its type.
THEOREM TypeCorrect == Spec => []Types
<1>1. Types /\ [Next]_vars => Types'
  <2> SUFFICES ASSUME Types, [Next]_vars PROVE Types'
    OBVIOUS
  <2>1. CASE Next
    BY <2>1, BootTypes, CpuTypes, TickTypes DEF Next
  <2>2. CASE UNCHANGED vars
    BY <2>2 DEF vars, smpc, cpu, Types, TypeOK, RecordTypes
  <2> QED
    BY <2>1, <2>2
<1> QED
  BY InitTypes, <1>1, PTL DEF Spec

-----------------------------------------------------------------------------
(* Requests.                                                                 *)

\* A command that is carried out leaves the host no longer waiting for it.
LEMMA TickServes ==
  ASSUME Types, Served, SmpcTick
  PROVE  Served'
<1> USE DEF Served, BusyWhilePending, AskedIsPending
<1>1. CASE TickWaits
  BY <1>1 DEF TickWaits, EndsNow
<1>2. CASE TickCounts
  <2>1. /\ pending' = [pending EXCEPT !.left = pending.left - 1]
        /\ UNCHANGED <<host, sf, irq, up>>
    BY <1>2 DEF TickCounts, EndsNow
  <2>2. /\ pending'.on = pending.on /\ pending'.cmd = pending.cmd
        /\ pending'.silent = pending.silent
    BY <2>1 DEF Types, RecordTypes
  <2> QED
    BY <2>1, <2>2
<1>3. CASE TickCarriesOut
  <2>1. /\ pending' = NoCommand /\ sf' = FALSE /\ pending.on /\ up
        /\ host' = [host EXCEPT !.served = host.served \/ pending.cmd = host.asks]
    BY <1>3, TickCases DEF TickCarriesOut
  <2>2. CASE host = Idle
    BY <2>1, <2>2 DEF Idle, NoCommand
  <2>3. CASE host # Idle
    <3>1. host.served \/ host.behind \/ pending.cmd = host.asks
      BY <2>1, <2>3 DEF Types, RecordTypes
    <3>2. host'.served \/ host'.behind
      BY <2>1, <3>1 DEF Types, RecordTypes
    <3> QED
      BY <2>1, <3>2 DEF NoCommand
  <2> QED
    BY <2>2, <2>3
<1> QED
  BY <1>1, <1>2, <1>3, TickCases

LEMMA StepServes ==
  ASSUME Types, Served, [Next]_vars
  PROVE  Served'
<1> USE DEF Served, BusyWhilePending, AskedIsPending, smpc, cpu
<1>1. CASE Boot
  BY <1>1 DEF Boot, Reset, Idle, NoCommand
<1>2. CASE Stop
  BY <1>2 DEF Stop
<1>3. ASSUME NEW c \in Commands, NEW input \in Inputs, Ask(c, input)
      PROVE  Served'
  <2>1. /\ sf' = TRUE /\ irq' = irq /\ ~irq /\ up' = up /\ Command(c)
        /\ host' = [asks |-> c, served |-> FALSE, behind |-> pending.on]
    BY <1>3 DEF Ask
  <2>2. CASE pending.on
    BY <2>1, <2>2
  <2>3. CASE ~pending.on
    <3>1. pending'.on /\ pending'.cmd = c /\ ~pending'.silent
      <4>1. Accept(c)
        BY <2>1, <2>3 DEF Command
      <4>2. /\ pending'.on = TRUE /\ pending'.cmd = c /\ pending'.silent = ~sf'
        BY <4>1 DEF Accept
      <4> QED
        BY <2>1, <4>2
    <3> QED
      BY <2>1, <3>1
  <2> QED
    BY <2>2, <2>3
<1>4. ASSUME NEW c \in Commands, NEW sets \in BOOLEAN, WriteUnpolled(c, sets)
      PROVE  Served'
  <2>1. /\ sf' = (sf \/ sets) /\ Command(c) /\ UNCHANGED <<up, host, irq>>
    BY <1>4 DEF WriteUnpolled
  <2>2. CASE pending.on
    <3>1. pending' = pending
      BY <2>1, <2>2 DEF Command
    <3> QED
      BY <2>1, <3>1
  <2>3. CASE ~pending.on
    <3>1. pending'.silent = ~sf'
      BY <2>1, <2>3 DEF Command, Accept
    <3> QED
      BY <2>1, <2>3, <3>1
  <2> QED
    BY <2>2, <2>3
<1>5. CASE Answered
  BY <1>5 DEF Answered
<1>6. CASE TakeInterrupt \/ TakeNmi
  BY <1>6 DEF TakeInterrupt, TakeNmi
<1>7. ASSUME NEW bit, WriteIreg0(bit)
      PROVE  Served'
  BY <1>7 DEF WriteIreg0
<1>8. ASSUME NEW r \in Routines, ParkRoutine(r) \/ StoreRoutine(r) \/ RegisterEntry(r)
      PROVE  Served'
  BY <1>8 DEF ParkRoutine, StoreRoutine, RegisterEntry
<1>9. CASE RunSlave
  BY <1>9 DEF RunSlave
<1>10. CASE SmpcTick
  BY <1>10, TickServes
<1>11. CASE UNCHANGED vars
  BY <1>11 DEF vars
<1> QED
  BY <1>1, <1>2, <1>3, <1>4, <1>5, <1>6, <1>7, <1>8, <1>9, <1>10, <1>11 DEF Next

\* The end of a command that a polling program sees is the end of its own
\* command, whatever others write and whenever, unless it asked behind a command
\* that had been written without the busy flag (smpc_command, smpc_tick).
THEOREM RequestsAreServed == Spec => []RequestIsServed
<1>1. Init => Served
  BY DEF Init, Served, BusyWhilePending, AskedIsPending
<1>2. Types /\ Served /\ [Next]_vars => Served'
  BY StepServes
<1>3. Types /\ Served => RequestIsServed
  BY DEF Types, RecordTypes, Served, BusyWhilePending, AskedIsPending, RequestIsServed, Polled
<1> QED
  BY <1>1, <1>2, <1>3, TypeCorrect, PTL DEF Spec

-----------------------------------------------------------------------------
(* The report that is owed.                                                  *)

\* The three reports differ.
LEMMA ReportsDiffer ==
  /\ StatusReport # PadReport /\ StatusReport # NoReport /\ PadReport # NoReport
<1>1. StatusReport[1] = "status" /\ PadReport[1] = "pads" /\ NoReport[1] = "none"
  BY DEF StatusReport, PadReport, NoReport
<1> QED
  BY <1>1

LEMMA PadsAreAnnounced ==
  ASSUME SendPads
  PROVE  OwedIsAnnounced'
BY DEF SendPads, OwedIsAnnounced

\* An INTBACK owes what it announces, in each of its three forms.
LEMMA IntbackAnnounces ==
  ASSUME Types, OwedIsAnnounced, Intback, up, up' = up
  PROVE  OwedIsAnnounced'
<1>1. CASE ib.active
  BY <1>1, PadsAreAnnounced DEF Intback
<1>2. CASE ~ib.active /\ ireg.status
  <2>1. /\ ib' = [active |-> ireg.pads, first |-> TRUE]
        /\ oreg' = StatusReport
        /\ sr' = [pads |-> FALSE, pdl |-> TRUE, npe |-> ireg.pads]
    BY <1>2 DEF Intback
  <2> QED
    BY <2>1, ReportsDiffer DEF OwedIsAnnounced, PadReport
<1>3. CASE ~ib.active /\ ~ireg.status /\ ireg.pads
  BY <1>3 DEF Intback, OwedIsAnnounced
<1>4. CASE ~ib.active /\ ~ireg.status /\ ~ireg.pads
  BY <1>4 DEF Intback, OwedIsAnnounced, PadReport, NoReport
<1> QED
  BY <1>1, <1>2, <1>3, <1>4

\* Between the INTBACK, its continuation and its break, the status byte never
\* promises a report that is not owed, nor hides one that is.
THEOREM OwedAlwaysAnnounced == Spec => []OwedIsAnnounced
<1>1. Init => OwedIsAnnounced
  BY DEF Init, OwedIsAnnounced
<1>2. Types /\ OwedIsAnnounced /\ [Next]_vars => OwedIsAnnounced'
  <2> SUFFICES ASSUME Types, OwedIsAnnounced, [Next]_vars PROVE OwedIsAnnounced'
    OBVIOUS
  <2> USE DEF smpc, cpu
  <2>1. CASE Boot
    BY <2>1 DEF Boot, Reset, OwedIsAnnounced, NoReport
  <2>2. CASE Stop
    BY <2>2 DEF Stop, OwedIsAnnounced
  <2>3. CASE UNCHANGED <<up, ib, sr, oreg>>
    BY <2>3 DEF OwedIsAnnounced, PadReport, NoReport
  <2>4. ASSUME NEW bit, WriteIreg0(bit)
        PROVE  OwedIsAnnounced'
    <3>1. CASE SendPads
      BY <3>1, PadsAreAnnounced
    <3>2. CASE UNCHANGED <<ib, sr, oreg>>
      BY <2>4, <2>3, <3>2 DEF WriteIreg0
    <3>3. CASE /\ ib' = [ib EXCEPT !.active = FALSE]
               /\ sr' = [sr EXCEPT !.npe = FALSE, !.pdl = FALSE]
               /\ UNCHANGED oreg
      <4>1. ~ib'.active /\ ~sr'.npe /\ sr'.pads = sr.pads
        BY <3>3 DEF Types, RecordTypes
      <4> QED
        BY <2>4, <3>3, <4>1 DEF WriteIreg0, Master, OwedIsAnnounced, PadReport, NoReport
    <3> QED
      BY <2>4, <3>1, <3>2, <3>3 DEF WriteIreg0
  <2>5. CASE SmpcTick
    <3>1. CASE UNCHANGED <<ib, sr, oreg>>
      BY <2>5, <3>1 DEF SmpcTick, OwedIsAnnounced, PadReport, NoReport
    <3>2. CASE Intback /\ UNCHANGED up
      BY <2>5, <3>2, IntbackAnnounces DEF SmpcTick
    <3> QED
      BY <2>5, <3>1, <3>2 DEF SmpcTick, EndsNow, ChangeClock, Execution
  <2>6. ASSUME NEW c \in Commands, NEW input \in Inputs, NEW sets \in BOOLEAN, Ask(c, input) \/ WriteUnpolled(c, sets)
        PROVE  UNCHANGED <<up, ib, sr, oreg>>
    BY <2>6 DEF Ask, WriteUnpolled
  <2>7. CASE Answered \/ TakeInterrupt \/ TakeNmi \/ RunSlave
    BY <2>3, <2>7 DEF Answered, TakeInterrupt, TakeNmi, RunSlave
  <2>8. ASSUME NEW r \in Routines, ParkRoutine(r) \/ StoreRoutine(r) \/ RegisterEntry(r)
        PROVE  UNCHANGED <<up, ib, sr, oreg>>
    BY <2>8 DEF ParkRoutine, StoreRoutine, RegisterEntry
  <2>9. CASE UNCHANGED vars
    BY <2>3, <2>9 DEF vars
  <2> QED
    BY <2>1, <2>2, <2>3, <2>4, <2>5, <2>6, <2>7, <2>8, <2>9, RecordFacts DEF Next
<1> QED
  BY <1>1, <1>2, TypeCorrect, PTL DEF Spec

-----------------------------------------------------------------------------
(* The slave's release and the settings.                                     *)

\* A slave that was running when it was released again is reset before it
\* runs on (SSHON, run_slave).
THEOREM ReleaseAlwaysResets == Spec => []ReleaseIsAReset
<1>1. Init => ReleaseIsAReset
  BY DEF Init, ReleaseIsAReset
<1>2. ReleaseIsAReset /\ [Next]_vars => ReleaseIsAReset'
  <2> SUFFICES ASSUME ReleaseIsAReset, [Next]_vars PROVE ReleaseIsAReset'
    OBVIOUS
  <2> USE DEF ReleaseIsAReset, smpc, cpu
  <2>1. CASE Boot
    BY <2>1 DEF Boot, Reset
  <2>2. CASE Stop
    BY <2>2 DEF Stop
  <2>3. CASE UNCHANGED <<up, enabled, started, released>>
    BY <2>3
  <2>4. CASE RunSlave
    BY <2>4 DEF RunSlave, RetrySlave, Master
  <2>5. CASE SmpcTick
    <3>1. CASE ~enabled' \/ ~started'
      BY <3>1
    <3>2. CASE up /\ UNCHANGED <<enabled, started, released>>
      BY <3>2
    <3> QED
      BY <2>5, <3>1, <3>2 DEF SmpcTick, EndsNow, ChangeClock, Execution, ReleaseSlave
  <2>6. ASSUME NEW c \in Commands, NEW input \in Inputs, NEW sets \in BOOLEAN, Ask(c, input) \/ WriteUnpolled(c, sets)
        PROVE  UNCHANGED <<up, enabled, started, released>>
    BY <2>6 DEF Ask, WriteUnpolled
  <2>7. CASE Answered \/ TakeInterrupt \/ TakeNmi
    BY <2>3, <2>7 DEF Answered, TakeInterrupt, TakeNmi
  <2>8. ASSUME NEW r \in Routines, ParkRoutine(r) \/ StoreRoutine(r) \/ RegisterEntry(r)
        PROVE  UNCHANGED <<up, enabled, started, released>>
    BY <2>8 DEF ParkRoutine, StoreRoutine, RegisterEntry
  <2>9. ASSUME NEW bit, WriteIreg0(bit)
        PROVE  UNCHANGED <<up, enabled, started, released>>
    BY <2>9 DEF WriteIreg0
  <2>10. CASE UNCHANGED vars
    BY <2>3, <2>10 DEF vars
  <2> QED
    BY <2>1, <2>2, <2>3, <2>4, <2>5, <2>6, <2>7, <2>8, <2>9, <2>10, RecordFacts DEF Next
<1> QED
  BY <1>1, <1>2, PTL DEF Spec

\* The settings a boot loads are those of a whole file.
LEMMA BootKeeps ==
  ASSUME Kept, Boot
  PROVE  Kept'
BY DEF Kept, FileHoldsChoice, SettingsSurvive, Boot, Reset, Loaded

\* A save writes the settings the console has, or leaves no choice standing.
LEMMA ExecutionKeeps ==
  ASSUME Types, Kept, NEW c \in Commands, Execution(c), up
  PROVE  Kept'
<1> USE DEF Kept, FileHoldsChoice, SettingsSurvive
<1>1. CASE c = "SETTIME"
  <2>1. /\ ste' = TRUE /\ UNCHANGED smem
        /\ chosen' = (IF up' THEN chosen ELSE NoChoice)
        /\ \/ file' = [whole |-> TRUE, ste |-> TRUE, smem |-> smem] /\ up' = TRUE
           \/ up' = FALSE
    BY <1>1 DEF Execution, SetTime, Save, Resets
  <2> QED
    BY <2>1 DEF NoChoice
<1>2. CASE c = "SETSMEM"
  <2>1. /\ ste' = TRUE /\ smem' = ireg
        /\ chosen' = (IF up' THEN [on |-> TRUE, smem |-> ireg] ELSE NoChoice)
        /\ \/ file' = [whole |-> TRUE, ste |-> TRUE, smem |-> ireg] /\ up' = TRUE
           \/ up' = FALSE
    BY <1>2 DEF Execution, SetSmem, Save, Resets
  <2> QED
    BY <2>1 DEF NoChoice
<1>3. CASE c \notin {"SETTIME", "SETSMEM"}
  <2>1. UNCHANGED <<ste, smem, file, chosen, up>>
    BY <1>3 DEF Execution, EndsNow, Resets
  <2> QED
    BY <2>1
<1> QED
  BY <1>1, <1>2, <1>3

\* Every run of the program after the user chose has what the user chose,
\* unless one was ended in the middle of a save (SETSMEM, SETTIME,
\* smpc_persist_load).
THEOREM SettingsAlwaysSurvive == Spec => []SettingsSurvive
<1>1. Init => Kept
  BY DEF Init, Kept, FileHoldsChoice, SettingsSurvive, NoChoice
<1>2. Types /\ Kept /\ [Next]_vars => Kept'
  <2> SUFFICES ASSUME Types, Kept, [Next]_vars PROVE Kept'
    OBVIOUS
  <2> USE DEF smpc, cpu
  <2>1. CASE Boot
    BY <2>1, BootKeeps
  <2>2. CASE Stop
    BY <2>2 DEF Stop, Kept, FileHoldsChoice, SettingsSurvive
  <2>3. CASE UNCHANGED <<up, ste, smem, file, chosen>>
    BY <2>3 DEF Kept, FileHoldsChoice, SettingsSurvive
  <2>4. CASE SmpcTick
    <3>1. CASE UNCHANGED <<up, ste, smem, file, chosen>>
      BY <2>3, <3>1
    <3>2. CASE pending.on /\ Execution(pending.cmd)
      <4>1. pending.cmd \in Commands
        BY <3>2 DEF Execution, Commands, Resets
      <4> QED
        BY <2>4, <3>2, <4>1, ExecutionKeeps DEF SmpcTick
    <3> QED
      BY <2>4, <3>1, <3>2, TickCases
         DEF TickWaits, TickCounts, TickCarriesOut, EndsNow, ChangeClock
  <2>5. ASSUME NEW c \in Commands, NEW input \in Inputs, NEW sets \in BOOLEAN, Ask(c, input) \/ WriteUnpolled(c, sets)
        PROVE  UNCHANGED <<up, ste, smem, file, chosen>>
    BY <2>5 DEF Ask, WriteUnpolled
  <2>6. CASE Answered \/ TakeInterrupt \/ TakeNmi \/ RunSlave
    BY <2>3, <2>6 DEF Answered, TakeInterrupt, TakeNmi, RunSlave
  <2>7. ASSUME NEW r \in Routines, ParkRoutine(r) \/ StoreRoutine(r) \/ RegisterEntry(r)
        PROVE  UNCHANGED <<up, ste, smem, file, chosen>>
    BY <2>7 DEF ParkRoutine, StoreRoutine, RegisterEntry
  <2>8. ASSUME NEW bit, WriteIreg0(bit)
        PROVE  UNCHANGED <<up, ste, smem, file, chosen>>
    BY <2>8 DEF WriteIreg0
  <2>9. CASE UNCHANGED vars
    BY <2>3, <2>9 DEF vars
  <2> QED
    BY <2>1, <2>2, <2>3, <2>4, <2>5, <2>6, <2>7, <2>8, <2>9, RecordFacts DEF Next
<1>3. Kept => SettingsSurvive
  BY DEF Kept
<1> QED
  BY <1>1, <1>2, <1>3, TypeCorrect, PTL DEF Spec

-----------------------------------------------------------------------------
(* The pad. *)

PadTypes ==
  /\ analog \in BOOLEAN /\ ddr \in {"th", "thtr"}
  /\ th \in BOOLEAN /\ tr \in BOOLEAN /\ tl \in BOOLEAN /\ clocked \in BOOLEAN
  /\ pos \in 0 .. 15

\* What the program took is a first part of the stream, and the pad's place in
\* the stream is the program's until all is taken: where the pad does not stall,
\* TR has moved since the program's last nibble.
Nibbles == {Stream[i] : i \in 1 .. 16}
HandshakeInOrder ==
  (ddr = "thtr" /\ analog) =>
    /\ got \in Seq(Nibbles) /\ Len(got) <= 16
    /\ \A i \in 1 .. Len(got) : got[i] = Stream[i]
    /\ Len(got) < 16 => pos = Len(got)
    /\ (pos # 0 /\ tr # tl) => clocked

\* The groups taken from a standard pad are groups it has, each once.
Groups == {<<h, t, Group(h, t)>> : h \in BOOLEAN, t \in BOOLEAN}
GroupsTaken ==
  (ddr = "thtr" /\ ~analog) =>
    /\ got \in Seq(Groups)
    /\ \A i, j \in 1 .. Len(got) : got[i] = got[j] => i = j

PadInv == PadTypes /\ HandshakeInOrder /\ GroupsTaken

LEMMA PadStart == PadInit => PadInv
<1> SUFFICES ASSUME PadInit PROVE PadInv
  OBVIOUS
<1>1. got = <<>> /\ Len(got) = 0 /\ got \in Seq(Nibbles) /\ got \in Seq(Groups)
  BY DEF PadInit
<1>2. PadTypes
  <2>1. pos \in 0 .. 15
    BY DEF PadInit
  <2>2. th \in BOOLEAN /\ tr \in BOOLEAN /\ tl \in BOOLEAN /\ clocked \in BOOLEAN
    BY Zenon DEF PadInit
  <2> QED
    BY <2>1, <2>2, Zenon DEF PadInit, PadTypes
<1>3. HandshakeInOrder /\ GroupsTaken
  BY <1>1 DEF PadInit, HandshakeInOrder, GroupsTaken
<1> QED
  BY <1>2, <1>3 DEF PadInv

LEMMA Within == ASSUME NEW n \in Nat, n <= 16 PROVE n \in 0 .. 16
OBVIOUS

\* A nibble the program takes is the next one of the stream.
LEMMA NibbleInOrder ==
  ASSUME PadInv, ReadNibble
  PROVE  PadInv'
<1>1. /\ ddr = "thtr" /\ analog /\ ddr' = ddr /\ analog' = analog /\ tr' = tr /\ th' = th
      /\ tl' = tr /\ pos' = (pos + 1) % 16 /\ clocked' = FALSE
  BY DEF ReadNibble
<1>2. /\ got \in Seq(Nibbles) /\ Len(got) \in 0 .. 16 /\ pos \in 0 .. 15
      /\ \A i \in 1 .. Len(got) : got[i] = Stream[i]
      /\ Len(got) < 16 => pos = Len(got)
      /\ (pos # 0 /\ tr # tl) => clocked
  <2>1. /\ got \in Seq(Nibbles) /\ Len(got) <= 16 /\ pos \in 0 .. 15
        /\ \A i \in 1 .. Len(got) : got[i] = Stream[i]
        /\ Len(got) < 16 => pos = Len(got)
        /\ (pos # 0 /\ tr # tl) => clocked
    BY <1>1, Zenon DEF PadInv, PadTypes, HandshakeInOrder
  <2>2. Len(got) \in Nat
    BY <2>1, LenProperties
  <2>3. Len(got) \in 0 .. 16
    BY <2>1, <2>2, Within, Zenon
  <2> QED
    BY <2>1, <2>3, Zenon
<1>3. PadTypes'
  <2>1. pos' \in 0 .. 15
    BY <1>1, <1>2
  <2> QED
    BY <1>1, <2>1 DEF PadInv, PadTypes
<1>4. Len(Stream) = 16
  BY DEF Stream
<1>5. CASE Len(got) < 16
  <2>1. clocked \/ got = <<>>
    <3>1. CASE pos = 0
      BY <3>1, <1>2, <1>5, EmptySeq
    <3>2. CASE pos # 0
      BY <3>2, <1>2 DEF ReadNibble, Stalls
    <3> QED
      BY <3>1, <3>2
  <2>2. got' = Append(got, Stream[pos + 1])
    BY <2>1, <1>4, <1>5 DEF ReadNibble
  <2>3. Stream[pos + 1] \in Nibbles /\ pos + 1 = Len(got) + 1
    BY <1>2, <1>5 DEF Nibbles
  <2>4. /\ got' \in Seq(Nibbles) /\ Len(got') = Len(got) + 1
        /\ \A i \in 1 .. Len(got) : got'[i] = got[i]
        /\ got'[Len(got) + 1] = Stream[Len(got) + 1]
    BY <2>2, <2>3, <1>2, AppendProperties
  <2>5. \A i \in 1 .. Len(got') : got'[i] = Stream[i]
    BY <2>4, <1>2
  <2>6. Len(got') < 16 => pos' = Len(got')
    <3>1. Len(got') = Len(got) + 1 /\ pos' = (Len(got) + 1) % 16 /\ Len(got) \in 0 .. 16
      BY <2>4, <1>1, <1>2, <1>5
    <3> QED
      BY ONLY <3>1
  <2>7. Len(got') <= 16
    <3>1. Len(got') = Len(got) + 1 /\ Len(got) \in 0 .. 16 /\ Len(got) < 16
      BY <2>4, <1>2, <1>5
    <3> QED
      BY ONLY <3>1
  <2>8. HandshakeInOrder'
    BY <2>4, <2>5, <2>6, <2>7, <1>1, Zenon DEF HandshakeInOrder
  <2> QED
    BY <1>1, <1>3, <2>8, Zenon DEF PadInv, GroupsTaken
<1>6. CASE Len(got) >= 16
  <2>1. got' = got
    BY <1>4, <1>6, <1>2 DEF ReadNibble
  <2>2. ~(Len(got) < 16) /\ Len(got) <= 16
    <3>1. \A n \in 0 .. 16 : n >= 16 => ~(n < 16) /\ n <= 16
      OBVIOUS
    <3> QED
      BY <3>1, <1>2, <1>6, Zenon
  <2>3. HandshakeInOrder'
    BY <2>1, <2>2, <1>1, <1>2, Zenon DEF HandshakeInOrder
  <2> QED
    BY <1>1, <1>3, <2>3, Zenon DEF PadInv, GroupsTaken
<1> QED
  BY <1>2, <1>5, <1>6

\* A group is taken once.
LEMMA GroupOnce ==
  ASSUME PadInv, ReadGroup
  PROVE  PadInv'
<1>1. /\ ddr = "thtr" /\ ~analog
      /\ UNCHANGED <<analog, ddr, th, tr, pos, tl, clocked>>
  BY DEF ReadGroup
<1>2. PICK g \in Groups : got' = IF g \in ToSet(got) THEN got ELSE Append(got, g)
  <2>1. <<th, tr, Group(th, tr)>> \in Groups
    BY DEF PadInv, PadTypes, Groups
  <2> QED
    BY <2>1 DEF ReadGroup
<1>3. /\ got \in Seq(Groups) /\ Len(got) \in Nat
      /\ \A i, j \in 1 .. Len(got) : got[i] = got[j] => i = j
  BY <1>1, LenProperties DEF PadInv, GroupsTaken
<1>4. got' \in Seq(Groups) /\ \A i, j \in 1 .. Len(got') : got'[i] = got'[j] => i = j
  <2>1. CASE g \in ToSet(got)
    BY <2>1, <1>2, <1>3
  <2>2. CASE g \notin ToSet(got)
    <3>1. \A i \in 1 .. Len(got) : got[i] # g
      BY <2>2, <1>3 DEF ToSet
    <3>2. /\ got' \in Seq(Groups) /\ Len(got') = Len(got) + 1
          /\ \A i \in 1 .. Len(got) : got'[i] = got[i]
          /\ got'[Len(got) + 1] = g
      BY <2>2, <1>2, <1>3, AppendProperties
    <3> QED
      BY <3>1, <3>2, <1>3
  <2> QED
    BY <2>1, <2>2
<1> QED
  BY <1>1, <1>4 DEF PadInv, PadTypes, HandshakeInOrder, GroupsTaken

LEMMA PadStep == PadInv /\ [PadNext]_pad => PadInv'
<1> SUFFICES ASSUME PadInv, [PadNext]_pad PROVE PadInv'
  OBVIOUS
<1>1. ASSUME NEW h \in BOOLEAN, NEW t \in BOOLEAN, Select(h, t)
      PROVE  PadInv'
  <2>1. PadTypes'
    BY <1>1, Zenon DEF PadInv, PadTypes, Select
  <2>2. clocked' \/ tr' = tr
    BY <1>1 DEF Select, PadInv, PadTypes
  <2>3. clocked => clocked'
    BY <1>1 DEF Select
  <2>4. UNCHANGED <<analog, ddr, pos, tl, got>>
    BY <1>1 DEF Select
  <2>5. HandshakeInOrder'
    BY <2>2, <2>3, <2>4 DEF PadInv, HandshakeInOrder
  <2>6. GroupsTaken'
    BY <2>4 DEF PadInv, GroupsTaken
  <2> QED
    BY <2>1, <2>5, <2>6 DEF PadInv
<1>2. CASE ReadRestarts
  <2>1. got' = <<>> /\ Len(got') = 0 /\ got' \in Seq(Nibbles)
    BY <1>2 DEF ReadRestarts
  <2>2. pos' \in 0 .. 15 /\ pos' = 0
    BY <1>2 DEF ReadRestarts
  <2>3. analog' /\ ddr' = "thtr" /\ PadTypes'
    BY <1>2, <2>2, Zenon DEF ReadRestarts, PadInv, PadTypes
  <2> QED
    BY <2>1, <2>2, <2>3 DEF PadInv, HandshakeInOrder, GroupsTaken
<1>3. CASE ReadNibble
  BY <1>3, NibbleInOrder
<1>4. CASE ReadGroup
  BY <1>4, GroupOnce
<1>5. CASE ReadIdentity
  BY <1>5 DEF ReadIdentity, PadInv, PadTypes, HandshakeInOrder, GroupsTaken
<1>6. CASE ReadStalls \/ UNCHANGED pad
  BY <1>6 DEF ReadStalls, pad, PadInv, PadTypes, HandshakeInOrder, GroupsTaken
<1> QED
  BY <1>1, <1>2, <1>3, <1>4, <1>5, <1>6 DEF PadNext

\* The parts of the report.
LEMMA ReportParts ==
  ASSUME NEW a, NEW b, NEW c, NEW w, NEW x, NEW y, NEW z
  PROVE  LET s == <<a, b, c>> \o <<w, x, y, z>> IN
           s[2] = b /\ s[3] = c /\ s[4] = w /\ s[5] = x /\ s[6] = y /\ s[7] = z
OBVIOUS

LEMMA ReportStart ==
  ASSUME NEW a, NEW b, NEW c
  PROVE  LET s == <<a, b, c>> \o <<>> IN s[2] = b /\ s[3] = c
OBVIOUS

\* The second byte of buttons as the report has it, its last three bits high.
SecondButtons == <<High("~hi"), << <<"~hi", 3>>, One, One, One>> >>

LEMMA ReportBytes ==
  /\ Report[2] = Byte("~lo") /\ Report[3] = SecondButtons
  /\ analog => /\ Report[4] = Byte("x") /\ Report[5] = Byte("y")
               /\ Report[6] = Byte("r") /\ Report[7] = Byte("l")
<1> DEFINE id == <<Number(Zero, Zero, IF analog THEN One ELSE Zero),
                   Number(IF analog THEN One ELSE Zero, One, Zero)>>
<1>1. Report = <<id, Byte("~lo"), SecondButtons>>
                 \o IF analog THEN <<Byte("x"), Byte("y"), Byte("r"), Byte("l")>> ELSE <<>>
  BY Zenon DEF Report, SecondButtons
<1> HIDE DEF id
<1>2. CASE analog
  <2>1. Report = <<id, Byte("~lo"), SecondButtons>>
                   \o <<Byte("x"), Byte("y"), Byte("r"), Byte("l")>>
    BY <1>1, <1>2, Zenon
  <2> QED
    BY ONLY <2>1, ReportParts
<1>3. CASE ~analog
  <2>1. Report = <<id, Byte("~lo"), SecondButtons>> \o <<>>
    BY <1>1, <1>3, Zenon
  <2>2. Report[2] = Byte("~lo") /\ Report[3] = SecondButtons
    BY ONLY <2>1, ReportStart
  <2> QED
    BY <1>3, <2>2
<1> QED
  BY <1>2, <1>3

\* A byte has the controls it has.
LEMMA SameIsSame == ASSUME NEW a PROVE SameControls(a, a)
BY DEF SameControls

\* The second bytes of buttons differ in fixed bits alone.
LEMMA SameButtons == SameControls(<<High("~hi"), LeftTrigger>>, SecondButtons)
<1> DEFINE a == <<High("~hi"), LeftTrigger>>
<1>1. \A k \in 1 .. 4 : a[1][k] = SecondButtons[1][k]
  BY DEF SecondButtons
<1>2. \A k \in 1 .. 4 : \/ a[2][k] = SecondButtons[2][k]
                        \/ a[2][k] \in {Zero, One} /\ SecondButtons[2][k] \in {Zero, One}
  <2>1. a[2] = << <<"~hi", 3>>, One, Zero, Zero>>
    BY DEF LeftTrigger
  <2>2. SecondButtons[2] = << <<"~hi", 3>>, One, One, One>>
    BY DEF SecondButtons
  <2> QED
    BY ONLY <2>1, <2>2
<1>3. \A n \in 1 .. 2 : n = 1 \/ n = 2
  OBVIOUS
<1> HIDE DEF a
<1>4. SameControls(a, SecondButtons)
  BY <1>1, <1>2, <1>3, Zenon DEF SameControls
<1> QED
  BY <1>4 DEF a

\* The bytes of the whole handshake carry the controls of the INTBACK report,
\* each in its place.
LEMMA HandshakeIsReport ==
  ASSUME Len(got) = 16, \A i \in 1 .. 16 : got[i] = Stream[i], analog
  PROVE  \A i \in 1 .. 6 : SameControls(Clocked(i), Report[Place[i]])
<1>1. /\ got[3] = High("~lo") /\ got[4] = Low("~lo")
      /\ got[5] = High("~hi") /\ got[6] = LeftTrigger
      /\ got[7] = High("x") /\ got[8] = Low("x")
      /\ got[9] = High("y") /\ got[10] = Low("y")
      /\ got[11] = High("l") /\ got[12] = Low("l")
      /\ got[13] = High("r") /\ got[14] = Low("r")
  <2>1. /\ got[3] = Stream[3] /\ got[4] = Stream[4] /\ got[5] = Stream[5] /\ got[6] = Stream[6]
        /\ got[7] = Stream[7] /\ got[8] = Stream[8] /\ got[9] = Stream[9]
        /\ got[10] = Stream[10] /\ got[11] = Stream[11] /\ got[12] = Stream[12]
        /\ got[13] = Stream[13] /\ got[14] = Stream[14]
    OBVIOUS
  <2>2. /\ Stream[3] = High("~lo") /\ Stream[4] = Low("~lo")
        /\ Stream[5] = High("~hi") /\ Stream[6] = LeftTrigger
        /\ Stream[7] = High("x") /\ Stream[8] = Low("x")
        /\ Stream[9] = High("y") /\ Stream[10] = Low("y")
        /\ Stream[11] = High("l") /\ Stream[12] = Low("l")
        /\ Stream[13] = High("r") /\ Stream[14] = Low("r")
    BY ONLY DEF Stream
  <2> QED
    BY <2>1, <2>2, Zenon
<1>2. /\ Clocked(1) = <<got[3], got[4]>> /\ Clocked(2) = <<got[5], got[6]>>
      /\ Clocked(3) = <<got[7], got[8]>> /\ Clocked(4) = <<got[9], got[10]>>
      /\ Clocked(5) = <<got[11], got[12]>> /\ Clocked(6) = <<got[13], got[14]>>
  BY DEF Clocked
<1>3. /\ Clocked(1) = Byte("~lo") /\ Clocked(2) = <<High("~hi"), LeftTrigger>>
      /\ Clocked(3) = Byte("x") /\ Clocked(4) = Byte("y")
      /\ Clocked(5) = Byte("l") /\ Clocked(6) = Byte("r")
  BY <1>1, <1>2, Zenon DEF Byte
<1>4. /\ Place[1] = 2 /\ Place[2] = 3 /\ Place[3] = 4 /\ Place[4] = 5
      /\ Place[5] = 7 /\ Place[6] = 6
  BY DEF Place
<1>5. /\ SameControls(Clocked(1), Report[Place[1]]) /\ SameControls(Clocked(2), Report[Place[2]])
      /\ SameControls(Clocked(3), Report[Place[3]]) /\ SameControls(Clocked(4), Report[Place[4]])
      /\ SameControls(Clocked(5), Report[Place[5]]) /\ SameControls(Clocked(6), Report[Place[6]])
  BY <1>3, <1>4, ReportBytes, SameIsSame, SameButtons, Zenon
<1>6. \A i \in 1 .. 6 : i = 1 \/ i = 2 \/ i = 3 \/ i = 4 \/ i = 5 \/ i = 6
  OBVIOUS
<1> QED
  BY <1>5, <1>6, Zenon

\* Four groups of the standard pad carry the controls of the report.
LEMMA GroupsAreReport ==
  ASSUME PadInv, ddr = "thtr", ~analog, Len(got) = 4
  PROVE  \A i \in 1 .. 2 : SameControls(Selected[i], Report[i + 1])
<1>1. /\ got \in Seq(Groups)
      /\ \A i, j \in 1 .. 4 : got[i] = got[j] => i = j
  BY DEF PadInv, GroupsTaken
<1> DEFINE g1 == <<FALSE, FALSE, High("~hi")>>
           g2 == <<FALSE, TRUE, High("~lo")>>
           g3 == <<TRUE, FALSE, Low("~lo")>>
           g4 == <<TRUE, TRUE, LeftTrigger>>
<1>2. Groups = {g1, g2, g3, g4}
  <2>1. BOOLEAN = {FALSE, TRUE}
    OBVIOUS
  <2>2. /\ Group(FALSE, FALSE) = High("~hi") /\ Group(FALSE, TRUE) = High("~lo")
        /\ Group(TRUE, FALSE) = Low("~lo") /\ Group(TRUE, TRUE) = LeftTrigger
    BY DEF Group
  <2>3. \A x : x \in Groups <=> \E h, t \in BOOLEAN : x = <<h, t, Group(h, t)>>
    BY DEF Groups
  <2>4. \A x : x \in Groups <=> x \in {g1, g2, g3, g4}
    BY <2>1, <2>2, <2>3, Zenon
  <2> QED
    BY <2>4, Zenon
<1>3. /\ g1[1] = FALSE /\ g1[2] = FALSE /\ g1[3] = High("~hi")
      /\ g2[1] = FALSE /\ g2[2] = TRUE /\ g2[3] = High("~lo")
      /\ g3[1] = TRUE /\ g3[2] = FALSE /\ g3[3] = Low("~lo")
      /\ g4[1] = TRUE /\ g4[2] = TRUE /\ g4[3] = LeftTrigger
  OBVIOUS
<1> HIDE DEF g1, g2, g3, g4
<1>4. ToSet(got) = {g1, g2, g3, g4}
  <2>1. /\ got[1] \in {g1, g2, g3, g4} /\ got[2] \in {g1, g2, g3, g4}
        /\ got[3] \in {g1, g2, g3, g4} /\ got[4] \in {g1, g2, g3, g4}
    <3>1. 1 \in 1 .. 4 /\ 2 \in 1 .. 4 /\ 3 \in 1 .. 4 /\ 4 \in 1 .. 4
      OBVIOUS
    <3> QED
      BY <1>1, <1>2, <3>1, ElementOfSeq, Zenon
  <2>2. /\ got[1] # got[2] /\ got[1] # got[3] /\ got[1] # got[4]
        /\ got[2] # got[3] /\ got[2] # got[4] /\ got[3] # got[4]
    BY <1>1
  <2>3. ToSet(got) = {got[1], got[2], got[3], got[4]}
    <3>1. 1 .. 4 = {1, 2, 3, 4} /\ DOMAIN got = 1 .. 4
      BY <1>1
    <3> QED
      BY <3>1 DEF ToSet
  <2>4. {g1, g2, g3, g4} = {got[1], got[2], got[3], got[4]}
    BY ONLY <2>1, <2>2
  <2> QED
    BY <2>3, <2>4, Zenon
<1>5. /\ Taken(FALSE, TRUE) = High("~lo") /\ Taken(TRUE, FALSE) = Low("~lo")
      /\ Taken(FALSE, FALSE) = High("~hi") /\ Taken(TRUE, TRUE) = LeftTrigger
  <2> DEFINE of(h, t) == CHOOSE g \in {g1, g2, g3, g4} : g[1] = h /\ g[2] = t
  <2>1. \A h, t : Taken(h, t) = of(h, t)[3]
    BY <1>4, Zenon DEF Taken
  <2>2. of(FALSE, FALSE) = g1
    <3>1. \A g \in {g1, g2, g3, g4} : (g[1] = FALSE /\ g[2] = FALSE) <=> g = g1
      BY ONLY <1>3
    <3> QED
      BY <3>1
  <2>3. of(FALSE, TRUE) = g2
    <3>1. \A g \in {g1, g2, g3, g4} : (g[1] = FALSE /\ g[2] = TRUE) <=> g = g2
      BY ONLY <1>3
    <3> QED
      BY <3>1
  <2>4. of(TRUE, FALSE) = g3
    <3>1. \A g \in {g1, g2, g3, g4} : (g[1] = TRUE /\ g[2] = FALSE) <=> g = g3
      BY ONLY <1>3
    <3> QED
      BY <3>1
  <2>5. of(TRUE, TRUE) = g4
    <3>1. \A g \in {g1, g2, g3, g4} : (g[1] = TRUE /\ g[2] = TRUE) <=> g = g4
      BY ONLY <1>3
    <3> QED
      BY <3>1
  <2> HIDE DEF of
  <2> QED
    BY <1>3, <2>1, <2>2, <2>3, <2>4, <2>5, Zenon
<1>6. Selected[1] = Byte("~lo") /\ Selected[2] = <<High("~hi"), LeftTrigger>>
  <2>1. /\ Selected[1] = <<Taken(FALSE, TRUE), Taken(TRUE, FALSE)>>
        /\ Selected[2] = <<Taken(FALSE, FALSE), Taken(TRUE, TRUE)>>
    BY DEF Selected
  <2> QED
    BY <1>5, <2>1, Zenon DEF Byte
<1>7. SameControls(Selected[1], Report[2]) /\ SameControls(Selected[2], Report[3])
  BY <1>6, ReportBytes, SameIsSame, SameButtons, Zenon
<1>8. 1 + 1 = 2 /\ 2 + 1 = 3 /\ \A i \in 1 .. 2 : i = 1 \/ i = 2
  OBVIOUS
<1> QED
  BY <1>7, <1>8, Zenon

\* However often a program reads a phase, in whatever order it selects the
\* groups and wherever it restarts, each control it assembles from the port is
\* where the INTBACK report has it, the two triggers exchanged (smpc_pad_report,
\* smpc_pdr_read).
THEOREM PadPathsAlwaysAgree == PadSpec => []PadPathsAgree
<1>1. PadInv => PadPathsAgree
  <2> SUFFICES ASSUME PadInv PROVE PadPathsAgree
    OBVIOUS
  <2>1. ASSUME ddr = "thtr", analog
        PROVE  /\ got = SubSeq(Stream, 1, Len(got))
               /\ Len(got) = Len(Stream) =>
                    \A i \in 1 .. 6 : SameControls(Clocked(i), Report[Place[i]])
    <3>1. /\ got \in Seq(Nibbles) /\ Len(got) \in 0 .. 16
          /\ \A i \in 1 .. Len(got) : got[i] = Stream[i]
      <4>1. /\ got \in Seq(Nibbles) /\ Len(got) <= 16
            /\ \A i \in 1 .. Len(got) : got[i] = Stream[i]
        BY <2>1, Zenon DEF PadInv, HandshakeInOrder
      <4>2. Len(got) \in Nat
        BY <4>1, LenProperties
      <4> QED
        BY <4>1, <4>2, Within, Zenon
    <3>2. Len(Stream) = 16
      BY DEF Stream
    <3>3. got = SubSeq(Stream, 1, Len(got))
      <4> DEFINE n == Len(got)
                 q == SubSeq(Stream, 1, n)
      <4>1. \A i \in 1 .. n : Stream[i] \in Nibbles
        <5>1. \A k \in 0 .. 16 : \A i \in 1 .. k : i \in 1 .. 16
          OBVIOUS
        <5> QED
          BY <3>1, <5>1, Zenon DEF Nibbles
      <4>2. /\ q \in Seq(Nibbles) /\ Len(q) = n
            /\ \A i \in 1 .. n : q[i] = Stream[i]
        <5>1. n \in Nat /\ 1 \in Int
          BY <3>1
        <5>2. /\ q \in Seq(Nibbles) /\ Len(q) = IF 1 <= n THEN n - 1 + 1 ELSE 0
              /\ \A i \in 1 .. n - 1 + 1 : q[i] = Stream[1 + i - 1]
          BY <4>1, <5>1, SubSeqProperties
        <5> QED
          BY <5>1, <5>2
      <4> QED
        BY <3>1, <4>2, SeqEqual
    <3>4. Len(got) = 16 =>
                  \A i \in 1 .. 6 : SameControls(Clocked(i), Report[Place[i]])
      BY <2>1, <3>1, HandshakeIsReport
    <3> QED
      BY <3>2, <3>3, <3>4
  <2> QED
    BY <2>1, GroupsAreReport DEF PadPathsAgree
<1> QED
  BY <1>1, PadStart, PadStep, PTL DEF PadSpec

=============================================================================
