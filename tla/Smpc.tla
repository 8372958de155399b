-------------------------------- MODULE Smpc --------------------------------
(* The system manager (smpc.c): its command register and busy flag, the      *)
(* INTBACK report sequence, the release of the slave SH-2 (bus.c, run_slave), *)
(* the clock change, and the settings it keeps in a file between runs.        *)
(*                                                                           *)
(* A scheduler slice is three steps, as in bus.c: the master runs (the host   *)
(* acts), the slave runs, the system manager is ticked.  Times are counted in *)
(* slices.  Registers hold what the properties tell apart: IREG0 and IREG1    *)
(* are the two bits an INTBACK reads and the bytes SETSMEM keeps; a report is *)
(* named, not spelled out byte by byte.                                       *)
EXTENDS Naturals

CONSTANTS
  Routines,     \* programs the master can hand to the slave
  Programs,     \* the sets of commands that guest programs draw from
  ShortDelay,   \* slices from a COMREG write to its execution
  LongDelay     \* the same for SYSRES and the clock changes

Inputs == [status : BOOLEAN, pads : BOOLEAN]     \* IREG0 bit 0, IREG1 bit 3
Blank == [status |-> FALSE, pads |-> FALSE]
NoRoutine == "none"
NoReport == <<"none">>
PadReport == <<"pads">>

Resets == {"SYSRES", "CKCHG352", "CKCHG320"}
Commands == Resets \cup {"INTBACK", "SSHON", "SSHOFF", "SETTIME", "SETSMEM",
                         "SNDON", "SNDOFF", "RESENAB", "RESDISA", "CDON"}

ASSUME ProgramsAssumption == Programs \subseteq SUBSET Commands
ASSUME DelayAssumption ==
  ShortDelay \in Nat /\ LongDelay \in Nat /\ ShortDelay <= LongDelay

VARIABLES
  uses,            \* the commands this guest issues
  up, turn,        \* the process runs; whose part of the slice comes next
  host,            \* the program on the master: what it asked and waits for,
                   \* and whether a command it could not see was ahead of it
  ireg, comreg, sf,
  pending,         \* pending_smpc_cmd, smpc_cmd and smpc_cmd_due - clk; whether
                   \* the busy flag was clear when the command was written
  ckchg, clock_352,
  ib, sr, oreg,    \* the INTBACK sequence, its status byte, the report
  irq,             \* the System Manager interrupt, raised and not yet taken
  ste, resd, smem, sound,
  file, chosen,    \* smpc.bin; the settings the user last chose, unless the
                   \* process ended in the middle of a save since
  mailbox, stored, \* 0x06000250; the routines whose code is in memory
  hle, enabled, started, entry, slave,
  released         \* SSHON was served and the slave was not yet reset

smpc == <<ireg, comreg, sf, pending, ckchg, clock_352, ib, sr, oreg, irq,
          ste, resd, smem, sound>>
cpu == <<mailbox, stored, hle, enabled, started, entry, slave, released>>
vars == <<uses, up, turn, host, smpc, file, chosen, cpu>>

NoFile == [whole |-> FALSE, ste |-> FALSE, smem |-> Blank]
NoChoice == [on |-> FALSE, smem |-> Blank]
Idle == [asks |-> "nothing", served |-> TRUE, behind |-> FALSE]
NoCommand == [on |-> FALSE, cmd |-> "none", left |-> 0, silent |-> FALSE]
NewSlave == [runs |-> NoRoutine, halted |-> FALSE, cycled |-> FALSE]

\* smpc_reset and the reset of the machine around it, then the load of the
\* file: a file cut short is ignored and the console is a new one.
Loaded == IF file.whole THEN file ELSE NoFile

Reset ==
  /\ ireg' = Blank /\ comreg' = "none" /\ sf' = FALSE
  /\ pending' = NoCommand /\ ckchg' = 0 /\ clock_352' = FALSE
  /\ ib' = [active |-> FALSE, first |-> FALSE]
  /\ sr' = [pads |-> TRUE, pdl |-> FALSE, npe |-> FALSE]
  /\ oreg' = NoReport /\ irq' = FALSE /\ resd' = TRUE /\ sound' = FALSE
  /\ ste' = Loaded.ste /\ smem' = Loaded.smem
  /\ mailbox' = NoRoutine /\ stored' = {} /\ hle' \in BOOLEAN
  /\ enabled' = FALSE /\ started' = FALSE /\ entry' = NoRoutine
  /\ slave' = NewSlave /\ released' = FALSE
  /\ host' = Idle /\ turn' = "master"

Init ==
  /\ uses \in Programs /\ up = FALSE /\ turn = "master" /\ host = Idle
  /\ ireg = Blank /\ comreg = "none" /\ sf = FALSE /\ pending = NoCommand
  /\ ckchg = 0 /\ clock_352 = FALSE
  /\ ib = [active |-> FALSE, first |-> FALSE]
  /\ sr = [pads |-> TRUE, pdl |-> FALSE, npe |-> FALSE]
  /\ oreg = NoReport /\ irq = FALSE /\ ste = FALSE /\ resd = TRUE
  /\ smem = Blank /\ sound = FALSE /\ file = NoFile /\ chosen = NoChoice
  /\ mailbox = NoRoutine /\ stored = {} /\ hle = FALSE /\ enabled = FALSE
  /\ started = FALSE /\ entry = NoRoutine /\ slave = NewSlave /\ released = FALSE

Boot == ~up /\ up' = TRUE /\ Reset /\ UNCHANGED <<uses, file, chosen>>

\* The window is closed, or the process dies, between two steps.
Stop == up /\ up' = FALSE
        /\ UNCHANGED <<uses, turn, host, smpc, file, chosen, cpu>>

-----------------------------------------------------------------------------
(* The host's side of the registers.                                         *)

\* A clock change that ended takes the master first (TakeNmi).
Master == up /\ turn = "master" /\ ckchg # 2

Accept(c) ==
  /\ comreg' = c
  /\ pending' = [on |-> TRUE, cmd |-> c,
                 left |-> IF c \in Resets THEN LongDelay ELSE ShortDelay,
                 silent |-> ~sf']

CommandOverwrites(c) == Accept(c)     \* mutant: the command in flight is replaced

\* smpc_command, the busy flag as the program left it: a command written while
\* one is pending is dropped.  (So is one written during a clock change, which
\* begins and ends in one tick.)
Command(c) ==
  IF pending.on THEN UNCHANGED <<comreg, pending>> ELSE Accept(c)

\* A program that follows the manual: parameters, busy flag, command, and
\* only when the busy flag is clear and the last interrupt was taken.
Ask(c, input) ==
  /\ Master /\ host = Idle /\ ~sf /\ ~irq /\ c \in uses
  /\ c \in {"INTBACK", "SETSMEM"} \/ input = ireg
  /\ ireg' = input /\ sf' = TRUE /\ Command(c)
  /\ host' = [asks |-> c, served |-> FALSE, behind |-> pending.on]
  /\ UNCHANGED <<uses, up, turn, ckchg, clock_352, ib, sr, oreg, irq, ste, resd,
                 smem, sound, file, chosen, cpu>>

\* Another program, on either CPU, that does not look at the busy flag, and sets
\* it or does not: SF is a register like any other until a command ends.
WriteUnpolled(c, sets) ==
  /\ Master /\ c \in uses
  /\ sf' = (sf \/ sets) /\ Command(c)
  /\ UNCHANGED <<uses, up, turn, host, ireg, ckchg, clock_352, ib, sr, oreg,
                 irq, ste, resd, smem, sound, file, chosen, cpu>>

\* The first program's polling loop ends: an INTBACK is awaited by its interrupt,
\* anything else by the busy flag.
Polled == IF host.asks = "INTBACK" THEN irq ELSE ~sf

Answered ==
  /\ Master /\ host # Idle
  /\ Polled
  /\ irq' = (irq /\ host.asks # "INTBACK")
  /\ host' = Idle
  /\ UNCHANGED <<uses, up, turn, ireg, comreg, sf, pending, ckchg, clock_352, ib, sr,
                 oreg, ste, resd, smem, sound, file, chosen, cpu>>

\* A System Manager interrupt nobody waits for is taken and dropped.
TakeInterrupt ==
  /\ Master /\ irq /\ host = Idle /\ irq' = FALSE
  /\ UNCHANGED <<uses, up, turn, host, ireg, comreg, sf, pending, ckchg, clock_352,
                 ib, sr, oreg, ste, resd, smem, sound, file, chosen, cpu>>

\* intback_peripheral: the report, its status byte, and nothing more owed.
SendPads ==
  /\ oreg' = PadReport
  /\ sr' = [pads |-> TRUE, pdl |-> ib.first, npe |-> FALSE]
  /\ ib' = [active |-> FALSE, first |-> FALSE]

\* smpc_ireg0_write: while a report is owed bit 6 abandons it and bit 7 asks
\* for it; otherwise the write is a parameter and no more.
WriteIreg0(bit) ==
  /\ Master /\ host = Idle
  /\ ireg' = [ireg EXCEPT !.status = FALSE]
  /\ \/ ~ib.active /\ UNCHANGED <<ib, sr, oreg, irq>>
     \/ /\ ib.active /\ bit = "break"
        /\ ib' = [ib EXCEPT !.active = FALSE]
        /\ sr' = [sr EXCEPT !.npe = FALSE, !.pdl = FALSE]
        /\ UNCHANGED <<oreg, irq>>
     \/ ib.active /\ bit = "continue" /\ SendPads /\ irq' = TRUE
  /\ UNCHANGED <<uses, up, turn, host, comreg, sf, pending, ckchg, clock_352, ste,
                 resd, smem, sound, file, chosen, cpu>>

\* The next boundary of the master takes the NMI of a finished clock change.
TakeNmi ==
  /\ up /\ turn = "master" /\ ckchg = 2 /\ ckchg' = 0 /\ irq' = FALSE
  /\ UNCHANGED <<uses, up, turn, host, ireg, comreg, sf, pending, clock_352, ib, sr,
                 oreg, ste, resd, smem, sound, file, chosen, cpu>>

-----------------------------------------------------------------------------
(* The slave's side.                                                         *)

\* The master parks a routine in the mailbox, stores its code, or takes the
\* memory back; with the built-in services it may name the entry by a call.
ParkRoutine(r) ==
  /\ Master /\ "SSHON" \in uses /\ mailbox' = r
  /\ UNCHANGED <<uses, up, turn, host, smpc, file, chosen, stored, hle, enabled,
                 started, entry, slave, released>>

StoreRoutine(r) ==
  /\ Master /\ "SSHON" \in uses
  /\ stored' = IF r \in stored THEN stored \ {r} ELSE stored \cup {r}
  /\ UNCHANGED <<uses, up, turn, host, smpc, file, chosen, mailbox, hle, enabled,
                 started, entry, slave, released>>

RegisterEntry(r) ==
  /\ Master /\ "SSHON" \in uses /\ hle /\ entry' = r
  /\ UNCHANGED <<uses, up, turn, host, smpc, file, chosen, mailbox, stored, hle,
                 enabled, started, slave, released>>

ReleaseIfOff ==     \* mutant: the re-arm an earlier version of the code had
  LET rearm == ~enabled \/ slave.halted IN
  /\ enabled' = TRUE /\ started' = (started /\ ~rearm) /\ released' = TRUE
  /\ slave' = [slave EXCEPT !.halted = slave.halted /\ ~rearm]
  /\ entry' = IF mailbox # NoRoutine THEN mailbox ELSE entry
  /\ UNCHANGED <<mailbox, stored, hle>>

\* SSHON: take the entry from the mailbox when it holds a usable address,
\* enable the slave, and have it reset whatever it was doing.
ReleaseSlave ==
  /\ enabled' = TRUE /\ started' = FALSE /\ released' = TRUE
  /\ slave' = [slave EXCEPT !.halted = FALSE]
  /\ entry' = IF mailbox # NoRoutine THEN mailbox ELSE entry
  /\ UNCHANGED <<mailbox, stored, hle>>

\* What one run of the slave's interpreter does to a slave that executes r:
\* a routine not in memory faults.  The boot ROM is always there; its
\* trampoline goes to the mailbox's routine.
Execute(now) ==
  IF now.runs = "rom" THEN
    [now EXCEPT !.cycled = TRUE, !.runs = IF mailbox = NoRoutine THEN "rom" ELSE mailbox]
  ELSE IF now.runs \in stored THEN [now EXCEPT !.cycled = TRUE]
  ELSE [now EXCEPT !.halted = TRUE]

NoRetry == UNCHANGED <<started, slave>>     \* mutant of RetrySlave

\* A slave that died on its first instruction is armed again; one that had
\* run is left alone.
RetrySlave ==
  IF ~slave.cycled THEN started' = FALSE /\ slave' = [slave EXCEPT !.halted = FALSE]
  ELSE UNCHANGED <<started, slave>>

\* run_slave.
RunSlave ==
  /\ Master /\ turn' = "smpc"
  /\ LET reset == [runs |-> IF hle THEN entry ELSE "rom", halted |-> FALSE, cycled |-> FALSE]
         waits == ~enabled \/ (hle /\ entry = NoRoutine)
     IN \/ waits /\ UNCHANGED <<started, slave, released>>
        \/ /\ ~waits /\ ~started
           /\ started' = TRUE /\ released' = FALSE /\ slave' = Execute(reset)
        \/ /\ ~waits /\ started /\ ~slave.halted
           /\ slave' = Execute(slave) /\ UNCHANGED <<started, released>>
        \/ /\ ~waits /\ started /\ slave.halted
           /\ RetrySlave /\ UNCHANGED released
  /\ UNCHANGED <<uses, up, host, smpc, file, chosen, mailbox, stored, hle, enabled, entry>>

-----------------------------------------------------------------------------
(* The command interpreter.                                                  *)

\* intback_status: of the report, what changes.
StatusReport == <<"status", ste, resd, clock_352, smem>>

IntbackAfresh ==    \* mutant: an owed report is forgotten by the next INTBACK
  /\ irq' = TRUE
  /\ ib' = [active |-> ireg.pads, first |-> TRUE]
  /\ IF ireg.status
     THEN /\ oreg' = StatusReport
          /\ sr' = [pads |-> FALSE, pdl |-> TRUE, npe |-> ireg.pads]
     ELSE UNCHANGED <<oreg, sr>>

\* INTBACK.  One that arrives while a report is owed gets that report.
Intback ==
  /\ irq' = TRUE
  /\ \/ ib.active /\ SendPads
     \/ /\ ~ib.active /\ ireg.status
        /\ ib' = [active |-> ireg.pads, first |-> TRUE]
        /\ oreg' = StatusReport
        /\ sr' = [pads |-> FALSE, pdl |-> TRUE, npe |-> ireg.pads]
     \/ /\ ~ib.active /\ ~ireg.status /\ ireg.pads
        /\ oreg' = PadReport
        /\ sr' = [pads |-> TRUE, pdl |-> TRUE, npe |-> FALSE]
        /\ ib' = [active |-> FALSE, first |-> FALSE]
     \/ /\ ~ib.active /\ ~ireg.status /\ ~ireg.pads
        /\ ib' = [active |-> FALSE, first |-> TRUE]
        /\ UNCHANGED <<oreg, sr>>

\* smpc_persist_save: the file is cut to nothing and then written.  A process
\* that ends between the two leaves it cut.  (The file can be opened.)
Save(new) ==
  \/ file' = new /\ up' = TRUE
  \/ file' = NoFile /\ up' = FALSE

\* SETSMEM takes the settings bytes from the input registers.
SetSmem ==
  /\ ste' = TRUE /\ smem' = ireg
  /\ Save([whole |-> TRUE, ste |-> TRUE, smem |-> ireg])

SetTimeFallsThrough == SetSmem      \* mutant of SetTime

\* SETTIME keeps no time of its own and must not touch the settings bytes.
SetTime ==
  /\ ste' = TRUE /\ UNCHANGED smem
  /\ Save([whole |-> TRUE, ste |-> TRUE, smem |-> smem])

EndsNow == UNCHANGED <<ckchg, clock_352, ib, sr, oreg, irq, ste, resd, smem,
                       sound, file, chosen, cpu, up>>

\* smpc_execute_command, every case of its switch.
Execution(c) ==
  \/ c = "INTBACK" /\ Intback
     /\ UNCHANGED <<ckchg, clock_352, ste, resd, smem, sound, file, chosen, cpu, up>>
  \/ c = "SSHON" /\ ReleaseSlave
     /\ UNCHANGED <<ckchg, clock_352, ib, sr, oreg, irq, ste, resd, smem, sound,
                    file, chosen, up>>
  \/ c = "SSHOFF" /\ enabled' = FALSE
     /\ UNCHANGED <<ckchg, clock_352, ib, sr, oreg, irq, ste, resd, smem, sound, file,
                    chosen, up, mailbox, stored, hle, started, entry, slave, released>>
  \/ c = "SETTIME" /\ SetTime
     /\ chosen' = (IF up' THEN chosen ELSE NoChoice)
     /\ UNCHANGED <<ckchg, clock_352, ib, sr, oreg, irq, resd, sound, cpu>>
  \/ c = "SETSMEM" /\ SetSmem
     /\ chosen' = (IF up' THEN [on |-> TRUE, smem |-> ireg] ELSE NoChoice)
     /\ UNCHANGED <<ckchg, clock_352, ib, sr, oreg, irq, resd, sound, cpu>>
  \/ c \in {"SNDON", "SNDOFF"} /\ sound' = (c = "SNDON")
     /\ UNCHANGED <<ckchg, clock_352, ib, sr, oreg, irq, ste, resd, smem, file, chosen,
                    cpu, up>>
  \/ c \in {"RESENAB", "RESDISA"} /\ resd' = (c = "RESDISA")
     /\ UNCHANGED <<ckchg, clock_352, ib, sr, oreg, irq, ste, smem, sound, file, chosen,
                    cpu, up>>
  \/ c \in {"SYSRES", "CDON"} /\ EndsNow

\* A clock change: interrupts cleared, the slave off, the clock selected, an
\* NMI owed to the master.  (The resets of video and sound are the other
\* modules'.)  It keeps the busy flag until all of that is done.
ChangeClock(c) ==
  /\ irq' = FALSE /\ enabled' = FALSE /\ clock_352' = (c = "CKCHG352") /\ ckchg' = 2
  /\ UNCHANGED <<ib, sr, oreg, ste, resd, smem, sound, file, chosen, up, mailbox,
                 stored, hle, started, entry, slave, released>>

\* smpc_tick, with the clock passing before it.
SmpcTick ==
  /\ up /\ turn = "smpc" /\ turn' = "master"
  /\ UNCHANGED <<uses, ireg, comreg>>
  /\ \/ /\ ~pending.on /\ EndsNow /\ UNCHANGED <<host, pending, sf>>
     \/ /\ pending.on /\ pending.left > 1
        /\ pending' = [pending EXCEPT !.left = @ - 1]
        /\ EndsNow /\ UNCHANGED <<host, sf>>
     \/ /\ pending.on /\ pending.left <= 1
        /\ pending' = NoCommand /\ sf' = FALSE
        /\ host' = [host EXCEPT !.served = @ \/ pending.cmd = host.asks]
        /\ IF pending.cmd \in Resets \ {"SYSRES"} THEN ChangeClock(pending.cmd)
           ELSE Execution(pending.cmd)

Next ==
  \/ Boot \/ Stop
  \/ \E c \in Commands, input \in Inputs : Ask(c, input)
  \/ \E c \in Commands, sets \in BOOLEAN : WriteUnpolled(c, sets)
  \/ Answered \/ TakeInterrupt \/ TakeNmi
  \/ \E bit \in {"break", "continue", "other"} : WriteIreg0(bit)
  \/ \E r \in Routines : ParkRoutine(r) \/ StoreRoutine(r) \/ RegisterEntry(r)
  \/ RunSlave \/ SmpcTick

\* The scheduler runs both CPUs and ticks the system manager in every slice.
Fairness == WF_vars(RunSlave) /\ WF_vars(SmpcTick) /\ WF_vars(TakeNmi)
Spec == Init /\ [][Next]_vars /\ Fairness

-----------------------------------------------------------------------------

TypeOK ==
  /\ up \in BOOLEAN /\ turn \in {"master", "smpc"} /\ sf \in BOOLEAN
  /\ ireg \in Inputs /\ smem \in Inputs /\ ckchg \in {0, 2}
  /\ pending.left \in 0 .. LongDelay /\ stored \subseteq Routines
  /\ entry \in Routines \cup {NoRoutine} /\ mailbox \in Routines \cup {NoRoutine}

\* What a program that polls takes for the end of its command is the end of
\* its command: the busy flag, or the interrupt of an INTBACK, never comes
\* before the command was carried out, whatever others write over it and
\* whenever: a command in flight is not disturbed.  The exception is a program
\* that asked while a command was in flight that had been written without the
\* flag: its own was dropped, and what it sees is the end of that one
\* (smpc_command, smpc_tick, the early return of the clock changes).
RequestIsServed == (up /\ host # Idle /\ Polled) => (host.served \/ host.behind)

\* Not so: polling is enough, whatever other programs write.
PollingIsEnough == (up /\ host # Idle /\ Polled) => host.served

\* What the status byte tells and what the sequence remembers agree: more to
\* come exactly while a report is owed, the pad bit exactly when the pad
\* report is the one in the output registers, and a report that is owed is
\* the first of its sequence (INTBACK, its continuation and its break).
OwedIsAnnounced ==
  up => /\ sr.npe <=> ib.active
        /\ oreg # NoReport => (sr.pads <=> oreg = PadReport)
        /\ ib.active => ib.first

\* SSHON is a reset every time: a slave that was running when it was released
\* again never goes on with what it ran before (smpc.c, SSHON; run_slave).
ReleaseIsAReset == (up /\ enabled /\ started) => ~released

\* A slave that was released before its code was in memory starts when the
\* code is: dying on its first instruction is not the end (run_slave).
CodeIsThere == hle => entry \in stored
SlaveStartsEventually ==
  (up /\ enabled /\ CodeIsThere)
    ~> (~up \/ ~enabled \/ ~CodeIsThere \/ (started /\ slave.cycled))

\* The language and clock the user chose are the ones every later run of the
\* program has, unless it was ended in the middle of a save: setting the
\* clock does not touch them, and a boot finds them (SETTIME, SETSMEM,
\* smpc_persist_save, smpc_persist_load).
SettingsSurvive == (up /\ chosen.on) => (ste /\ smem = chosen.smem)

\* Not so: a console that was set up once stays set up.  The save cuts the
\* file before it writes it.
SetUpForGood == [](file.whole => [](up => ste))
=============================================================================
