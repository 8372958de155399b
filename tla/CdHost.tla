------------------------------- MODULE CdHost -------------------------------
(***************************************************************************)
(* The CD block's host interface (runner/src/cdblock.c and the CD register *)
(* file of runner/src/bus.c): the four command/response registers CR1..CR4,*)
(* the interrupt cause and mask registers HIRQ and HIRQMASK, and the       *)
(* drive's periodic status report.  There is no drive thread: a report is  *)
(* considered on every register READ, and lands before the value is read.  *)
(*                                                                         *)
(* CR1..CR4 are always loaded together (respond), so `cr' is the message   *)
(* they hold; a command is the packet staged by writes to CR1..CR4, its    *)
(* arguments left out.  Any register may be accessed at any time: the host *)
(* driver, its interrupt handlers and both CPUs share the file.            *)
(***************************************************************************)
EXTENDS Integers

CONSTANTS
  Commands,                     \* commands the host issues
  Interval,                     \* CDB_SECTOR_CYCLES, in units of one access
  OtherCauses                   \* HIRQ bits besides CMOK and SCDQ

ASSUME HostAssumption ==
  /\ Interval \in Nat \ {0}
  /\ OtherCauses \cap {"CMOK", "SCDQ"} = {}

Causes == OtherCauses \cup {"CMOK", "SCDQ"}
Signature == [kind |-> "signature"]
Report == [kind |-> "report"]
Reply(c) == [kind |-> "reply", command |-> c]
Messages == {Signature, Report} \cup {Reply(c) : c \in Commands}

VARIABLES
  cr, staged,                   \* responses; command packet (cmd_stage)
  hirq, hmsk,
  processing_cmd, resp_fresh, first_cmd_seen,
  since,                        \* master.cycles - last_peri_cy, up to Interval
  ipend,                        \* bit 16 of the SCU's pending interrupts
  answer,                       \* history: what the last command must show
  shown,                        \* history: cycles since the first read after the
                                \* answer's pickup, up to Interval; -1 before it
  serving                       \* history: interrupt taken, HIRQ not written since

drive == <<cr, processing_cmd, resp_fresh, first_cmd_seen, since>>
history == <<answer, shown>>
interface == <<cr, staged, hirq, hmsk, processing_cmd, resp_fresh, first_cmd_seen,
               since, ipend, answer, shown, serving>>

NotShown == -1

HostInit ==
  /\ cr = Signature /\ staged \in Commands
  /\ hirq = OtherCauses \cup {"CMOK"} /\ hmsk = {}
  /\ processing_cmd = FALSE /\ resp_fresh = FALSE /\ first_cmd_seen = FALSE
  /\ since = Interval /\ ipend = FALSE
  /\ answer = Signature /\ shown = NotShown /\ serving = FALSE

----------------------------------------------------------------------------
(* Interrupts. *)

\* cdb_update_interrupts, for the new values of the two registers.
UpdateInterrupts == ipend' = (ipend \/ hirq' \cap hmsk' # {})

\* hirq_set.
HirqSet(bits) == hirq' = hirq \cup bits /\ hmsk' = hmsk /\ UpdateInterrupts

\* Mutant: the write does not look at what is still set.
WriteHirqOnly(keep) ==
  /\ hirq' = hirq \cap keep
  /\ serving' = FALSE
  /\ UNCHANGED <<drive, history, staged, hmsk, ipend>>

\* HIRQ is cleared by writing 0 to its bits; what stays set may interrupt again.
WriteHirq(keep) ==
  /\ hirq' = hirq \cap keep /\ hmsk' = hmsk
  /\ UpdateInterrupts
  /\ serving' = FALSE
  /\ UNCHANGED <<drive, history, staged>>

WriteHirqMask(mask) ==
  /\ hmsk' = mask /\ hirq' = hirq
  /\ UpdateInterrupts
  /\ UNCHANGED <<drive, history, staged, serving>>

\* The SCU hands the interrupt to the SH-2.
TakeInterrupt ==
  /\ ipend
  /\ ipend' = FALSE /\ serving' = TRUE
  /\ UNCHANGED <<drive, history, staged, hirq, hmsk>>

\* cdb_tick, once per field, and the drive's own progress.
DriveTick(bits) ==
  /\ HirqSet({"CMOK", "SCDQ"} \cup bits)
  /\ UNCHANGED <<drive, history, staged, serving>>

----------------------------------------------------------------------------
(* Reading a register. *)

Cycle(n) == IF n < Interval THEN n + 1 ELSE n

\* No report while a packet is written or its reply is being collected, nor
\* before the first command.
Reporting == first_cmd_seen /\ ~processing_cmd

\* Mutant: only the timer spaces reports.
PeriodicNotFresh ==
  \/ /\ ~Reporting \/ since < Interval
     /\ UNCHANGED <<cr, resp_fresh, since, hirq, hmsk, ipend>>
  \/ /\ Reporting /\ since = Interval
     /\ cr' = Report /\ resp_fresh' = TRUE /\ since' = 0
     /\ HirqSet({"CMOK", "SCDQ"})

\* Mutant: every read that sees no report restarts the timer.
PeriodicRestarts ==
  \/ /\ ~Reporting
     /\ UNCHANGED <<cr, resp_fresh, since, hirq, hmsk, ipend>>
  \/ /\ Reporting /\ (resp_fresh \/ since < Interval)
     /\ resp_fresh' = FALSE /\ since' = 0
     /\ UNCHANGED <<cr, hirq, hmsk, ipend>>
  \/ /\ Reporting /\ ~resp_fresh /\ since = Interval
     /\ cr' = Report /\ resp_fresh' = TRUE /\ since' = 0
     /\ HirqSet({"CMOK", "SCDQ"})

\* cdb_periodic_maybe: the first read after a response restarts the timer, so
\* that the response can be read twice.
Periodic ==
  \/ /\ ~Reporting
     /\ UNCHANGED <<cr, resp_fresh, since, hirq, hmsk, ipend>>
  \/ /\ Reporting /\ resp_fresh
     /\ resp_fresh' = FALSE /\ since' = 0
     /\ UNCHANGED <<cr, hirq, hmsk, ipend>>
  \/ /\ Reporting /\ ~resp_fresh /\ since < Interval
     /\ UNCHANGED <<cr, resp_fresh, since, hirq, hmsk, ipend>>
  \/ /\ Reporting /\ ~resp_fresh /\ since = Interval
     /\ cr' = Report /\ resp_fresh' = TRUE /\ since' = 0
     /\ HirqSet({"CMOK", "SCDQ"})

Shown == IF shown = NotShown /\ Reporting THEN 0 ELSE shown

\* Any register but CR4: cdb_note_read, then the value.
ReadRegister ==
  /\ Periodic
  /\ shown' = Shown
  /\ UNCHANGED <<staged, processing_cmd, first_cmd_seen, answer, serving>>

\* Reading CR4 completes the pickup of a response.
ReadCR4 ==
  /\ Periodic
  /\ processing_cmd' = FALSE
  /\ shown' = Shown
  /\ UNCHANGED <<staged, first_cmd_seen, answer, serving>>

\* master.cycles advances.
Clock ==
  /\ since' = Cycle(since)
  /\ shown' = IF shown = NotShown THEN shown ELSE Cycle(shown)
  /\ UNCHANGED <<cr, staged, hirq, hmsk, processing_cmd, resp_fresh, first_cmd_seen,
                 ipend, answer, serving>>

----------------------------------------------------------------------------
(* Writing a command. *)

WriteCR1(c) ==
  /\ staged' = c /\ processing_cmd' = TRUE
  /\ UNCHANGED <<cr, hirq, hmsk, resp_fresh, first_cmd_seen, since, ipend, history, serving>>

\* The write of CR4 runs cdb_execute, which answers at once (respond) and may
\* raise causes of its own.
WriteCR4(bits) ==
  /\ first_cmd_seen' = TRUE
  /\ cr' = Reply(staged) /\ resp_fresh' = TRUE
  /\ HirqSet({"CMOK"} \cup bits)
  /\ answer' = Reply(staged) /\ shown' = NotShown
  /\ UNCHANGED <<staged, processing_cmd, since, serving>>

Bits == SUBSET OtherCauses

HostNext ==
  \/ \E c \in Commands : WriteCR1(c)
  \/ \E bits \in Bits : WriteCR4(bits) \/ DriveTick(bits)
  \/ ReadRegister \/ ReadCR4 \/ Clock
  \/ \E keep \in SUBSET Causes : WriteHirq(keep)
  \/ \E mask \in SUBSET Causes : WriteHirqMask(mask)
  \/ TakeInterrupt

HostSpec == HostInit /\ [][HostNext]_interface

\* Time passes, and the host polls a register (HIRQ, as its driver does).
HostLiveSpec == HostSpec /\ WF_interface(Clock) /\ WF_interface(ReadRegister)

----------------------------------------------------------------------------
(* Properties. *)

HostTypeOK ==
  /\ cr \in Messages /\ answer \in Messages /\ staged \in Commands
  /\ hirq \in SUBSET Causes /\ hmsk \in SUBSET Causes
  /\ processing_cmd \in BOOLEAN /\ resp_fresh \in BOOLEAN /\ first_cmd_seen \in BOOLEAN
  /\ ipend \in BOOLEAN /\ serving \in BOOLEAN
  /\ since \in 0 .. Interval
  /\ shown \in {NotShown} \cup 0 .. Interval

\* A reply (and, at power on, the signature) stays in CR1..CR4 while the host
\* collects it, in whatever order it reads, and for a whole sector period from
\* the first read after that: both snapshots the BIOS compares are the reply.
AnswerStays == cr # answer => shown = Interval

\* No enabled cause is forgotten: while one is set, the interrupt is pending or
\* a handler has taken it and has still to acknowledge, whatever is acknowledged,
\* unmasked or raised in between.
NoLostInterrupt == hirq \cap hmsk # {} => ipend \/ serving

\* A host that polls and leaves no command outstanding gets news: polling, which
\* is what restarts the timer after a response, never starves the report.
PollingIsAnswered ==
  (Reporting /\ ~resp_fresh) ~> (processing_cmd \/ resp_fresh)

----------------------------------------------------------------------------
(* What a comment of the code says and the code does not do. *)

\* "it rewrites CR1..CR4 with the current drive state once per sector period,
\* whether or not a command is outstanding" (cdblock.c): a host that polls gets
\* news, even one that has not collected a reply.
ReportsWhateverIsOutstanding == (first_cmd_seen /\ ~resp_fresh) ~> resp_fresh
=============================================================================
