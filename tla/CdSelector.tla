----------------------------- MODULE CdSelector -----------------------------
(***************************************************************************)
(* The CD block's selector (runner/src/cdblock.c): a bank of filters that  *)
(* decides in which partition a sector read from the disc is stored.  The  *)
(* host programs the bank command by command while the drive streams, so   *)
(* every intermediate bank routes sectors too.                             *)
(*                                                                         *)
(* A sector is what a filter can see of it: its frame address and the four *)
(* subheader bytes (file, channel, submode, coding; all zero on a MODE1    *)
(* track).  Bytes that are masked, and mode and flag bytes, are the sets   *)
(* of their bits.  A command whose filter number is out of range changes   *)
(* nothing and is left out; so are partitions (CdBuffer holds them).       *)
(***************************************************************************)
EXTENDS Integers, FiniteSets

CONSTANTS
  NumFilters, NumPartitions,    \* CD_NUM_FILTERS, CD_NUM_PARTS
  Disconnected,                 \* CD_DISCONNECTED
  Sectors,                      \* sectors the drive may deliver
  FadRanges,                    \* <<filter, <<start, count>>>> of SetFilterRange
  Subheaders,                   \* <<filter, setting>> of the subheader conditions
  Modes,                        \* mode bytes of SetFilterMode
  Connections,                  \* <<filter, pass output, fail output>> of
                                \* SetFilterConnection, an output {} if left alone
  DeviceFilters,                \* filter numbers of SetDeviceConnection
  ResetFlags,                   \* flag bytes of ResetSelector
  ReadFilters                   \* filters whose range the host reads back

Filters == 0 .. NumFilters - 1
Partitions == 0 .. NumPartitions - 1
NotRouted == NumPartitions           \* route_sector's -1
ByteBits == 0 .. 7

Subheader == [file : Nat, chan : Nat, submode_mask : SUBSET ByteBits, submode : SUBSET ByteBits,
              coding_mask : SUBSET ByteBits, coding : SUBSET ByteBits]

ASSUME SelectorAssumption ==
  /\ NumFilters \in Nat \ {0} /\ NumPartitions \in 1 .. NumFilters
  /\ Disconnected \in Nat \ (Filters \cup Partitions)
  /\ Sectors \subseteq [fad : Nat, file : Nat, chan : Nat, submode : SUBSET ByteBits,
                        coding : SUBSET ByteBits]
  /\ FadRanges \subseteq Filters \X (Nat \X Nat)
  /\ Subheaders \subseteq Filters \X Subheader
  /\ Modes \subseteq SUBSET ByteBits /\ ResetFlags \subseteq SUBSET ByteBits
  /\ ReadFilters \subseteq Filters
  /\ \A c \in Connections : c[1] \in Filters /\ c[2] \cup c[3] \subseteq Nat
  /\ DeviceFilters \subseteq Nat

VARIABLES
  filter, cd_conn,
  reply,                        \* what a Get command answered
  pristine                      \* history: no condition or pass output has been
                                \* set since both were last reset

selectorVars == <<filter, cd_conn, reply, pristine>>

NoConditions == [file |-> 0, chan |-> 0, submode_mask |-> {}, submode |-> {},
                 coding_mask |-> {}, coding |-> {}]
NoReply == <<>>

\* filter_reset_one.
Reset(f) == [range |-> <<0, 0>>, sub |-> NoConditions, mode |-> {}, pass_out |-> f,
             fail_out |-> Disconnected]

SelectorInit ==
  /\ filter = [f \in Filters |-> Reset(f)]
  /\ cd_conn = 0 /\ reply = NoReply /\ pristine = TRUE

----------------------------------------------------------------------------
(* Routing. *)

\* filter_test: the subheader conditions the mode enables, inverted on bit 4,
\* and the range of frame addresses.
FilterTest(f, sec) ==
  LET s == filter[f].sub
      m == filter[f].mode
      matches == /\ 0 \in m => sec.file = s.file
                 /\ 1 \in m => sec.chan = s.chan
                 /\ 2 \in m => sec.submode \cap s.submode_mask = s.submode
                 /\ 3 \in m => sec.coding \cap s.coding_mask = s.coding
  IN  /\ matches # (4 \in m)
      /\ 6 \in m => filter[f].range[1] <= sec.fad
                    /\ sec.fad < filter[f].range[1] + filter[f].range[2]

\* The filters met from cd_conn on, were each of them to fail.
Chain[hop \in 0 .. NumFilters] ==
  IF hop = 0 THEN cd_conn
  ELSE LET f == Chain[hop - 1]
       IN  IF f \in Filters THEN filter[f].fail_out ELSE Disconnected

\* Mutant: one hop too few.
PassingHopsShort(sec) ==
  {hop \in 0 .. NumFilters - 2 : Chain[hop] \in Filters /\ FilterTest(Chain[hop], sec)}

\* route_sector: the first filter of the chain that passes the sector decides.
\* The walk gives up after NumFilters hops, as fail_out may form a cycle.
PassingHops(sec) ==
  {hop \in 0 .. NumFilters - 1 : Chain[hop] \in Filters /\ FilterTest(Chain[hop], sec)}

OutOf(f) == IF filter[f].pass_out \in Partitions THEN filter[f].pass_out ELSE NotRouted

Route(sec) ==
  LET hops == PassingHops(sec) IN
  IF hops = {} THEN NotRouted
  ELSE OutOf(Chain[CHOOSE hop \in hops : \A other \in hops : hop <= other])

----------------------------------------------------------------------------
(* Commands. *)

SetFilterRange(f, range) ==
  /\ filter' = [filter EXCEPT ![f].range = range]
  /\ pristine' = FALSE /\ reply' = NoReply
  /\ UNCHANGED cd_conn

SetFilterSubheaderConditions(f, sub) ==
  /\ filter' = [filter EXCEPT ![f].sub = sub]
  /\ pristine' = FALSE /\ reply' = NoReply
  /\ UNCHANGED cd_conn

\* Bit 7 clears the filter's conditions; its connections survive.
SetFilterMode(f, mode) ==
  LET kept == IF 7 \in mode
              THEN [Reset(f) EXCEPT !.pass_out = filter[f].pass_out,
                                    !.fail_out = filter[f].fail_out]
              ELSE filter[f]
  IN
  /\ filter' = [filter EXCEPT ![f] = [kept EXCEPT !.mode = mode \ {5, 7}]]
  /\ pristine' = FALSE /\ reply' = NoReply
  /\ UNCHANGED cd_conn

SetFilterConnection(f, pass, fail) ==
  /\ filter' = [filter EXCEPT ![f].pass_out = IF pass = {} THEN @ ELSE CHOOSE p \in pass : TRUE,
                              ![f].fail_out = IF fail = {} THEN @ ELSE CHOOSE g \in fail : TRUE]
  /\ pristine' = (pristine /\ pass = {}) /\ reply' = NoReply
  /\ UNCHANGED cd_conn

SetDeviceConnection(f) ==
  /\ cd_conn' = IF f \in Partitions THEN f ELSE 0
  /\ reply' = NoReply
  /\ UNCHANGED <<filter, pristine>>

\* Mutant: the pass outputs are not put back.
ResetSelectorKeepsPass(flags) ==
  /\ filter' =
       [f \in Filters |->
          [range |-> IF 4 \in flags THEN <<0, 0>> ELSE filter[f].range,
           sub |-> IF 4 \in flags THEN NoConditions ELSE filter[f].sub,
           mode |-> IF 4 \in flags THEN {} ELSE filter[f].mode,
           pass_out |-> filter[f].pass_out,
           fail_out |-> IF {5, 7} \cap flags # {} THEN Disconnected
                        ELSE filter[f].fail_out]]
  /\ cd_conn' = IF 5 \in flags THEN Disconnected ELSE cd_conn
  /\ pristine' = (pristine \/ {4, 6} \subseteq flags) /\ reply' = NoReply

\* Flag bits: 4 conditions, 5 filter inputs, 6 pass outputs, 7 fail outputs.
\* Without a bit only a partition is emptied.
SelectorReset(flags) ==
  /\ filter' =
       [f \in Filters |->
          [range |-> IF 4 \in flags THEN <<0, 0>> ELSE filter[f].range,
           sub |-> IF 4 \in flags THEN NoConditions ELSE filter[f].sub,
           mode |-> IF 4 \in flags THEN {} ELSE filter[f].mode,
           pass_out |-> IF 6 \in flags THEN f ELSE filter[f].pass_out,
           fail_out |-> IF {5, 7} \cap flags # {} THEN Disconnected
                        ELSE filter[f].fail_out]]
  /\ cd_conn' = IF 5 \in flags THEN Disconnected ELSE cd_conn
  /\ pristine' = (pristine \/ {4, 6} \subseteq flags) /\ reply' = NoReply

\* The answer does not look at the filter.
GetFilterRange(f) ==
  /\ reply' = <<150, 65535>>
  /\ UNCHANGED <<filter, cd_conn, pristine>>

FilterCommand(f) ==
  \/ \E input \in FadRanges : f = input[1] /\ SetFilterRange(f, input[2])
  \/ \E input \in Subheaders : f = input[1] /\ SetFilterSubheaderConditions(f, input[2])
  \/ \E mode \in Modes : SetFilterMode(f, mode)
  \/ \E input \in Connections : f = input[1] /\ SetFilterConnection(f, input[2], input[3])

SelectorNext ==
  \/ \E f \in Filters : FilterCommand(f)
  \/ \E f \in ReadFilters : GetFilterRange(f)
  \/ \E f \in DeviceFilters : SetDeviceConnection(f)
  \/ \E flags \in ResetFlags : SelectorReset(flags)

SelectorSpec == SelectorInit /\ [][SelectorNext]_selectorVars

----------------------------------------------------------------------------
(* Properties. *)

SelectorTypeOK ==
  /\ \A f \in Filters :
       /\ filter[f].range \in Nat \X Nat /\ filter[f].sub \in Subheader
       /\ filter[f].mode \in SUBSET (ByteBits \ {5, 7})
       /\ filter[f].pass_out \in {f} \cup UNION {c[2] : c \in Connections}
       /\ filter[f].fail_out \in {Disconnected} \cup UNION {c[3] : c \in Connections}
  /\ cd_conn \in Partitions \cup {Disconnected}

\* Filters a sector is offered to, without counting hops: the least set that
\* holds the first one and the fail output of every filter in it that fails.
ClosedFor(sec, S) ==
  /\ cd_conn \in Filters => cd_conn \in S
  /\ \A f \in S : filter[f].fail_out \in Filters \ S => FilterTest(f, sec)
Offered(sec) ==
  {f \in Filters : \A S \in SUBSET (Filters \ {f}) : ~ClosedFor(sec, S)}

\* The hop limit costs nothing: a sector is stored exactly when a filter it is
\* offered to passes it, that filter is the only one, and its output decides,
\* whatever cycles the fail outputs form.
RouteIsFirstPass ==
  \A sec \in Sectors :
    LET winners == {f \in Offered(sec) : FilterTest(f, sec)} IN
    /\ Cardinality(winners) <= 1
    /\ Route(sec) = IF winners = {} THEN NotRouted
                    ELSE OutOf(CHOOSE f \in winners : TRUE)

\* Programming one filter in the middle of a stream does not move a sector that
\* is never offered to it.
ProgrammingIsLocal ==
  [][ \A sec \in Sectors : Route(sec)' # Route(sec) =>
        \A f \in Filters \ Offered(sec) : ~FilterCommand(f) ]_selectorVars

\* Resetting conditions and pass outputs is enough to go back to the power-on
\* routing, each filter to its own partition, whatever fail chain is left.
PristineRouting ==
  pristine => \A sec \in Sectors :
    Route(sec) = IF cd_conn \in Partitions THEN cd_conn ELSE NotRouted

\* Emptying partitions never reroutes the stream.
RecyclingKeepsRoutes ==
  [][ \A flags \in {{}, {2}} :
        SelectorReset(flags) => \A sec \in Sectors : Route(sec)' = Route(sec) ]_selectorVars

----------------------------------------------------------------------------
(* What a comment of the code says and the code does not do. *)

\* "GetFilterRange: FAD start in CR1/CR2, count in CR3/CR4" (cdblock.c).
RangeReadsBack ==
  [][ \A f \in Filters :
        reply' # NoReply /\ GetFilterRange(f) => reply' = filter[f].range ]_selectorVars
=============================================================================
