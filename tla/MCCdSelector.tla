---------------------------- MODULE MCCdSelector ----------------------------
(* Small instances of CdSelector for TLC. *)
EXTENDS CdSelector

Sector(fad, file, chan, submode, coding) ==
  [fad |-> fad, file |-> file, chan |-> chan, submode |-> submode, coding |-> coding]
Setting(file, chan, sm, sv, cm, cv) ==
  [file |-> file, chan |-> chan, submode_mask |-> sm, submode |-> sv,
   coding_mask |-> cm, coding |-> cv]

\* An interleaved stream of two channels: the sectors differ in every
\* condition.
TwoChannels == {Sector(150, 0, 0, {3}, {4}), Sector(151, 1, 1, {1}, {0, 4})}

\* Filter 1 has a range and filter 2 conditions the first sector meets.
OneRange == {<<1, <<150, 1>>>>}
OneSetting == {<<2, Setting(0, 0, {1, 3}, {3}, {0}, {})>>}
SomeModes == {{0, 1, 2, 3, 7}, {1, 4, 5, 6}}

\* Fail outputs that form chains, cycles of two and three, and none.
SomeConnections == {<<0, {}, {1}>>, <<0, {}, {2}>>, <<1, {2}, {2}>>, <<2, {}, {1}>>,
                    <<2, {Disconnected}, {0}>>}

SomeResets == {{}, {2}, {4, 6}, {5}, {2, 3, 4, 5, 6, 7}}
=============================================================================
