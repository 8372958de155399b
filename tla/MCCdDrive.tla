------------------------------ MODULE MCCdDrive ------------------------------
(* Two small discs for CdDrive.  The first: a data track of four sectors, then *)
(* two audio tracks of two; three sectors fill a field and a half at 1x.  The  *)
(* second: three sectors of data and two audio tracks of one, small enough for *)
(* the liveness of the whole drive.                                            *)
EXTENDS CdDrive

MCTrackStart == <<0, 4, 6>>
SmallTrackStart == <<0, 3, 4>>
MCAudioTracks == {2, 3}

FadPlay(at, count) == [form |-> "fad", at |-> at, count |-> count, repeat |-> 0]
TrackPlay(t, r) == [form |-> "track", at |-> t, count |-> 0, repeat |-> r]

MixedPlays == {FadPlay(1, 3), TrackPlay(2, 1), TrackPlay(3, 1)}
SomePlays == {TrackPlay(2, 1)}
LivePlays == {FadPlay(1, 2), TrackPlay(2, 1)}

NoFiles == {}
MCFiles == {[lba |-> 1, nsec |-> 2]}
SmallFiles == {[lba |-> 2, nsec |-> 1]}

\* Partition 0 takes everything; or the odd sectors are split off to
\* partition 1 and sector 2 is filtered out; or the first sector goes to
\* partition 1, which the stream gate does not look at, and the rest nowhere.
ToZero == [l \in 0 .. TotalSectors - 1 |-> 0]
Split == [l \in 0 .. TotalSectors - 1 |->
            IF l = 2 THEN NotRouted ELSE l % 2]
Aside == [l \in 0 .. TotalSectors - 1 |-> IF l = 0 THEN 1 ELSE NotRouted]
OneRoute == {ToZero}
SplitRoute == {Split}
AsideRoute == {Aside}
=============================================================================
