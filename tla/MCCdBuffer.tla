----------------------------- MODULE MCCdBuffer -----------------------------
(* Small buffers for CdBuffer: sectors of two words, three when raw, so that *)
(* a full FIFO holds fewer raw sectors than cooked ones.                     *)
EXTENDS CdBuffer, TLC

CONSTANTS f1, f2

MCFads == {f1, f2}
OneFad == {f1}
Symmetry == Permutations(MCFads)
NoFads == {}
MCQueries == {<<0, 2>>}
NoQueries == {}
TocWord(k) == [sector |-> Toc, form |-> "cooked", word |-> k]
MCOtherReplies == {<<TocWord(0)>>}
=============================================================================
