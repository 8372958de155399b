------------------------------ MODULE Sh2Cache ------------------------------
(***************************************************************************)
(* The SH-2's private instruction cache as the runner keeps it             *)
(* (src/runner/include/sh2_cache.h, sh2_interp.c, bus.c): a set has four   *)
(* ways and six bits that say which of two ways was touched later.  Only   *)
(* instructions are read through it; stores go through to memory and       *)
(* change a line the storing core already holds.  The fetcher remembers    *)
(* the line it is in and skips the search while that line stays put.       *)
(* A line is its set and its tag, and what it holds is one value; the six  *)
(* bits are the set of those that are one.                                 *)
(***************************************************************************)
EXTENDS Integers
CONSTANTS
  Sets, Tags,                  \* indices of sets, tags of lines
  Lines,                       \* the lines software runs in or stores to
  Values, NewValues,              \* what a line may hold, and what is stored
  OrdersWritten,               \* order bits written through the address array
  Controls,                    \* what is written to CCR
  Memories                     \* what memory may hold at the reset

Ways == 0..3
OrderBits == 0..5

ASSUME CacheAssumption ==
  /\ Sets \subseteq Nat /\ Tags \subseteq Nat /\ Lines \subseteq Sets \X Tags
  /\ 0 \in Tags /\ 0 \in Values /\ NewValues \subseteq Values
  /\ OrdersWritten \subseteq SUBSET OrderBits
  /\ Controls \subseteq [on : BOOLEAN, noFill : BOOLEAN, twoWay : BOOLEAN, wayBits : Ways,
                         purge : BOOLEAN]
  /\ Memories \subseteq [Lines -> Values]

VARIABLES
  cache,                       \* the registers of one core's cache
  mem,                         \* memory behind it
  age                          \* history: other ways touched since this one was

NoLine == <<-1, -1>>           \* 1u, which is no line's base
SetOf(line) == line[1]
TagOf(line) == line[2]

(* After a reset: everything is cleared, and the cache is off. *)
ColdCache == [on |-> FALSE, noFill |-> FALSE, twoWay |-> FALSE, wayBits |-> 0,
              tag   |-> [s \in Sets |-> [w \in Ways |-> 0]],
              valid |-> [s \in Sets |-> [w \in Ways |-> FALSE]],
              data  |-> [s \in Sets |-> [w \in Ways |-> 0]],
              lru   |-> [s \in Sets |-> {}],
              ifBase |-> NoLine, ifWay |-> 0]

(* The bits that do not speak of way 0, 1, 2 and 3, and those that say it was the later. *)
KeepBits  == <<{0, 1, 2}, {0, 3, 4}, {1, 3, 5}, {2, 4, 5}>>
LaterBits == <<{}, {5}, {2, 4}, {0, 1, 3}>>
Touch(h, s, w) == [h EXCEPT !.lru[s] = (@ \cap KeepBits[w + 1]) \cup LaterBits[w + 1]]

LruWay(lru, twoWay) ==
    CASE twoWay /\ 0 \in lru    -> 2
      [] twoWay /\ 0 \notin lru -> 3
      [] ~twoWay /\ {3, 4, 5} \subseteq lru -> 0
      [] ~twoWay /\ lru \cap {1, 2, 5} = {1, 2} -> 1
      [] ~twoWay /\ lru \cap {0, 2, 4} = {0} -> 2
      [] OTHER -> 3

Holding(h, line) == {w \in Ways : h.valid[SetOf(line)][w] /\ h.tag[SetOf(line)][w] = TagOf(line)}
FirstOf(ws) == CHOOSE w \in ws : \A x \in ws : w <= x
Usable(h) == IF h.twoWay THEN {2, 3} ELSE Ways

(* Where a missing line goes: a way of the mode that is empty, or the one touched longest ago. *)
FillWay(h, line) ==
    LET s == SetOf(line)
        empty == {w \in Usable(h) : ~h.valid[s][w]}
    IN  IF empty # {} THEN FirstOf(empty) ELSE LruWay(h.lru[s], h.twoWay)

Filled(h, m, line, w) ==
    LET s == SetOf(line)
    IN  [h EXCEPT !.tag[s][w] = TagOf(line), !.valid[s][w] = TRUE, !.data[s][w] = m[line]]

(* An instruction fetch: the opcode and the cache after it. *)
Fetch(h, m, line) ==
    LET s == SetOf(line)
        Hit(g, w) == [v |-> g.data[s][w],
                      h |-> [Touch(g, s, w) EXCEPT !.ifBase = line, !.ifWay = w]]
    IN  CASE ~h.on -> [v |-> m[line], h |-> h]
          [] h.on /\ h.ifBase = line /\ h.ifWay \in Holding(h, line) ->
                [v |-> h.data[s][h.ifWay], h |-> h]
          [] h.on /\ ~(h.ifBase = line /\ h.ifWay \in Holding(h, line)) ->
                CASE Holding(h, line) # {} -> Hit(h, FirstOf(Holding(h, line)))
                  [] Holding(h, line) = {} /\ h.noFill -> [v |-> m[line], h |-> h]
                  [] OTHER -> Hit(Filled(h, m, line, FillWay(h, line)), FillWay(h, line))

(* A store that leaves the fetcher in its line. *)
StoreUnnoticed(h, line, v) ==
    LET w == FirstOf(Holding(h, line))
    IN  IF h.on /\ Holding(h, line) # {}
        THEN [Touch(h, SetOf(line), w) EXCEPT !.data[SetOf(line)][w] = v] ELSE h

(* A store of this core: memory is written in any case, and the line it holds. *)
StoreHit(h, line, v) ==
    LET s == SetOf(line)
        w == FirstOf(Holding(h, line))
    IN  IF h.on /\ Holding(h, line) # {}
        THEN [Touch(h, s, w) EXCEPT !.data[s][w] = v, !.ifBase = NoLine] ELSE h

(* An access to the associative purge area drops a line. *)
PurgeLine(h, line) ==
    [h EXCEPT !.valid[SetOf(line)] = [w \in Ways |-> @[w] /\ w \notin Holding(h, line)]]

(* The address array: tag, valid bit and order of the way CCR selects. *)
AddrWrite(h, line, valid, lru) ==
    [h EXCEPT !.tag[SetOf(line)][h.wayBits] = TagOf(line),
              !.valid[SetOf(line)][h.wayBits] = valid,
              !.lru[SetOf(line)] = lru, !.ifBase = NoLine]
AddrRead(h, line) == [tag |-> h.tag[SetOf(line)][h.wayBits], lru |-> h.lru[SetOf(line)],
                      valid |-> h.valid[SetOf(line)][h.wayBits]]

(* The data array is the lines themselves. *)
DataWrite(h, s, w, v) == [h EXCEPT !.data[s][w] = v]

PurgeAll(h) == [h EXCEPT !.valid = [s \in DOMAIN @ |-> [w \in Ways |-> FALSE]],
                         !.lru = [s \in DOMAIN @ |-> {}]]
CcrWrite(h, on, noFill, twoWay, wayBits, purge) ==
    [(IF purge THEN PurgeAll(h) ELSE h) EXCEPT
        !.on = on, !.noFill = noFill, !.twoWay = twoWay, !.wayBits = wayBits]

(***************************************************************************)
(* One core's cache and the memory behind it.  age counts, for each way,   *)
(* the others touched since; a way not touched since the program wrote     *)
(* bits that are no order is Forgotten.                                    *)
(***************************************************************************)
Forgotten == 4
Orders == {a \in [Ways -> 0..3] : \A w, x \in Ways : a[w] = a[x] => w = x}
Pairs == <<<<3, 2>>, <<3, 1>>, <<2, 1>>, <<3, 0>>, <<2, 0>>, <<1, 0>>>>
Later(b) == Pairs[b + 1][1]
Earlier(b) == Pairs[b + 1][2]

(* The six bits say no more than the ages do, and no less. *)
Says(bits, a) == \A b \in OrderBits : /\ a[Later(b)] < a[Earlier(b)] => b \in bits
                                      /\ a[Earlier(b)] < a[Later(b)] => b \notin bits
AgesOf(bits) == LET as == {a \in Orders : Says(bits, a)}
                IN  IF as = {} THEN [w \in Ways |-> Forgotten] ELSE CHOOSE a \in as : TRUE
Aged(a, w) == [x \in Ways |-> IF x = w THEN 0 ELSE IF a[x] < a[w] THEN a[x] + 1 ELSE a[x]]

(* Where a line is or will be. *)
Served(line) == IF Holding(cache, line) # {} THEN FirstOf(Holding(cache, line))
                ELSE FillWay(cache, line)
Cached(line) == cache.on /\ (Holding(cache, line) # {} \/ ~cache.noFill)

CacheInit == cache = ColdCache /\ mem \in Memories /\ age = [s \in Sets |-> [w \in Ways |-> w]]

IFetch(line) ==
  /\ cache' = Fetch(cache, mem, line).h
  /\ age' = IF Cached(line) THEN [age EXCEPT ![SetOf(line)] = Aged(@, Served(line))] ELSE age
  /\ UNCHANGED mem

OwnStore(line, v) ==
  /\ mem' = [mem EXCEPT ![line] = v]
  /\ cache' = StoreHit(cache, line, v)
  /\ age' = IF cache.on /\ Holding(cache, line) # {}
            THEN [age EXCEPT ![SetOf(line)] = Aged(@, Served(line))] ELSE age

(* The other core, a DMA channel, or this core by the cache-through alias. *)
OtherStore(line, v) == mem' = [mem EXCEPT ![line] = v] /\ UNCHANGED <<cache, age>>

Purge(line) == cache' = PurgeLine(cache, line) /\ UNCHANGED <<mem, age>>

AddressArray(line, valid, bits) ==
  /\ cache' = AddrWrite(cache, line, valid, bits)
  /\ age' = [age EXCEPT ![SetOf(line)] = AgesOf(bits)]
  /\ UNCHANGED mem

DataArray(s, w, v) == cache' = DataWrite(cache, s, w, v) /\ UNCHANGED <<mem, age>>

Control(c) ==
  /\ cache' = CcrWrite(cache, c.on, c.noFill, c.twoWay, c.wayBits, c.purge)
  /\ age' = IF c.purge THEN [s \in Sets |-> [w \in Ways |-> w]] ELSE age
  /\ UNCHANGED mem

CacheNext ==
  \/ \E line \in Lines :
       \/ IFetch(line)
       \/ \E v \in NewValues : OwnStore(line, v) \/ OtherStore(line, v)
       \/ Purge(line)
       \/ \E valid \in BOOLEAN, bits \in OrdersWritten : AddressArray(line, valid, bits)
  \/ \E s \in Sets, w \in Ways, v \in NewValues : DataArray(s, w, v)
  \/ \E c \in Controls : Control(c)

CacheSpec == CacheInit /\ [][CacheNext]_<<cache, mem, age>>

----------------------------------------------------------------------------
(* Properties. *)

CacheTypeOK ==
  /\ cache \in [on : BOOLEAN, noFill : BOOLEAN, twoWay : BOOLEAN, wayBits : Ways,
                tag : [Sets -> [Ways -> Tags]], valid : [Sets -> [Ways -> BOOLEAN]],
                data : [Sets -> [Ways -> Values]], lru : [Sets -> SUBSET OrderBits],
                ifBase : Lines \cup {NoLine}, ifWay : Ways]
  /\ mem \in [Lines -> Values]
  /\ age \in [Sets -> [Ways -> 0..Forgotten]]

\* What a fetch of a line takes away from the other lines: a usable way, an empty
\* one if there is one, and the one touched longest ago if at most two of the set
\* are forgotten.
TakesTheOldest(line) ==
    LET s == SetOf(line)
        w == FillWay(cache, line)
        Fades == {x \in Usable(cache) : age[s][x] = Forgotten}
    IN  /\ w \in Usable(cache)
        /\ cache.valid[s][w] =>
              /\ \A x \in Usable(cache) : cache.valid[s][x]
              /\ (\E p, q \in Ways : Fades \subseteq {p, q}) =>
                    \A x \in Usable(cache) : age[s][x] <= age[s][w]

\* What else the cache holds stays, but for the way a fetch fills.
KeepsOthers(line, h) ==
    \A other \in Lines \ {line} : \A w \in Holding(cache, other) :
        \/ SetOf(other) = SetOf(line) /\ Holding(cache, line) = {} /\ w = FillWay(cache, line)
        \/ w \in Holding(h, other) /\ h.data[SetOf(other)][w] = cache.data[SetOf(other)][w]

\* A way read through the address array and written back is as it was.
SavedAndRestored(h, s) ==
    LET r == AddrRead(h, <<s, 0>>)
    IN  AddrWrite(h, <<s, r.tag>>, r.valid, r.lru) = [h EXCEPT !.ifBase = NoLine]

\* The cache is four private lines to a set, replaced in the order of use:
\* whatever mix of fetches, own stores, stores of others, purges and array writes
\* came before, the next fetch of a line returns what that line holds privately, or
\* memory, and keeps it; it drops no line but the oldest of a full set; and the
\* six bits are the order of use, though a run of fetches in one line touches it
\* once (cache_ifetch, sh2_cache_write, cache_addr_write).
CacheIsPrivateLru ==
  /\ \A s \in Sets : Says(cache.lru[s], age[s])
  /\ \A line \in Lines :
       LET held == Holding(cache, line)
           next == Fetch(cache, mem, line)
           now == Holding(next.h, line)
           s == SetOf(line)
       IN  /\ next.v = IF cache.on /\ held # {} THEN cache.data[s][FirstOf(held)] ELSE mem[line]
           /\ Cached(line) => now # {} /\ next.h.data[s][FirstOf(now)] = next.v
           /\ Cached(line) => Says(next.h.lru[s], Aged(age[s], Served(line)))
           /\ Cached(line) /\ held = {} => TakesTheOldest(line)
           /\ KeepsOthers(line, next.h)
  /\ \A s \in Sets, w \in Ways : SavedAndRestored([cache EXCEPT !.wayBits = w], s)
=============================================================================
