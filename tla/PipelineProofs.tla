--------------------------- MODULE PipelineProofs ---------------------------
(* Proofs about Pipeline and the renderer it drives, for every plan of a      *)
(* field, every length of the queue and of the remembered geometry, and any    *)
(* number of fields, events and pictures.                                     *)
EXTENDS Pipeline, SequenceTheorems, WellFoundedInduction, TLAPS

-----------------------------------------------------------------------------
(* The two folds, Draw and QueueAll, unfolded.  Each is the last value of a   *)
(* walk along the operations; walks of every length exist, and two walks agree *)
(* as far as their operations do.                                             *)

LEMMA Least ==
  ASSUME NEW S, S \subseteq Nat, S # {}
  PROVE  \E m \in S : \A k \in S : m <= k
<1> DEFINE R == {xy \in Nat \X Nat : xy[1] < xy[2]}
<1>1. IsWellFoundedOn(R, Nat)
  BY NatLessThanWellFounded DEF OpToRel
<1>2. PICK m \in S : \A k \in S : <<k, m>> \notin R
  BY <1>1, WFMin
<1>3. ASSUME NEW k \in S PROVE m <= k
  <2>1. m \in Nat /\ k \in Nat /\ <<k, m>> \notin R /\ <<k, m>> \in Nat \X Nat
    BY <1>2
  <2> QED
    BY <2>1
<1> QED
  BY <1>3

DrawWalk(f, ops, v, n, g) ==
  g = [k \in 0 .. n |-> IF k = 0 THEN f ELSE DrawOne(g[k - 1], ops[k], v)]

LEMMA DrawWalkExists ==
  ASSUME NEW f, NEW ops, NEW v, NEW n \in Nat
  PROVE  \E g : DrawWalk(f, ops, v, n, g)
<1> DEFINE Bad == {m \in Nat : ~ \E g : DrawWalk(f, ops, v, m, g)}
<1>1. SUFFICES ASSUME Bad # {} PROVE FALSE
  OBVIOUS
<1>2. PICK m \in Bad : \A k \in Bad : m <= k
  BY <1>1, Least
<1>3. m # 0
  <2>1. DrawWalk(f, ops, v, 0, [k \in 0 .. 0 |-> f])
    BY DEF DrawWalk
  <2> QED
    BY <2>1
<1>4. m - 1 \in Nat /\ m - 1 \notin Bad
  BY <1>2, <1>3
<1>5. PICK g : DrawWalk(f, ops, v, m - 1, g)
  BY <1>4
<1> DEFINE longer == [k \in 0 .. m |-> IF k = m THEN DrawOne(g[m - 1], ops[m], v) ELSE g[k]]
<1>6. \A k \in 0 .. m - 1 : longer[k] = g[k]
  BY <1>4
<1>7. \A k \in 0 .. m - 1 : g[k] = IF k = 0 THEN f ELSE DrawOne(g[k - 1], ops[k], v)
  BY <1>5, <1>4 DEF DrawWalk
<1>8. ASSUME NEW k \in 0 .. m
      PROVE  longer[k] = IF k = 0 THEN f ELSE DrawOne(longer[k - 1], ops[k], v)
  <2>1. CASE k = m
    BY <1>3, <1>4, <1>6, <2>1
  <2>2. CASE k # m
    <3>1. k \in 0 .. m - 1 /\ (k # 0 => k - 1 \in 0 .. m - 1)
      BY <1>4, <2>2
    <3> QED
      BY <1>6, <1>7, <3>1
  <2> QED
    BY <2>1, <2>2
<1>9. DrawWalk(f, ops, v, m, longer)
  BY <1>8 DEF DrawWalk
<1> QED
  BY <1>9

\* Draw is the end of a walk, and a walk goes step by step.
DrawAlong(g, f, ops, v, n) ==
  g[0] = f /\ \A k \in 1 .. n : g[k] = DrawOne(g[k - 1], ops[k], v)

LEMMA DrawIsWalk ==
  ASSUME NEW f, NEW ops, NEW v, Len(ops) \in Nat
  PROVE  \E g : DrawAlong(g, f, ops, v, Len(ops)) /\ Draw(f, ops, v) = g[Len(ops)]
<1> DEFINE n == Len(ops)
           g == CHOOSE h : DrawWalk(f, ops, v, n, h)
<1>1. \E h : DrawWalk(f, ops, v, n, h)
  BY DrawWalkExists
<1>2. DrawWalk(f, ops, v, n, g)
  BY <1>1
<1>3. Draw(f, ops, v) = g[n]
  BY DEF Draw, DrawWalk
<1> HIDE DEF g
<1>4. g[0] = f /\ \A k \in 1 .. n : g[k] = DrawOne(g[k - 1], ops[k], v)
  BY <1>2 DEF DrawWalk
<1> QED
  BY <1>3, <1>4 DEF DrawAlong

\* Two walks along operations that agree are at the same place.
LEMMA SameDraw ==
  ASSUME NEW f, NEW v, NEW n \in Nat, NEW g, NEW h, NEW a, NEW b,
         DrawAlong(g, f, a, v, n), DrawAlong(h, f, b, v, n),
         \A k \in 1 .. n : a[k] = b[k]
  PROVE  g[n] = h[n]
<1> DEFINE Bad == {k \in 0 .. n : g[k] # h[k]}
<1>1. SUFFICES ASSUME Bad # {} PROVE FALSE
  OBVIOUS
<1>2. PICK k \in Bad : \A j \in Bad : k <= j
  <2>1. Bad \subseteq Nat
    OBVIOUS
  <2> HIDE DEF Bad
  <2> QED
    BY <1>1, <2>1, Least
<1>3. k \in 1 .. n /\ k - 1 \in 0 .. n /\ k - 1 \notin Bad
  BY <1>2 DEF DrawAlong
<1> QED
  BY <1>2, <1>3 DEF DrawAlong

LEMMA DrawNothing ==
  ASSUME NEW f, NEW v PROVE Draw(f, <<>>, v) = f
<1>1. Len(<<>>) = 0
  BY EmptySeq
<1> QED
  BY <1>1, DrawIsWalk DEF DrawAlong

LEMMA DrawAppend ==
  ASSUME NEW f, NEW v, NEW S, NEW ops \in Seq(S), NEW op \in S
  PROVE  Draw(f, Append(ops, op), v) = DrawOne(Draw(f, ops, v), op, v)
<1> DEFINE n == Len(ops)
           all == Append(ops, op)
<1>1. /\ n \in Nat /\ Len(all) = n + 1 /\ all[n + 1] = op
      /\ \A k \in 1 .. n : ops[k] = all[k]
  BY AppendProperties, LenProperties
<1> HIDE DEF all
<1>2. PICK g : DrawAlong(g, f, ops, v, n) /\ Draw(f, ops, v) = g[n]
  BY <1>1, DrawIsWalk
<1>3. PICK h : DrawAlong(h, f, all, v, n + 1) /\ Draw(f, all, v) = h[n + 1]
  BY <1>1, DrawIsWalk
<1>4. DrawAlong(h, f, all, v, n) /\ h[n + 1] = DrawOne(h[n], all[n + 1], v)
  BY <1>1, <1>3 DEF DrawAlong
<1>5. g[n] = h[n]
  BY <1>1, <1>2, <1>4, SameDraw
<1> QED
  BY <1>1, <1>2, <1>3, <1>4, <1>5 DEF all
-----------------------------------------------------------------------------
(* The inductive invariant. *)

Kinds == Erases \cup {"quad", "write"}
Ops == [kind : Kinds, target : Buffers, field : Nat, moved : {FALSE}]
Inks == [kind : Kinds, field : Nat, moved : {FALSE}, from : Nat]
Boards == [Buffers -> Seq(Inks)]
Renderers == [
  queue : Seq(Ops), reported : BOOLEAN, interpolate : BOOLEAN,
  counter : Nat, revision : [Buffers -> Nat], geometry : [Buffers -> Seq(Ops)],
  material : [Buffers -> [vram : Nat, valid : BOOLEAN]],
  gpu : Boards, saved : Boards, upload : Nat,
  picture : [vram : Nat, fresh : BOOLEAN],
  history : [revision : Nat, valid : BOOLEAN],
  blend : Seq(Ops), matched : BOOLEAN, field : Nat ]
Machines == [frames : Nat, vram : Nat, draw : Buffers]

Places == {"head", "events", "advance", "render", "snapshot", "present", "exit", "join", "over"}
Busy == {"opens", "draws", "posts"}

Types ==
  /\ pc \in Places /\ wpc \in Busy \cup {"idle", "gone"}
  /\ running \in BOOLEAN /\ paused \in BOOLEAN /\ stepping \in BOOLEAN
  /\ advanced \in BOOLEAN /\ changed \in BOOLEAN /\ have_frame \in BOOLEAN
  /\ worker_pending \in BOOLEAN /\ field_ready \in BOOLEAN /\ visible \in BOOLEAN
  /\ quit \in BOOLEAN
  /\ start \in 0 .. 1 /\ done \in 0 .. 1 /\ frame \in 0 .. MaxFrames /\ seen \in Nat
  /\ sys \in Machines /\ g_picture \in Machines /\ plan \in PlanSet

\* The worker has a field exactly while the loop says so; at the end it is
\* asked once more, to end.
WorkersTurn ==
  /\ pc \in {"join", "over"} =>
       quit /\ ~worker_pending /\ done = 0 /\ wpc \in {"idle", "gone"}
       /\ start = IF wpc = "idle" THEN 1 ELSE 0
  /\ pc \notin {"join", "over"} => ~quit /\ wpc # "gone"
  /\ pc \notin {"join", "over"} /\ ~worker_pending => start = 0 /\ done = 0 /\ wpc = "idle"
  /\ worker_pending =>
       /\ pc \in {"present", "head", "exit"} /\ ~field_ready
       /\ start + done + (IF wpc \in Busy THEN 1 ELSE 0) = 1

\* The count of fields, and when it may still grow.
InStep ==
  /\ pc \in {"render", "snapshot", "present"} /\ advanced => ~field_ready
  /\ pc \notin {"exit", "join", "over"} /\ ~worker_pending =>
       sys.frames = frame + (IF field_ready THEN 1 ELSE 0)
  /\ worker_pending => sys.frames = frame + (IF done > 0 \/ wpc = "posts" THEN 1 ELSE 0)
  /\ worker_pending /\ (start > 0 \/ wpc \in {"opens", "draws"}) =>
       frame < MaxFrames /\ seen = sys.frames
  /\ pc \in {"events", "advance"} \/ (pc = "head" /\ running) => frame < MaxFrames
  /\ pc = "events" => running

\* Which field was rendered last, and which one the snapshot is of.
SnapshotSeen ==
  /\ pc = "snapshot" /\ (advanced \/ changed \/ ~renderer.interpolate) => seen = sys.frames
  /\ pc = "present" /\ ~renderer.interpolate => seen = sys.frames /\ ~worker_pending
  /\ /\ renderer.interpolate
     /\ pc \in {"advance", "render", "snapshot"} => ~changed
     /\ pc \in {"render", "snapshot"} => ~advanced
     => g_picture.frames = seen
  /\ ~have_frame =>
       /\ pc \notin {"snapshot", "present"} /\ seen = 0 /\ g_picture.frames = 0
       /\ (pc = "render" /\ advanced) \/ (frame = 0 /\ ~field_ready /\ ~worker_pending)

\* A field that falls due in a pause does so in a window that is visible.
DueIsVisible ==
  /\ pc \in {"advance", "render"} /\ paused /\ (changed \/ stepping \/ ~have_frame) => visible
  /\ pc = "render" /\ advanced => ~Resting
  /\ pc \in {"head", "events"} /\ ~have_frame => ~paused

\* Revisions number the operations; a pair's blend is the geometry it was made
\* of for as long as that has no newer revision.
Numbered(r) ==
  /\ \A b \in Buffers : r.revision[b] <= r.counter
  /\ r.history.revision <= r.counter
  /\ \A b \in Buffers : r.geometry[b] # <<>> => r.revision[b] > 0
  /\ r.revision[0] = r.revision[1] => r.revision[0] = 0
OnlyFirst(ops, b) ==
  \A i \in DOMAIN ops : ops[i].target = b /\ (i > 1 => ops[i].kind \notin Erases)
OwnTarget(r) == \A b \in Buffers : OnlyFirst(r.geometry[b], b)
BlendIsGeometry(r) ==
  r.history.valid /\ r.matched =>
    \A b \in Buffers : r.revision[b] = r.history.revision => r.blend = r.geometry[b]
Sound(r) == r \in Renderers /\ Numbered(r) /\ OwnTarget(r) /\ BlendIsGeometry(r)

\* Geometry that begins with a full erase and is remembered whole is what the
\* framebuffer holds, or will hold once the queue is drawn.
Inked(ops, v) == [i \in 1 .. Len(ops) |-> Ink(ops[i], v)]
Whole(cur) == cur # <<>> /\ Len(cur) < GeometryCap /\ cur[1].kind = "erase"
GeometryDrawn(r) ==
  r.interpolate =>
    \A b \in Buffers : b \notin Touched(r.queue) /\ r.material[b].valid /\ Whole(r.geometry[b])
      => r.gpu[b] = Inked(r.geometry[b], r.material[b].vram)
GeometryQueued(r) ==
  r.interpolate =>
    \A b \in Buffers : b \in Cleared(r.queue) /\ Whole(r.geometry[b])
      => \A v \in Nat : Draw(r.gpu, r.queue, v)[b] = Inked(r.geometry[b], v)
Canonical(r, t) == ~r.reported => Draw(Plain(r.gpu), r.queue, 0) = t

\* While pictures may be made, the copy is the framebuffer, and what a replay
\* would draw is what the framebuffer holds.
Held ==
  /\ renderer.interpolate /\ running /\ (visible \/ paused)
  /\ pc = "advance" => ~changed /\ Resting
  /\ pc = "render" => ~changed /\ ~advanced
Replayable(r) ==
  /\ r.saved = r.gpu
  /\ r.matched => \E b \in Buffers :
       /\ r.blend # <<>> /\ r.blend[1].kind = "erase"
       /\ OnlyFirst(r.blend, b)
       /\ r.gpu[b] = Inked(r.blend, Material(r))

LoopInv == Types /\ WorkersTurn /\ InStep /\ SnapshotSeen /\ DueIsVisible
Works(r, t) == GeometryDrawn(r) /\ GeometryQueued(r) /\ Canonical(r, t)
PictureInv ==
  /\ Sound(renderer) /\ truth \in Boards
  /\ running => Works(renderer, truth)
  /\ Held => Replayable(renderer)
IInv == LoopInv /\ PictureInv /\ PictureIsOneField

-----------------------------------------------------------------------------
(* A field emits at most two operations.                                     *)

LEMMA UpToTwo ==
  ASSUME NEW n \in 0 .. 2, NEW k \in 0 .. n
  PROVE  k = 0 \/ (k = 1 /\ n >= 1) \/ (k = 2 /\ n = 2)
  OBVIOUS

LEMMA QueueAllShort ==
  ASSUME NEW r, NEW ops, Len(ops) \in 0 .. 2
  PROVE  QueueAll(r, ops) = IF Len(ops) = 0 THEN r
                            ELSE IF Len(ops) = 1 THEN Queue(r, ops[1])
                            ELSE Queue(Queue(r, ops[1]), ops[2])
<1> DEFINE n == Len(ops)
           Walk(g) == g = [k \in 0 .. n |-> IF k = 0 THEN r ELSE Queue(g[k - 1], ops[k])]
           h == [k \in 0 .. n |-> IF k = 0 THEN r ELSE IF k = 1 THEN Queue(r, ops[1])
                                  ELSE Queue(Queue(r, ops[1]), ops[2])]
           g == CHOOSE g : Walk(g)
<1>1. h[0] = r /\ (n >= 1 => h[1] = Queue(r, ops[1]))
      /\ (n = 2 => h[2] = Queue(Queue(r, ops[1]), ops[2]))
  OBVIOUS
<1>2. ASSUME NEW k \in 0 .. n
      PROVE  h[k] = IF k = 0 THEN r ELSE Queue(h[k - 1], ops[k])
  <2>1. k = 0 \/ (k = 1 /\ n >= 1) \/ (k = 2 /\ n = 2)
    BY UpToTwo
  <2> HIDE DEF h
  <2> QED
    BY <2>1, <1>1
<1>3. Walk(h)
  BY <1>2
<1>4. Walk(g)
  BY <1>3
<1>5. QueueAll(r, ops) = g[n]
  BY DEF QueueAll
<1> HIDE DEF g, h
<1>6. g[0] = r /\ \A k \in 1 .. n : g[k] = Queue(g[k - 1], ops[k])
  BY <1>4
<1> QED
  BY <1>5, <1>6

LEMMA DrawShort ==
  ASSUME NEW f, NEW ops, NEW v, Len(ops) \in 0 .. 2
  PROVE  Draw(f, ops, v) = IF Len(ops) = 0 THEN f
                           ELSE IF Len(ops) = 1 THEN DrawOne(f, ops[1], v)
                           ELSE DrawOne(DrawOne(f, ops[1], v), ops[2], v)
<1>1. PICK g : DrawAlong(g, f, ops, v, Len(ops)) /\ Draw(f, ops, v) = g[Len(ops)]
  BY DrawIsWalk
<1> QED
  BY <1>1 DEF DrawAlong

LEMMA PlanOps ==
  ASSUME NEW p \in PlanSet, sys \in Machines, NEW b \in Buffers
  PROVE  /\ Opening(p) \in Seq(Ops) /\ Len(Opening(p)) \in 0 .. 1
         /\ Drawing(p, b) \in Seq(Ops) /\ Len(Drawing(p, b)) \in 0 .. 1
         /\ Displayed(p) \in Buffers
         /\ Opening(p) \o Drawing(p, b) \in Seq(Ops)
         /\ Len(Opening(p) \o Drawing(p, b)) \in 0 .. 2
<1>1. /\ p.swap \in BOOLEAN
      /\ p.erase # "none" => p.erase \in Kinds
      /\ p.then # "none" => p.then \in Kinds
  BY DEF PlanSet, Kinds
<1>2. sys.frames \in Nat /\ sys.draw \in Buffers /\ 1 - sys.draw \in Buffers
  BY DEF Machines, Buffers
<1>3. /\ p.erase # "none" => Op(p.erase, 1 - sys.draw) \in Ops
      /\ p.then # "none" => Op(p.then, b) \in Ops
  BY <1>1, <1>2 DEF Op, Ops
<1>4. Opening(p) \in Seq(Ops) /\ Len(Opening(p)) \in 0 .. 1
  BY <1>3 DEF Opening
<1>5. Drawing(p, b) \in Seq(Ops) /\ Len(Drawing(p, b)) \in 0 .. 1
  BY <1>3 DEF Drawing
<1>6. Displayed(p) \in Buffers
  BY <1>1, <1>2 DEF Displayed
<1> QED
  BY <1>4, <1>5, <1>6, ConcatProperties

-----------------------------------------------------------------------------
(* What each operation of the renderer does to its record.                   *)

LEMMA QueueTyped ==
  ASSUME NEW r \in Renderers, NEW op \in Ops
  PROVE  /\ Queue(r, op) \in Renderers
         /\ Queue(r, op).interpolate = r.interpolate
<1> DEFINE b == op.target
           kept == IF op.kind \in Erases THEN <<>> ELSE r.geometry[b]
<1>1. b \in Buffers /\ r.geometry[b] \in Seq(Ops)
  BY DEF Ops, Renderers
<1>9. kept \in Seq(Ops)
  BY <1>1, EmptySeq
<1> HIDE DEF kept
<1>2. Append(kept, op) \in Seq(Ops) /\ Append(r.queue, op) \in Seq(Ops)
  BY <1>1, <1>9 DEF Renderers
<1> DEFINE newer == [r.revision EXCEPT ![b] = r.counter + 1]
           longer == [r.geometry EXCEPT ![b] = IF Len(kept) < GeometryCap THEN Append(kept, op)
                                               ELSE kept]
<1>3. newer \in [Buffers -> Nat] /\ longer \in [Buffers -> Seq(Ops)]
  BY <1>1, <1>2, <1>9 DEF Renderers
<1>4. Queue(r, op) = IF Len(r.queue) >= MaxOps THEN [r EXCEPT !.reported = TRUE]
                     ELSE IF ~r.interpolate THEN [r EXCEPT !.queue = Append(@, op)]
                     ELSE [r EXCEPT !.queue = Append(@, op), !.counter = @ + 1,
                                    !.revision = newer, !.geometry = longer]
  BY DEF Queue, kept
<1> HIDE DEF newer, longer
<1>5. [r EXCEPT !.reported = TRUE] \in Renderers
  BY DEF Renderers
<1>6. [r EXCEPT !.queue = Append(@, op)] \in Renderers
  BY <1>2 DEF Renderers
<1>7. [r EXCEPT !.queue = Append(@, op), !.counter = @ + 1,
                !.revision = newer, !.geometry = longer] \in Renderers
  <2>1. ASSUME NEW q \in Seq(Ops), NEW c \in Nat
        PROVE  [r EXCEPT !.queue = q, !.counter = c,
                         !.revision = newer, !.geometry = longer] \in Renderers
    BY <1>3 DEF Renderers
  <2>2. r.counter + 1 \in Nat
    BY DEF Renderers
  <2> QED
    BY <1>2, <2>1, <2>2
<1>8. Queue(r, op).interpolate = r.interpolate
  BY <1>4 DEF Renderers
<1> QED
  BY <1>4, <1>5, <1>6, <1>7, <1>8

LEMMA DrawOneTyped ==
  ASSUME NEW f \in Boards, NEW op \in Ops, NEW v \in Nat
  PROVE  DrawOne(f, op, v) \in Boards
<1>1. op.target \in Buffers /\ Ink(op, v) \in Inks /\ f[op.target] \in Seq(Inks)
  BY DEF Ops, Ink, Inks, Boards
<1>2. <<Ink(op, v)>> \in Seq(Inks) /\ Append(f[op.target], Ink(op, v)) \in Seq(Inks)
  BY <1>1
<1> QED
  BY <1>1, <1>2 DEF DrawOne, Boards

LEMMA DrawTyped ==
  ASSUME NEW f \in Boards, NEW ops \in Seq(Ops), NEW v \in Nat
  PROVE  Draw(f, ops, v) \in Boards
<1> DEFINE n == Len(ops)
<1>1. n \in Nat /\ \A k \in 1 .. n : ops[k] \in Ops
  BY LenProperties, ElementOfSeq
<1>2. PICK g : DrawAlong(g, f, ops, v, n) /\ Draw(f, ops, v) = g[n]
  BY <1>1, DrawIsWalk
<1> HIDE DEF n
<1> DEFINE Bad == {k \in 0 .. n : g[k] \notin Boards}
<1>3. SUFFICES ASSUME Bad # {} PROVE FALSE
  BY <1>1, <1>2
<1>4. PICK k \in Bad : \A j \in Bad : k <= j
  <2>1. Bad \subseteq Nat
    OBVIOUS
  <2> HIDE DEF Bad
  <2> QED
    BY <1>3, <2>1, Least
<1>5. k \in 1 .. n /\ k - 1 \in 0 .. n /\ k - 1 \notin Bad
  BY <1>1, <1>2, <1>4 DEF DrawAlong
<1>6. g[k] = DrawOne(g[k - 1], ops[k], v) /\ g[k - 1] \in Boards /\ ops[k] \in Ops
  BY <1>1, <1>2, <1>5 DEF DrawAlong
<1>7. g[k] \in Boards
  BY <1>6, DrawOneTyped
<1> QED
  BY <1>4, <1>7

LEMMA SubmitTyped ==
  ASSUME NEW r \in Renderers, NEW s \in Machines
  PROVE  /\ Submit(r, s) \in Renderers
         /\ Submit(r, s).interpolate = r.interpolate
<1> DEFINE drawn == Draw(r.gpu, r.queue, s.vram)
           material == [b \in Buffers |->
               IF r.interpolate /\ b \in Touched(r.queue)
               THEN [vram |-> s.vram, valid |-> MaterialValid(Cleared(r.queue), b)]
               ELSE r.material[b]]
<1>1. s.vram \in Nat /\ s.frames \in Nat /\ r.gpu \in Boards /\ r.queue \in Seq(Ops)
  BY DEF Machines, Renderers
<1>2. drawn \in Boards
  BY <1>1, DrawTyped
<1>3. \A b \in Buffers : r.material[b] \in [vram : Nat, valid : BOOLEAN]
  BY DEF Renderers
<1>4. \A b \in Buffers : MaterialValid(Cleared(r.queue), b) \in BOOLEAN
  BY DEF MaterialValid
<1>5. material \in [Buffers -> [vram : Nat, valid : BOOLEAN]]
  BY <1>1, <1>3, <1>4
<1>6. Submit(r, s) = [r EXCEPT !.upload = s.vram, !.field = s.frames, !.queue = <<>>,
                               !.gpu = drawn, !.material = material]
  BY DEF Submit
<1>7. <<>> \in Seq(Ops)
  BY EmptySeq
<1> HIDE DEF drawn, material
<1> QED
  BY <1>1, <1>2, <1>5, <1>6, <1>7 DEF Renderers

LEMMA SaveTyped ==
  ASSUME NEW r \in Renderers
  PROVE  Save(r) \in Renderers /\ Save(r).interpolate = r.interpolate
  BY DEF Save, Renderers

LEMMA PairTyped ==
  ASSUME NEW r \in Renderers, NEW s \in Machines, NEW m \in BOOLEAN
  PROVE  /\ Pair(r, s, m) \in Renderers
         /\ Pair(r, s, m).interpolate = r.interpolate
<1> DEFINE b == 1 - s.draw
           safe == Safe(r, b)
           renew == r.revision[b] # r.history.revision \/ ~safe \/ ~r.history.valid
           paired == r.interpolate /\ safe /\ r.history.valid
           picture == [vram |-> r.material[b].vram, fresh |-> TRUE]
           matched == IF renew THEN paired /\ m ELSE r.matched
           blend == IF ~renew THEN r.blend ELSE IF paired THEN r.geometry[b] ELSE <<>>
           history == [revision |-> r.revision[b], valid |-> safe]
<1>1. b \in Buffers
  BY DEF Machines, Buffers
<1>2. safe \in BOOLEAN
  BY DEF Safe
<1> HIDE DEF safe, b
<1>3. picture \in [vram : Nat, fresh : BOOLEAN]
  BY <1>1 DEF Renderers
<1>4. matched \in BOOLEAN
  BY <1>2 DEF Renderers
<1>5. blend \in Seq(Ops)
  <2>1. r.blend \in Seq(Ops) /\ r.geometry[b] \in Seq(Ops) /\ <<>> \in Seq(Ops)
    BY <1>1, EmptySeq DEF Renderers
  <2> HIDE DEF renew, paired
  <2> QED
    BY <2>1
<1>6. history \in [revision : Nat, valid : BOOLEAN]
  BY <1>1, <1>2 DEF Renderers
<1>7. Pair(r, s, m) = [r EXCEPT !.picture = picture, !.matched = matched,
                                !.blend = blend, !.history = history]
  BY DEF Pair, b, safe
<1> HIDE DEF picture, matched, blend, history
<1> QED
  BY <1>3, <1>4, <1>5, <1>6, <1>7 DEF Renderers

LEMMA EnableTyped ==
  ASSUME NEW r \in Renderers
  PROVE  Enable(r) \in Renderers /\ Enable(r).interpolate = TRUE
<1> DEFINE geometry == [b \in Buffers |-> <<>>]
           material == [b \in Buffers |-> [r.material[b] EXCEPT !.valid = FALSE]]
           history == [revision |-> 0, valid |-> FALSE]
<1>1. geometry \in [Buffers -> Seq(Ops)]
  BY EmptySeq
<1>2. material \in [Buffers -> [vram : Nat, valid : BOOLEAN]]
  BY DEF Renderers
<1>3. history \in [revision : Nat, valid : BOOLEAN]
  OBVIOUS
<1>4. Enable(r) = [r EXCEPT !.interpolate = TRUE, !.history = history,
                            !.geometry = geometry, !.material = material]
  BY DEF Enable
<1> HIDE DEF geometry, material, history
<1> QED
  BY <1>1, <1>2, <1>3, <1>4 DEF Renderers

LEMMA DisableTyped ==
  ASSUME NEW r \in Renderers
  PROVE  Disable(r) \in Renderers /\ Disable(r).interpolate = FALSE
  BY DEF Disable, Renderers

LEMMA OperationsTyped ==
  ASSUME NEW r \in Renderers, NEW between \in BOOLEAN
  PROVE  Material(r) \in Nat
  BY DEF Material, Renderers

LEMMA ReplayTyped ==
  ASSUME NEW r \in Renderers, NEW between \in BOOLEAN
  PROVE  /\ Replay(r, between) \in Renderers
         /\ Replay(r, between).interpolate = r.interpolate
         /\ Replay(r, between) = [r EXCEPT !.upload = Material(r), !.picture.fresh = FALSE,
                                           !.gpu = r.saved]
<1>1. [r EXCEPT !.gpu = Replayed(r, between)].saved = r.saved
  BY DEF Renderers
<1>2. Replay(r, between) = [r EXCEPT !.upload = Material(r), !.picture.fresh = FALSE,
                                     !.gpu = r.saved, !.queue = r.queue]
  BY <1>1 DEF Replay, Restore, AfterReplay
<1>3. [r.picture EXCEPT !.fresh = FALSE] \in [vram : Nat, fresh : BOOLEAN]
  BY DEF Renderers
<1>4. Material(r) \in Nat /\ r.saved \in Boards
  BY OperationsTyped DEF Renderers
<1> DEFINE p == [r.picture EXCEPT !.fresh = FALSE]
<1>5. Replay(r, between) = [r EXCEPT !.upload = Material(r), !.picture = p, !.gpu = r.saved]
  BY <1>2 DEF Renderers
<1>6. Replay(r, between) = [r EXCEPT !.upload = Material(r), !.picture.fresh = FALSE,
                                     !.gpu = r.saved]
  BY <1>5
<1>7. p \in [vram : Nat, fresh : BOOLEAN]
  BY <1>3
<1> HIDE DEF p
<1> QED
  BY <1>4, <1>5, <1>6, <1>7 DEF Renderers

LEMMA NewRendererTyped == NewRenderer \in Renderers
<1>1. <<>> \in Seq(Ops) /\ <<>> \in Seq(Inks)
  BY EmptySeq
<1> QED
  BY <1>1 DEF NewRenderer, Renderers, Boards

-----------------------------------------------------------------------------
(* The loop and the worker: the invariant of the hand-over, action by action. *)

Base == LoopInv /\ renderer \in Renderers /\ truth \in Boards

LEMMA EmulateTyped ==
  ASSUME renderer \in Renderers, truth \in Boards,
         NEW p, NEW next, NEW ops \in Seq(Ops), Len(ops) \in 0 .. 2,
         Emulate(p, ops, next)
  PROVE  /\ renderer' \in Renderers /\ renderer'.interpolate = renderer.interpolate
         /\ truth' \in Boards /\ sys' = next
<1>1. renderer' = QueueAll(renderer, ops) /\ truth' = Draw(truth, ops, 0) /\ sys' = next
  BY DEF Emulate
<1>2. truth' \in Boards
  BY <1>1, DrawTyped
<1>3. Len(ops) >= 1 => ops[1] \in Ops
  BY ElementOfSeq
<1>4. Len(ops) = 2 => ops[2] \in Ops
  BY ElementOfSeq
<1>5. CASE Len(ops) = 0
  BY <1>1, <1>2, <1>5, QueueAllShort
<1>6. CASE Len(ops) = 1
  BY <1>1, <1>2, <1>3, <1>6, QueueAllShort, QueueTyped
<1>7. CASE Len(ops) = 2
  <2>1. renderer' = Queue(Queue(renderer, ops[1]), ops[2])
    BY <1>1, <1>7, QueueAllShort
  <2>2. Queue(renderer, ops[1]) \in Renderers
        /\ Queue(renderer, ops[1]).interpolate = renderer.interpolate
    BY <1>3, <1>7, QueueTyped
  <2> QED
    BY <1>1, <1>2, <1>4, <1>7, <2>1, <2>2, QueueTyped
<1> QED
  BY <1>5, <1>6, <1>7

\* The plan of the next field is one of the plans.
LEMMA PlansTyped ==
  ASSUME NEW n \in 0 .. MaxFrames, n < MaxFrames, NEW p \in Plans[n + 1]
  PROVE  p \in PlanSet
<1>1. n + 1 \in 1 .. MaxFrames
  BY PipelineAssumption
<1> QED
  BY <1>1, PipelineAssumption

LEMMA NoPlanTyped == NoPlan \in PlanSet
  BY DEF NoPlan, PlanSet

LEMMA InitKeepsLoop == Init => Base
<1> SUFFICES ASSUME Init PROVE Base
  OBVIOUS
<1>1. renderer \in Renderers
  BY NewRendererTyped, EnableTyped DEF Init
<1>2. truth \in Boards
  BY EmptySeq DEF Init, Boards
<1>3. sys \in Machines /\ g_picture \in Machines /\ plan \in PlanSet
  BY NoPlanTyped DEF Init, Machines, Buffers
<1>4. sys.frames = 0 /\ g_picture.frames = 0
  BY DEF Init
<1>5. 0 \in 0 .. MaxFrames /\ 0 < MaxFrames
  BY PipelineAssumption
<1>6. Types
  <2>1. pc \in Places /\ wpc \in Busy \cup {"idle", "gone"}
    BY DEF Init, Places, Busy
  <2>2. start \in 0 .. 1 /\ done \in 0 .. 1 /\ frame \in 0 .. MaxFrames /\ seen \in Nat
    BY <1>5 DEF Init
  <2> QED
    BY <1>3, <2>1, <2>2 DEF Init, Types
<1>7. WorkersTurn /\ InStep /\ SnapshotSeen /\ DueIsVisible
  BY <1>4, <1>5 DEF Init, WorkersTurn, InStep, SnapshotSeen, DueIsVisible, Busy
<1> QED
  BY <1>1, <1>2, <1>6, <1>7 DEF Base, LoopInv

LEMMA WorkerTakesKeepsLoop == ASSUME Base, WorkerTakes PROVE Base'
<1> USE DEF loop, handover, window, machine
<1>1. sys' = sys /\ g_picture' = g_picture /\ renderer' = renderer /\ truth' = truth
  BY DEF WorkerTakes
<1>2. plan' \in PlanSet
  <2>1. CASE quit
    BY <2>1 DEF WorkerTakes, Base, LoopInv, Types
  <2>2. CASE ~quit
    <3>1. sys.frames \in 0 .. MaxFrames /\ sys.frames < MaxFrames
      BY <2>2 DEF WorkerTakes, Base, LoopInv, Types, WorkersTurn, InStep, Busy, Machines, Places
    <3> QED
      BY <2>2, <3>1, PlansTyped DEF WorkerTakes
  <2> QED
    BY <2>1, <2>2
<1>3. Types'
  BY <1>1, <1>2 DEF WorkerTakes, Base, LoopInv, Types, Busy
<1>4. WorkersTurn'
  BY <1>1 DEF WorkerTakes, Base, LoopInv, Types, WorkersTurn, Busy, Places
<1>5. InStep'
  BY <1>1 DEF WorkerTakes, Base, LoopInv, Types, WorkersTurn, InStep, Busy, Places
<1>6. SnapshotSeen' /\ DueIsVisible'
  BY <1>1 DEF WorkerTakes, Base, LoopInv, SnapshotSeen, DueIsVisible, Resting
<1> QED
  BY <1>1, <1>3, <1>4, <1>5, <1>6 DEF Base, LoopInv

LEMMA WorkerOpensKeepsLoop == ASSUME Base, WorkerOpens PROVE Base'
<1> USE DEF loop, handover, window, worker, machine
<1>1. g_picture' = g_picture /\ plan' = plan
  BY DEF WorkerOpens
<1>2. /\ plan \in PlanSet /\ sys \in Machines /\ sys.frames \in Nat /\ sys.draw \in Buffers
  BY DEF Base, LoopInv, Types, Machines
<1>3. /\ renderer' \in Renderers /\ renderer'.interpolate = renderer.interpolate
      /\ truth' \in Boards
      /\ sys' = [sys EXCEPT !.vram = sys.frames + 1, !.draw = Displayed(plan)]
  BY <1>2, PlanOps, EmulateTyped DEF WorkerOpens, Base
<1>4. sys' \in Machines /\ sys'.frames = sys.frames
  <2>1. ASSUME NEW d \in Buffers, NEW v \in Nat
        PROVE  /\ [sys EXCEPT !.vram = v, !.draw = d] \in Machines
               /\ [sys EXCEPT !.vram = v, !.draw = d].frames = sys.frames
    BY <1>2 DEF Machines
  <2>2. Displayed(plan) \in Buffers /\ sys.frames + 1 \in Nat
    BY <1>2, PlanOps
  <2> QED
    BY <1>3, <2>1, <2>2
<1>5. Types'
  BY <1>1, <1>2, <1>3, <1>4 DEF WorkerOpens, Base, LoopInv, Types, WorkersTurn, InStep, SnapshotSeen, DueIsVisible,
     Busy, Places, Resting, Due, HandOver, StillRunning, Machines
<1>6. WorkersTurn'
  BY <1>1, <1>2, <1>3, <1>4 DEF WorkerOpens, Base, LoopInv, Types, WorkersTurn, InStep, SnapshotSeen, DueIsVisible,
     Busy, Places, Resting, Due, HandOver, StillRunning, Machines
<1>7. InStep'
  BY <1>1, <1>2, <1>3, <1>4 DEF WorkerOpens, Base, LoopInv, Types, WorkersTurn, InStep, SnapshotSeen, DueIsVisible,
     Busy, Places, Resting, Due, HandOver, StillRunning, Machines
<1>8. SnapshotSeen'
  BY <1>1, <1>2, <1>3, <1>4 DEF WorkerOpens, Base, LoopInv, Types, WorkersTurn, InStep, SnapshotSeen, DueIsVisible,
     Busy, Places, Resting, Due, HandOver, StillRunning, Machines
<1>9. DueIsVisible'
  BY <1>1, <1>2, <1>3, <1>4 DEF WorkerOpens, Base, LoopInv, Types, WorkersTurn, InStep, SnapshotSeen, DueIsVisible,
     Busy, Places, Resting, Due, HandOver, StillRunning, Machines
<1> QED
  BY <1>1, <1>2, <1>3, <1>4, <1>5, <1>6, <1>7, <1>8, <1>9 DEF Base, LoopInv

LEMMA WorkerDrawsKeepsLoop == ASSUME Base, WorkerDraws PROVE Base'
<1> USE DEF loop, handover, window, worker, machine
<1>1. g_picture' = g_picture /\ plan' = plan
  BY DEF WorkerDraws
<1>2. /\ plan \in PlanSet /\ sys \in Machines /\ sys.frames \in Nat /\ sys.draw \in Buffers
  BY DEF Base, LoopInv, Types, Machines
<1>3. /\ renderer' \in Renderers /\ renderer'.interpolate = renderer.interpolate
      /\ truth' \in Boards /\ sys' = [sys EXCEPT !.frames = @ + 1]
  BY <1>2, PlanOps, EmulateTyped DEF WorkerDraws, Base
<1>4. sys' \in Machines /\ sys'.frames = sys.frames + 1
  BY <1>2, <1>3 DEF Machines
<1>5. Types'
  BY <1>1, <1>2, <1>3, <1>4 DEF WorkerDraws, Base, LoopInv, Types, WorkersTurn, InStep, SnapshotSeen, DueIsVisible,
     Busy, Places, Resting, Due, HandOver, StillRunning, Machines
<1>6. WorkersTurn'
  BY <1>1, <1>2, <1>3, <1>4 DEF WorkerDraws, Base, LoopInv, Types, WorkersTurn, InStep, SnapshotSeen, DueIsVisible,
     Busy, Places, Resting, Due, HandOver, StillRunning, Machines
<1>7. InStep'
  BY <1>1, <1>2, <1>3, <1>4 DEF WorkerDraws, Base, LoopInv, Types, WorkersTurn, InStep, SnapshotSeen, DueIsVisible,
     Busy, Places, Resting, Due, HandOver, StillRunning, Machines
<1>8. SnapshotSeen'
  BY <1>1, <1>2, <1>3, <1>4 DEF WorkerDraws, Base, LoopInv, Types, WorkersTurn, InStep, SnapshotSeen, DueIsVisible,
     Busy, Places, Resting, Due, HandOver, StillRunning, Machines
<1>9. DueIsVisible'
  BY <1>1, <1>2, <1>3, <1>4 DEF WorkerDraws, Base, LoopInv, Types, WorkersTurn, InStep, SnapshotSeen, DueIsVisible,
     Busy, Places, Resting, Due, HandOver, StillRunning, Machines
<1> QED
  BY <1>1, <1>2, <1>3, <1>4, <1>5, <1>6, <1>7, <1>8, <1>9 DEF Base, LoopInv

LEMMA WorkerPostsKeepsLoop == ASSUME Base, WorkerPosts PROVE Base'
<1> USE DEF loop, handover, window, worker, machine
<1>1. sys' = sys /\ g_picture' = g_picture /\ renderer' = renderer /\ truth' = truth
  BY DEF WorkerPosts
<1>2. plan' \in PlanSet
  BY NoPlanTyped DEF WorkerPosts
<1>5. Types'
  BY <1>1, <1>2 DEF WorkerPosts, Base, LoopInv, Types, WorkersTurn, InStep, SnapshotSeen, DueIsVisible,
     Busy, Places, Resting, Due, HandOver, StillRunning, Machines
<1>6. WorkersTurn'
  BY <1>1, <1>2 DEF WorkerPosts, Base, LoopInv, Types, WorkersTurn, InStep, SnapshotSeen, DueIsVisible,
     Busy, Places, Resting, Due, HandOver, StillRunning, Machines
<1>7. InStep'
  BY <1>1, <1>2 DEF WorkerPosts, Base, LoopInv, Types, WorkersTurn, InStep, SnapshotSeen, DueIsVisible,
     Busy, Places, Resting, Due, HandOver, StillRunning, Machines
<1>8. SnapshotSeen'
  BY <1>1, <1>2 DEF WorkerPosts, Base, LoopInv, Types, WorkersTurn, InStep, SnapshotSeen, DueIsVisible,
     Busy, Places, Resting, Due, HandOver, StillRunning, Machines
<1>9. DueIsVisible'
  BY <1>1, <1>2 DEF WorkerPosts, Base, LoopInv, Types, WorkersTurn, InStep, SnapshotSeen, DueIsVisible,
     Busy, Places, Resting, Due, HandOver, StillRunning, Machines
<1> QED
  BY <1>1, <1>2, <1>5, <1>6, <1>7, <1>8, <1>9 DEF Base, LoopInv

LEMMA WaitForFieldKeepsLoop == ASSUME Base, WaitForField PROVE Base'
<1> USE DEF loop, handover, window, worker, machine
<1>1. sys' = sys /\ g_picture' = g_picture /\ renderer' = renderer /\ truth' = truth /\ plan' = plan
  BY DEF WaitForField
<1>5. Types'
  <2>1. done' \in 0 .. 1
    BY DEF WaitForField, Base, LoopInv, Types
  <2>2. pc' \in Places /\ worker_pending' \in BOOLEAN /\ field_ready' \in BOOLEAN
    BY DEF WaitForField, Base, LoopInv, Types, Places
  <2> QED
    BY <2>1, <2>2, <1>1 DEF WaitForField, Base, LoopInv, Types, WorkersTurn, InStep, SnapshotSeen, DueIsVisible,
       Busy, Places, Resting, Due, HandOver, StillRunning, Machines
<1>6. WorkersTurn'
  BY <1>1 DEF WaitForField, Base, LoopInv, Types, WorkersTurn, InStep, SnapshotSeen, DueIsVisible,
     Busy, Places, Resting, Due, HandOver, StillRunning, Machines
<1>7. InStep'
  BY <1>1 DEF WaitForField, Base, LoopInv, Types, WorkersTurn, InStep, SnapshotSeen, DueIsVisible,
     Busy, Places, Resting, Due, HandOver, StillRunning, Machines
<1>8. SnapshotSeen'
  BY <1>1 DEF WaitForField, Base, LoopInv, Types, WorkersTurn, InStep, SnapshotSeen, DueIsVisible,
     Busy, Places, Resting, Due, HandOver, StillRunning, Machines
<1>9. DueIsVisible'
  BY <1>1 DEF WaitForField, Base, LoopInv, Types, WorkersTurn, InStep, SnapshotSeen, DueIsVisible,
     Busy, Places, Resting, Due, HandOver, StillRunning, Machines
<1> QED
  BY <1>1, <1>5, <1>6, <1>7, <1>8, <1>9 DEF Base, LoopInv

LEMMA EndIterationKeepsLoop == ASSUME Base, EndIteration PROVE Base'
<1> USE DEF loop, handover, window, worker, machine
<1>1. sys' = sys /\ g_picture' = g_picture /\ renderer' = renderer /\ truth' = truth /\ plan' = plan
  BY DEF EndIteration
<1>5. Types'
  BY <1>1 DEF EndIteration, Base, LoopInv, Types, WorkersTurn, InStep, SnapshotSeen, DueIsVisible,
     Busy, Places, Resting, Due, HandOver, StillRunning, Machines
<1>6. WorkersTurn'
  BY <1>1 DEF EndIteration, Base, LoopInv, Types, WorkersTurn, InStep, SnapshotSeen, DueIsVisible,
     Busy, Places, Resting, Due, HandOver, StillRunning, Machines
<1>7. InStep'
  BY <1>1 DEF EndIteration, Base, LoopInv, Types, WorkersTurn, InStep, SnapshotSeen, DueIsVisible,
     Busy, Places, Resting, Due, HandOver, StillRunning, Machines
<1>8. SnapshotSeen'
  BY <1>1 DEF EndIteration, Base, LoopInv, Types, WorkersTurn, InStep, SnapshotSeen, DueIsVisible,
     Busy, Places, Resting, Due, HandOver, StillRunning, Machines
<1>9. DueIsVisible'
  BY <1>1 DEF EndIteration, Base, LoopInv, Types, WorkersTurn, InStep, SnapshotSeen, DueIsVisible,
     Busy, Places, Resting, Due, HandOver, StillRunning, Machines
<1> QED
  BY <1>1, <1>5, <1>6, <1>7, <1>8, <1>9 DEF Base, LoopInv

LEMMA ExitWaitsKeepsLoop == ASSUME Base, ExitWaits PROVE Base'
<1> USE DEF loop, handover, window, worker, machine
<1>1. sys' = sys /\ g_picture' = g_picture /\ renderer' = renderer /\ truth' = truth /\ plan' = plan
  BY DEF ExitWaits
<1>5. Types'
  <2>1. done' \in 0 .. 1
    BY DEF ExitWaits, Base, LoopInv, Types
  <2>2. worker_pending' = FALSE
    BY DEF ExitWaits
  <2> QED
    BY <2>1, <2>2, <1>1 DEF ExitWaits, Base, LoopInv, Types, WorkersTurn, InStep, SnapshotSeen, DueIsVisible,
       Busy, Places, Resting, Due, HandOver, StillRunning, Machines
<1>6. WorkersTurn'
  BY <1>1 DEF ExitWaits, Base, LoopInv, Types, WorkersTurn, InStep, SnapshotSeen, DueIsVisible,
     Busy, Places, Resting, Due, HandOver, StillRunning, Machines
<1>7. InStep'
  BY <1>1 DEF ExitWaits, Base, LoopInv, Types, WorkersTurn, InStep, SnapshotSeen, DueIsVisible,
     Busy, Places, Resting, Due, HandOver, StillRunning, Machines
<1>8. SnapshotSeen'
  BY <1>1 DEF ExitWaits, Base, LoopInv, Types, WorkersTurn, InStep, SnapshotSeen, DueIsVisible,
     Busy, Places, Resting, Due, HandOver, StillRunning, Machines
<1>9. DueIsVisible'
  BY <1>1 DEF ExitWaits, Base, LoopInv, Types, WorkersTurn, InStep, SnapshotSeen, DueIsVisible,
     Busy, Places, Resting, Due, HandOver, StillRunning, Machines
<1> QED
  BY <1>1, <1>5, <1>6, <1>7, <1>8, <1>9 DEF Base, LoopInv

LEMMA ExitPostsKeepsLoop == ASSUME Base, ExitPosts PROVE Base'
<1> USE DEF loop, handover, window, worker, machine
<1>1. sys' = sys /\ g_picture' = g_picture /\ renderer' = renderer /\ truth' = truth /\ plan' = plan
  BY DEF ExitPosts
<1>5. Types'
  BY <1>1 DEF ExitPosts, Base, LoopInv, Types, WorkersTurn, InStep, SnapshotSeen, DueIsVisible,
     Busy, Places, Resting, Due, HandOver, StillRunning, Machines
<1>6. WorkersTurn'
  BY <1>1 DEF ExitPosts, Base, LoopInv, Types, WorkersTurn, InStep, SnapshotSeen, DueIsVisible,
     Busy, Places, Resting, Due, HandOver, StillRunning, Machines
<1>7. InStep'
  BY <1>1 DEF ExitPosts, Base, LoopInv, Types, WorkersTurn, InStep, SnapshotSeen, DueIsVisible,
     Busy, Places, Resting, Due, HandOver, StillRunning, Machines
<1>8. SnapshotSeen'
  BY <1>1 DEF ExitPosts, Base, LoopInv, Types, WorkersTurn, InStep, SnapshotSeen, DueIsVisible,
     Busy, Places, Resting, Due, HandOver, StillRunning, Machines
<1>9. DueIsVisible'
  BY <1>1 DEF ExitPosts, Base, LoopInv, Types, WorkersTurn, InStep, SnapshotSeen, DueIsVisible,
     Busy, Places, Resting, Due, HandOver, StillRunning, Machines
<1> QED
  BY <1>1, <1>5, <1>6, <1>7, <1>8, <1>9 DEF Base, LoopInv

LEMMA ExitJoinsKeepsLoop == ASSUME Base, ExitJoins PROVE Base'
<1> USE DEF loop, handover, window, worker, machine
<1>1. sys' = sys /\ g_picture' = g_picture /\ renderer' = renderer /\ truth' = truth /\ plan' = plan
  BY DEF ExitJoins
<1>5. Types'
  BY <1>1 DEF ExitJoins, Base, LoopInv, Types, WorkersTurn, InStep, SnapshotSeen, DueIsVisible,
     Busy, Places, Resting, Due, HandOver, StillRunning, Machines
<1>6. WorkersTurn'
  BY <1>1 DEF ExitJoins, Base, LoopInv, Types, WorkersTurn, InStep, SnapshotSeen, DueIsVisible,
     Busy, Places, Resting, Due, HandOver, StillRunning, Machines
<1>7. InStep'
  BY <1>1 DEF ExitJoins, Base, LoopInv, Types, WorkersTurn, InStep, SnapshotSeen, DueIsVisible,
     Busy, Places, Resting, Due, HandOver, StillRunning, Machines
<1>8. SnapshotSeen'
  BY <1>1 DEF ExitJoins, Base, LoopInv, Types, WorkersTurn, InStep, SnapshotSeen, DueIsVisible,
     Busy, Places, Resting, Due, HandOver, StillRunning, Machines
<1>9. DueIsVisible'
  BY <1>1 DEF ExitJoins, Base, LoopInv, Types, WorkersTurn, InStep, SnapshotSeen, DueIsVisible,
     Busy, Places, Resting, Due, HandOver, StillRunning, Machines
<1> QED
  BY <1>1, <1>5, <1>6, <1>7, <1>8, <1>9 DEF Base, LoopInv

LEMMA PresentFieldKeepsLoop == ASSUME Base, PresentField PROVE Base'
<1> USE DEF loop, handover, window, worker, machine
<1>1. sys' = sys /\ g_picture' = g_picture /\ renderer' = renderer /\ truth' = truth /\ plan' = plan
  BY DEF PresentField
<1>5. Types'
  BY <1>1 DEF PresentField, Base, LoopInv, Types, WorkersTurn, InStep, SnapshotSeen, DueIsVisible,
     Busy, Places, Resting, Due, HandOver, StillRunning, Machines
<1>6. WorkersTurn'
  BY <1>1 DEF PresentField, Base, LoopInv, Types, WorkersTurn, InStep, SnapshotSeen, DueIsVisible,
     Busy, Places, Resting, Due, HandOver, StillRunning, Machines
<1>7. InStep'
  BY <1>1 DEF PresentField, Base, LoopInv, Types, WorkersTurn, InStep, SnapshotSeen, DueIsVisible,
     Busy, Places, Resting, Due, HandOver, StillRunning, Machines
<1>8. SnapshotSeen'
  BY <1>1 DEF PresentField, Base, LoopInv, Types, WorkersTurn, InStep, SnapshotSeen, DueIsVisible,
     Busy, Places, Resting, Due, HandOver, StillRunning, Machines
<1>9. DueIsVisible'
  BY <1>1 DEF PresentField, Base, LoopInv, Types, WorkersTurn, InStep, SnapshotSeen, DueIsVisible,
     Busy, Places, Resting, Due, HandOver, StillRunning, Machines
<1> QED
  BY <1>1, <1>5, <1>6, <1>7, <1>8, <1>9 DEF Base, LoopInv

LEMMA EventKeepsLoop == ASSUME Base, NEW e \in {"none", "F2", "space", "step", "quit", "resize"},
         Event(e) PROVE Base'
<1> USE DEF loop, handover, window, worker, machine
<1>1. sys' = sys /\ g_picture' = g_picture /\ truth' = truth /\ plan' = plan
  BY DEF Event
<1>2. renderer' \in Renderers
  BY EnableTyped, DisableTyped DEF Event, Base
<1>3. e # "F2" => renderer' = renderer
  BY DEF Event
<1>4. renderer'.interpolate \in BOOLEAN /\ renderer.interpolate \in BOOLEAN
  BY <1>2 DEF Base, Renderers
<1>5. Types'
  BY <1>1, <1>2, <1>3, <1>4 DEF Event, Base, LoopInv, Types, WorkersTurn, InStep, SnapshotSeen, DueIsVisible,
     Busy, Places, Resting, Due, HandOver, StillRunning, Machines
<1>6. WorkersTurn'
  BY <1>1, <1>2, <1>3, <1>4 DEF Event, Base, LoopInv, Types, WorkersTurn, InStep, SnapshotSeen, DueIsVisible,
     Busy, Places, Resting, Due, HandOver, StillRunning, Machines
<1>7. InStep'
  BY <1>1, <1>2, <1>3, <1>4 DEF Event, Base, LoopInv, Types, WorkersTurn, InStep, SnapshotSeen, DueIsVisible,
     Busy, Places, Resting, Due, HandOver, StillRunning, Machines
<1>8. SnapshotSeen'
  BY <1>1, <1>2, <1>3, <1>4 DEF Event, Base, LoopInv, Types, WorkersTurn, InStep, SnapshotSeen, DueIsVisible,
     Busy, Places, Resting, Due, HandOver, StillRunning, Machines
<1>9. DueIsVisible'
  BY <1>1, <1>2, <1>3, <1>4 DEF Event, Base, LoopInv, Types, WorkersTurn, InStep, SnapshotSeen, DueIsVisible,
     Busy, Places, Resting, Due, HandOver, StillRunning, Machines
<1> QED
  BY <1>1, <1>2, <1>3, <1>4, <1>5, <1>6, <1>7, <1>8, <1>9 DEF Base, LoopInv

LEMMA PresentPictureKeepsLoop == ASSUME Base, PresentPicture PROVE Base'
<1> USE DEF loop, handover, window, worker, machine
<1>1. sys' = sys /\ g_picture' = g_picture /\ truth' = truth /\ plan' = plan
  BY DEF PresentPicture
<1>2. renderer' \in Renderers /\ renderer'.interpolate = renderer.interpolate
  BY ReplayTyped DEF PresentPicture, Base
<1>5. Types'
  BY <1>1, <1>2 DEF PresentPicture, Base, LoopInv, Types, WorkersTurn, InStep, SnapshotSeen, DueIsVisible,
     Busy, Places, Resting, Due, HandOver, StillRunning, Machines
<1>6. WorkersTurn'
  BY <1>1, <1>2 DEF PresentPicture, Base, LoopInv, Types, WorkersTurn, InStep, SnapshotSeen, DueIsVisible,
     Busy, Places, Resting, Due, HandOver, StillRunning, Machines
<1>7. InStep'
  BY <1>1, <1>2 DEF PresentPicture, Base, LoopInv, Types, WorkersTurn, InStep, SnapshotSeen, DueIsVisible,
     Busy, Places, Resting, Due, HandOver, StillRunning, Machines
<1>8. SnapshotSeen'
  BY <1>1, <1>2 DEF PresentPicture, Base, LoopInv, Types, WorkersTurn, InStep, SnapshotSeen, DueIsVisible,
     Busy, Places, Resting, Due, HandOver, StillRunning, Machines
<1>9. DueIsVisible'
  BY <1>1, <1>2 DEF PresentPicture, Base, LoopInv, Types, WorkersTurn, InStep, SnapshotSeen, DueIsVisible,
     Busy, Places, Resting, Due, HandOver, StillRunning, Machines
<1> QED
  BY <1>1, <1>2, <1>5, <1>6, <1>7, <1>8, <1>9 DEF Base, LoopInv

LEMMA SnapshotKeepsLoop == ASSUME Base, Snapshot PROVE Base'
<1> USE DEF loop, handover, window, worker, machine
<1>1. sys' = sys /\ renderer' = renderer /\ truth' = truth /\ plan' = plan
  BY DEF Snapshot
<1>2. g_picture' \in Machines
  BY DEF Snapshot, Base, LoopInv, Types
<1>5. Types'
  BY <1>1, <1>2 DEF Snapshot, Base, LoopInv, Types, WorkersTurn, InStep, SnapshotSeen, DueIsVisible,
     Busy, Places, Resting, Due, HandOver, StillRunning, Machines
<1>6. WorkersTurn'
  BY <1>1, <1>2 DEF Snapshot, Base, LoopInv, Types, WorkersTurn, InStep, SnapshotSeen, DueIsVisible,
     Busy, Places, Resting, Due, HandOver, StillRunning, Machines
<1>7. InStep'
  BY <1>1, <1>2 DEF Snapshot, Base, LoopInv, Types, WorkersTurn, InStep, SnapshotSeen, DueIsVisible,
     Busy, Places, Resting, Due, HandOver, StillRunning, Machines
<1>8. SnapshotSeen'
  BY <1>1, <1>2 DEF Snapshot, Base, LoopInv, Types, WorkersTurn, InStep, SnapshotSeen, DueIsVisible,
     Busy, Places, Resting, Due, HandOver, StillRunning, Machines
<1>9. DueIsVisible'
  BY <1>1, <1>2 DEF Snapshot, Base, LoopInv, Types, WorkersTurn, InStep, SnapshotSeen, DueIsVisible,
     Busy, Places, Resting, Due, HandOver, StillRunning, Machines
<1> QED
  BY <1>1, <1>2, <1>5, <1>6, <1>7, <1>8, <1>9 DEF Base, LoopInv

LEMMA RenderKeepsLoop == ASSUME Base, Render PROVE Base'
<1> USE DEF loop, handover, window, worker, machine
<1>1. sys' = sys /\ g_picture' = g_picture /\ truth' = truth /\ plan' = plan
  BY DEF Render
<1>2. renderer' \in Renderers /\ renderer'.interpolate = renderer.interpolate
  <2>1. sys \in Machines /\ renderer \in Renderers
    BY DEF Base, LoopInv, Types
  <2>2. CASE RenderCore
    <3>1. PICK m \in BOOLEAN :
            renderer' = Pair(IF visible THEN Save(Submit(renderer, sys)) ELSE renderer, sys, m)
      BY <2>2 DEF RenderCore
    <3>2. Save(Submit(renderer, sys)) \in Renderers
          /\ Save(Submit(renderer, sys)).interpolate = renderer.interpolate
      BY <2>1, SubmitTyped, SaveTyped
    <3> DEFINE x == IF visible THEN Save(Submit(renderer, sys)) ELSE renderer
    <3>3. x \in Renderers /\ x.interpolate = renderer.interpolate
      BY <2>1, <3>2
    <3> HIDE DEF x
    <3> QED
      BY <2>1, <3>1, <3>3, PairTyped DEF x
  <2>3. CASE RenderField
    BY <2>1, <2>3, SubmitTyped DEF RenderField
  <2>4. CASE RenderFails
    BY <2>1, <2>4 DEF RenderFails
  <2>5. CASE UNCHANGED renderer
    BY <2>1, <2>5
  <2> QED
    BY <2>2, <2>3, <2>4, <2>5 DEF Render
<1>3. running' => running
  BY DEF Render, RenderCore, RenderField, RenderFails
<1>5. Types'
  <2>1. running' \in BOOLEAN /\ have_frame' \in BOOLEAN /\ seen' \in Nat
    BY DEF Render, RenderCore, RenderField, RenderFails, Base, LoopInv, Types, Machines
  <2>2. pc' = "snapshot"
    BY DEF Render
  <2> QED
    BY <2>1, <2>2, <1>1, <1>2, <1>3 DEF Render, Base, LoopInv, Types, WorkersTurn, InStep, SnapshotSeen, DueIsVisible,
       Busy, Places, Resting, Due, HandOver, StillRunning, Machines
<1>6. WorkersTurn'
  BY <1>1, <1>2, <1>3 DEF Render, Base, LoopInv, Types, WorkersTurn, InStep, SnapshotSeen, DueIsVisible,
     Busy, Places, Resting, Due, HandOver, StillRunning, Machines
<1>7. InStep'
  BY <1>1, <1>2, <1>3 DEF Render, Base, LoopInv, Types, WorkersTurn, InStep, SnapshotSeen, DueIsVisible,
     Busy, Places, Resting, Due, HandOver, StillRunning, Machines
<1>8. SnapshotSeen'
  BY <1>1, <1>2, <1>3 DEF Render, Base, LoopInv, Types, WorkersTurn, InStep, SnapshotSeen, DueIsVisible,
     Busy, Places, Resting, Due, HandOver, StillRunning, Machines
<1>9. DueIsVisible'
  BY <1>1, <1>2, <1>3 DEF Render, Base, LoopInv, Types, WorkersTurn, InStep, SnapshotSeen, DueIsVisible,
     Busy, Places, Resting, Due, HandOver, StillRunning, Machines
<1> QED
  BY <1>1, <1>2, <1>3, <1>5, <1>6, <1>7, <1>8, <1>9 DEF Base, LoopInv

LEMMA RunInlineKeepsLoop == ASSUME Base, Advance, RunInline PROVE Base'
<1> USE DEF loop, handover, window, worker, machine
<1>1. g_picture' = g_picture /\ plan' = plan
  BY DEF Advance
<1>2. sys \in Machines /\ sys.frames \in Nat /\ sys.draw \in Buffers
  BY DEF Base, LoopInv, Types, Machines
<1>3. sys.frames \in 0 .. MaxFrames /\ sys.frames < MaxFrames
  BY DEF RunInline, Advance, Base, LoopInv, Types, WorkersTurn, InStep, Busy, Machines, Places
<1>4. /\ renderer' \in Renderers /\ renderer'.interpolate = renderer.interpolate
      /\ truth' \in Boards /\ sys' \in Machines /\ sys'.frames = sys.frames + 1
  <2>1. PICK p \in Plans[sys.frames + 1] : RunField(p)
    BY DEF RunInline
  <2>2. p \in PlanSet
    BY <1>3, PlansTyped
  <2> DEFINE ops == Opening(p) \o Drawing(p, Displayed(p))
             next == [frames |-> sys.frames + 1, vram |-> sys.frames + 1, draw |-> Displayed(p)]
  <2>3. Displayed(p) \in Buffers /\ ops \in Seq(Ops) /\ Len(ops) \in 0 .. 2
    BY <1>2, <2>2, PlanOps
  <2>4. Emulate(p, ops, next)
    BY <2>1 DEF RunField
  <2>5. next \in Machines /\ next.frames = sys.frames + 1
    BY <1>2, <2>3 DEF Machines
  <2> HIDE DEF ops, next
  <2> QED
    BY <2>3, <2>4, <2>5, EmulateTyped DEF Base
<1>5. Types'
  <2>1. frame' \in 0 .. MaxFrames
    BY <1>3, PipelineAssumption DEF RunInline, Advance, Base, LoopInv, Types, InStep, WorkersTurn
  <2>2. pc' = "render" /\ advanced' = TRUE /\ field_ready' = field_ready
    BY DEF RunInline, Advance
  <2> QED
    BY <2>1, <2>2, <1>1, <1>2, <1>3, <1>4 DEF RunInline, Advance, Base, LoopInv, Types, WorkersTurn, InStep, SnapshotSeen, DueIsVisible,
       Busy, Places, Resting, Due, HandOver, StillRunning, Machines
<1>6. WorkersTurn'
  BY <1>1, <1>2, <1>3, <1>4 DEF RunInline, Advance, Base, LoopInv, Types, WorkersTurn, InStep, SnapshotSeen, DueIsVisible,
     Busy, Places, Resting, Due, HandOver, StillRunning, Machines
<1>7. InStep'
  BY <1>1, <1>2, <1>3, <1>4 DEF RunInline, Advance, Base, LoopInv, Types, WorkersTurn, InStep, SnapshotSeen, DueIsVisible,
     Busy, Places, Resting, Due, HandOver, StillRunning, Machines
<1>8. SnapshotSeen'
  BY <1>1, <1>2, <1>3, <1>4 DEF RunInline, Advance, Base, LoopInv, Types, WorkersTurn, InStep, SnapshotSeen, DueIsVisible,
     Busy, Places, Resting, Due, HandOver, StillRunning, Machines
<1>9. DueIsVisible'
  BY <1>1, <1>2, <1>3, <1>4 DEF RunInline, Advance, Base, LoopInv, Types, WorkersTurn, InStep, SnapshotSeen, DueIsVisible,
     Busy, Places, Resting, Due, HandOver, StillRunning, Machines
<1> QED
  BY <1>1, <1>2, <1>3, <1>4, <1>5, <1>6, <1>7, <1>8, <1>9 DEF Base, LoopInv

LEMMA TakeReadyKeepsLoop == ASSUME Base, Advance, TakeReady PROVE Base'
<1> USE DEF loop, handover, window, worker, machine
<1>1. sys' = sys /\ g_picture' = g_picture /\ renderer' = renderer /\ truth' = truth /\ plan' = plan
  BY DEF TakeReady, Advance
<1>5. Types'
  <2>1. frame' \in 0 .. MaxFrames
    BY PipelineAssumption DEF TakeReady, Advance, Base, LoopInv, Types, InStep, WorkersTurn
  <2>2. pc' = "render" /\ advanced' = TRUE /\ field_ready' = FALSE
    BY DEF TakeReady, Advance
  <2> QED
    BY <2>1, <2>2, <1>1 DEF TakeReady, Advance, Base, LoopInv, Types, WorkersTurn, InStep, SnapshotSeen, DueIsVisible,
       Busy, Places, Resting, Due, HandOver, StillRunning, Machines
<1>6. WorkersTurn'
  BY <1>1 DEF TakeReady, Advance, Base, LoopInv, Types, WorkersTurn, InStep, SnapshotSeen, DueIsVisible,
     Busy, Places, Resting, Due, HandOver, StillRunning, Machines
<1>7. InStep'
  BY <1>1 DEF TakeReady, Advance, Base, LoopInv, Types, WorkersTurn, InStep, SnapshotSeen, DueIsVisible,
     Busy, Places, Resting, Due, HandOver, StillRunning, Machines
<1>8. SnapshotSeen'
  BY <1>1 DEF TakeReady, Advance, Base, LoopInv, Types, WorkersTurn, InStep, SnapshotSeen, DueIsVisible,
     Busy, Places, Resting, Due, HandOver, StillRunning, Machines
<1>9. DueIsVisible'
  BY <1>1 DEF TakeReady, Advance, Base, LoopInv, Types, WorkersTurn, InStep, SnapshotSeen, DueIsVisible,
     Busy, Places, Resting, Due, HandOver, StillRunning, Machines
<1> QED
  BY <1>1, <1>5, <1>6, <1>7, <1>8, <1>9 DEF Base, LoopInv

LEMMA RestKeepsLoop == ASSUME Base, Advance, Rest PROVE Base'
<1> USE DEF loop, handover, window, worker, machine
<1>1. sys' = sys /\ g_picture' = g_picture /\ renderer' = renderer /\ truth' = truth /\ plan' = plan
  BY DEF Rest, Advance
<1>5. Types'
  BY <1>1 DEF Rest, Advance, Base, LoopInv, Types, WorkersTurn, InStep, SnapshotSeen, DueIsVisible,
     Busy, Places, Resting, Due, HandOver, StillRunning, Machines
<1>6. WorkersTurn'
  BY <1>1 DEF Rest, Advance, Base, LoopInv, Types, WorkersTurn, InStep, SnapshotSeen, DueIsVisible,
     Busy, Places, Resting, Due, HandOver, StillRunning, Machines
<1>7. InStep'
  BY <1>1 DEF Rest, Advance, Base, LoopInv, Types, WorkersTurn, InStep, SnapshotSeen, DueIsVisible,
     Busy, Places, Resting, Due, HandOver, StillRunning, Machines
<1>8. SnapshotSeen'
  BY <1>1 DEF Rest, Advance, Base, LoopInv, Types, WorkersTurn, InStep, SnapshotSeen, DueIsVisible,
     Busy, Places, Resting, Due, HandOver, StillRunning, Machines
<1>9. DueIsVisible'
  BY <1>1 DEF Rest, Advance, Base, LoopInv, Types, WorkersTurn, InStep, SnapshotSeen, DueIsVisible,
     Busy, Places, Resting, Due, HandOver, StillRunning, Machines
<1> QED
  BY <1>1, <1>5, <1>6, <1>7, <1>8, <1>9 DEF Base, LoopInv

LEMMA NextKeepsLoop == ASSUME Base, [Next]_vars PROVE Base'
<1>1. CASE Worker
  BY <1>1, WorkerTakesKeepsLoop, WorkerOpensKeepsLoop, WorkerDrawsKeepsLoop,
     WorkerPostsKeepsLoop DEF Worker
<1>2. CASE Main
  <2>1. CASE Advance
    BY <2>1, RunInlineKeepsLoop, TakeReadyKeepsLoop, RestKeepsLoop DEF Advance, Consume
  <2> QED
    BY <1>2, <2>1, WaitForFieldKeepsLoop, RenderKeepsLoop, SnapshotKeepsLoop,
       PresentPictureKeepsLoop, PresentFieldKeepsLoop, EndIterationKeepsLoop,
       EventKeepsLoop, ExitWaitsKeepsLoop, ExitPostsKeepsLoop, ExitJoinsKeepsLoop DEF Main
<1>3. CASE UNCHANGED vars
  BY <1>3 DEF vars, loop, handover, window, worker, machine, Base, LoopInv, Types, WorkersTurn,
     InStep, SnapshotSeen, DueIsVisible, Resting
<1> QED
  BY <1>1, <1>2, <1>3 DEF Next

LEMMA LoopInvAlways == Spec => []Base
  BY InitKeepsLoop, NextKeepsLoop, PTL DEF Spec

\* The loop's count of fields, the machine's and the field last rendered go
\* together, whichever thread runs the field (the hand-over of window.c).
THEOREM FieldsAlwaysInStep == Spec => []FieldsInStep
<1>1. Base => FieldsInStep
  BY DEF Base, LoopInv, Types, WorkersTurn, InStep, FieldsInStep, Busy, Places
<1> QED
  BY <1>1, LoopInvAlways, PTL

\* Types of every variable but the two that hold framebuffers.
THEOREM PipelineTypeCorrect == Spec => []TypeOK
<1>1. Base => TypeOK
  BY DEF Base, LoopInv, Types, TypeOK, Machines, Places, Busy
<1> QED
  BY <1>1, LoopInvAlways, PTL

-----------------------------------------------------------------------------
(* What a list of operations leaves in a framebuffer.                        *)

\* Inks with the version of memory they came from forgotten.
Bare(drawn) == [i \in DOMAIN drawn |-> [drawn[i] EXCEPT !.from = 0]]

LEMMA BareAppend ==
  ASSUME NEW drawn \in Seq(Inks), NEW e \in Inks
  PROVE  Bare(Append(drawn, e)) = Append(Bare(drawn), [e EXCEPT !.from = 0])
<1> DEFINE n == Len(drawn)
           F(x) == [x EXCEPT !.from = 0]
<1>1. /\ n \in Nat /\ DOMAIN drawn = 1 .. n /\ Append(drawn, e) \in Seq(Inks)
      /\ DOMAIN Append(drawn, e) = 1 .. n + 1 /\ Append(drawn, e)[n + 1] = e
      /\ \A i \in 1 .. n : Append(drawn, e)[i] = drawn[i] /\ drawn[i] \in Inks
  BY AppendProperties, LenProperties, ElementOfSeq
<1>2. \A x \in Inks : F(x) \in Inks
  BY DEF Inks
<1> HIDE DEF F
<1>3. Bare(drawn) = [i \in 1 .. n |-> F(drawn[i])]
  BY <1>1 DEF Bare, F
<1>4. Bare(Append(drawn, e)) = [i \in 1 .. n + 1 |-> F(Append(drawn, e)[i])]
  BY <1>1 DEF Bare, F
<1>5. Bare(drawn) \in Seq(Inks) /\ Len(Bare(drawn)) = n
  <2>1. \A i \in 1 .. n : F(drawn[i]) \in Inks
    BY <1>1, <1>2
  <2> QED
    BY <1>1, <1>3, <2>1, IsASeq
<1> DEFINE whole == Append(Bare(drawn), F(e))
<1>6. /\ whole \in Seq(Inks) /\ DOMAIN whole = 1 .. n + 1 /\ whole[n + 1] = F(e)
      /\ \A i \in 1 .. n : whole[i] = F(drawn[i])
  BY <1>1, <1>2, <1>3, <1>5, AppendProperties, LenProperties
<1> HIDE DEF whole
<1>7. whole = [i \in 1 .. n + 1 |-> whole[i]]
  BY <1>6, LenProperties
<1>8. ASSUME NEW i \in 1 .. n + 1 PROVE whole[i] = F(Append(drawn, e)[i])
  <2>1. i = n + 1 \/ i \in 1 .. n
    BY <1>1
  <2> QED
    BY <2>1, <1>1, <1>6
<1> QED
  BY <1>4, <1>7, <1>8 DEF whole, F

LEMMA PlainIsBare ==
  ASSUME NEW f PROVE Plain(f) = [b \in Buffers |-> Bare(f[b])]
  BY DEF Plain, Bare

LEMMA PlainDrawOne ==
  ASSUME NEW f \in Boards, NEW op \in Ops, NEW v \in Nat
  PROVE  Plain(DrawOne(f, op, v)) = DrawOne(Plain(f), op, 0)
<1> DEFINE b == op.target
           ink == Ink(op, v)
           bare == Ink(op, 0)
           after == DrawOne(f, op, v)
<1>1. b \in Buffers /\ ink \in Inks /\ bare = [ink EXCEPT !.from = 0] /\ f[b] \in Seq(Inks)
  <2>1. b \in Buffers /\ f[b] \in Seq(Inks)
    BY DEF Ops, Boards
  <2>2. ink \in Inks
    BY DEF Ops, Ink, Inks
  <2>3. bare = [ink EXCEPT !.from = 0]
    BY DEF Ink
  <2> QED
    BY <2>1, <2>2, <2>3
<1>2. Bare(Append(f[b], ink)) = Append(Bare(f[b]), bare)
  BY <1>1, BareAppend
<1>3. Bare(<<ink>>) = <<bare>>
  BY <1>1 DEF Bare
<1>4. \A c \in Buffers : after[c] = IF c # b THEN f[c]
                                    ELSE IF op.kind = "erase" THEN <<ink>> ELSE Append(f[b], ink)
  BY <1>1 DEF DrawOne, Boards
<1>5. DrawOne(Plain(f), op, 0) =
        [c \in Buffers |-> IF c # b THEN Bare(f[c])
                           ELSE IF op.kind = "erase" THEN <<bare>> ELSE Append(Bare(f[b]), bare)]
  BY <1>1, PlainIsBare DEF DrawOne
<1>6. Plain(after) = [c \in Buffers |-> Bare(after[c])]
  BY PlainIsBare
<1> HIDE DEF after, ink, bare, b
<1> QED
  BY <1>2, <1>3, <1>4, <1>5, <1>6 DEF after

LEMMA PlainDraw ==
  ASSUME NEW f \in Boards, NEW ops \in Seq(Ops), NEW v \in Nat
  PROVE  Plain(Draw(f, ops, v)) = Draw(Plain(f), ops, 0)
<1> DEFINE n == Len(ops)
<1>1. n \in Nat /\ \A k \in 1 .. n : ops[k] \in Ops
  BY LenProperties, ElementOfSeq
<1>2. PICK g : DrawAlong(g, f, ops, v, n) /\ Draw(f, ops, v) = g[n]
  BY <1>1, DrawIsWalk
<1>3. PICK h : DrawAlong(h, Plain(f), ops, 0, n) /\ Draw(Plain(f), ops, 0) = h[n]
  BY <1>1, DrawIsWalk
<1> HIDE DEF n
<1> DEFINE Bad == {k \in 0 .. n : ~(g[k] \in Boards /\ Plain(g[k]) = h[k])}
<1>4. SUFFICES ASSUME Bad # {} PROVE FALSE
  BY <1>1, <1>2, <1>3
<1>5. PICK k \in Bad : \A j \in Bad : k <= j
  <2>1. Bad \subseteq Nat
    OBVIOUS
  <2> HIDE DEF Bad
  <2> QED
    BY <1>4, <2>1, Least
<1>6. k \in 1 .. n /\ k - 1 \in 0 .. n /\ k - 1 \notin Bad
  BY <1>1, <1>2, <1>3, <1>5 DEF DrawAlong
<1>7. /\ g[k] = DrawOne(g[k - 1], ops[k], v) /\ g[k - 1] \in Boards /\ ops[k] \in Ops
      /\ h[k] = DrawOne(h[k - 1], ops[k], 0) /\ Plain(g[k - 1]) = h[k - 1]
  BY <1>1, <1>2, <1>3, <1>6 DEF DrawAlong
<1>8. g[k] \in Boards /\ Plain(g[k]) = h[k]
  BY <1>7, DrawOneTyped, PlainDrawOne
<1> QED
  BY <1>5, <1>8

LEMMA DrawUntouched ==
  ASSUME NEW f \in Boards, NEW ops, Len(ops) \in Nat, NEW v, NEW b \in Buffers,
         \A k \in 1 .. Len(ops) : ops[k].target # b
  PROVE  Draw(f, ops, v)[b] = f[b]
<1> DEFINE n == Len(ops)
<1>1. n \in Nat
  OBVIOUS
<1>2. PICK g : DrawAlong(g, f, ops, v, n) /\ Draw(f, ops, v) = g[n]
  BY <1>1, DrawIsWalk
<1> HIDE DEF n
<1> DEFINE Bad == {k \in 0 .. n : ~(DOMAIN g[k] = Buffers /\ g[k][b] = f[b])}
<1>3. SUFFICES ASSUME Bad # {} PROVE FALSE
  BY <1>1, <1>2
<1>4. PICK k \in Bad : \A j \in Bad : k <= j
  <2>1. Bad \subseteq Nat
    OBVIOUS
  <2> HIDE DEF Bad
  <2> QED
    BY <1>3, <2>1, Least
<1>5. k \in 1 .. n /\ k - 1 \in 0 .. n /\ k - 1 \notin Bad
  BY <1>1, <1>2, <1>4 DEF DrawAlong, Boards
<1>6. g[k] = DrawOne(g[k - 1], ops[k], v) /\ ops[k].target # b
  BY <1>1, <1>2, <1>5 DEF DrawAlong, n
<1>7. DOMAIN g[k] = Buffers /\ g[k][b] = f[b]
  BY <1>5, <1>6 DEF DrawOne
<1> QED
  BY <1>4, <1>7

\* The first k of a list of operations, inked.
InkedTo(ops, v, k) == [i \in 1 .. k |-> Ink(ops[i], v)]

LEMMA InkedToAppend ==
  ASSUME NEW ops, NEW v, NEW k \in Nat
  PROVE  Append(InkedTo(ops, v, k), Ink(ops[k + 1], v)) = InkedTo(ops, v, k + 1)
<1> DEFINE S == {Ink(ops[i], v) : i \in 1 .. k + 1}
           short == InkedTo(ops, v, k)
           e == Ink(ops[k + 1], v)
           long == Append(short, e)
<1>1. \A i \in 1 .. k + 1 : Ink(ops[i], v) \in S
  OBVIOUS
<1>2. e \in S
  BY <1>1
<1>3. short \in Seq(S) /\ Len(short) = k
  <2>1. \A i \in 1 .. k : Ink(ops[i], v) \in S
    BY <1>1
  <2> HIDE DEF S
  <2>2. [i \in 1 .. k |-> Ink(ops[i], v)] \in Seq(S)
    BY <2>1, IsASeq
  <2> QED
    BY <2>2, LenProperties DEF InkedTo
<1> HIDE DEF S
<1>4. /\ long \in Seq(S) /\ DOMAIN long = 1 .. k + 1 /\ long[k + 1] = e
      /\ \A i \in 1 .. k : long[i] = short[i]
  BY <1>2, <1>3, AppendProperties, LenProperties
<1>5. \A i \in 1 .. k : short[i] = Ink(ops[i], v)
  BY DEF InkedTo
<1> HIDE DEF long, short
<1>6. long = [i \in 1 .. k + 1 |-> long[i]]
  BY <1>4, LenProperties
<1>7. ASSUME NEW i \in 1 .. k + 1 PROVE long[i] = Ink(ops[i], v)
  <2>1. i = k + 1 \/ i \in 1 .. k
    OBVIOUS
  <2> QED
    BY <2>1, <1>4, <1>5
<1> QED
  BY <1>6, <1>7 DEF InkedTo, long, short

LEMMA InkedAppend ==
  ASSUME NEW cur \in Seq(Ops), NEW op \in Ops, NEW v
  PROVE  Inked(Append(cur, op), v) = Append(Inked(cur, v), Ink(op, v))
<1> DEFINE n == Len(cur)
           all == Append(cur, op)
<1>1. /\ n \in Nat /\ Len(all) = n + 1 /\ all[n + 1] = op
      /\ \A i \in 1 .. n : all[i] = cur[i]
  BY AppendProperties, LenProperties
<1> HIDE DEF all
<1>2. Append(InkedTo(all, v, n), Ink(all[n + 1], v)) = InkedTo(all, v, n + 1)
  BY <1>1, InkedToAppend
<1>3. InkedTo(all, v, n) = Inked(cur, v)
  BY <1>1 DEF InkedTo, Inked
<1>4. Inked(all, v) = InkedTo(all, v, n + 1)
  BY <1>1 DEF InkedTo, Inked
<1> QED
  BY <1>1, <1>2, <1>3, <1>4 DEF all

\* An erased framebuffer holds what was drawn since.
LEMMA DrawErased ==
  ASSUME NEW f \in Boards, NEW ops, Len(ops) \in Nat \ {0}, NEW v, NEW b \in Buffers,
         ops[1].kind = "erase",
         \A k \in 1 .. Len(ops) : ops[k].target = b /\ (k > 1 => ops[k].kind \notin Erases)
  PROVE  Draw(f, ops, v)[b] = Inked(ops, v)
<1> DEFINE n == Len(ops)
<1>1. n \in Nat /\ n # 0
  OBVIOUS
<1>2. PICK g : DrawAlong(g, f, ops, v, n) /\ Draw(f, ops, v) = g[n]
  BY <1>1, DrawIsWalk
<1>3. Inked(ops, v) = InkedTo(ops, v, n)
  BY DEF Inked, InkedTo
<1>4. \A k \in 1 .. n : ops[k].target = b /\ (k > 1 => ops[k].kind # "erase")
  BY DEF Erases
<1> HIDE DEF n
<1> DEFINE Bad == {k \in 0 .. n : ~(DOMAIN g[k] = Buffers
                                    /\ (k > 0 => g[k][b] = InkedTo(ops, v, k)))}
<1>5. SUFFICES ASSUME Bad # {} PROVE FALSE
  BY <1>1, <1>2, <1>3
<1>6. PICK k \in Bad : \A j \in Bad : k <= j
  <2>1. Bad \subseteq Nat
    OBVIOUS
  <2> HIDE DEF Bad
  <2> QED
    BY <1>5, <2>1, Least
<1>7. k \in 1 .. n /\ k - 1 \in 0 .. n /\ k - 1 \notin Bad
  BY <1>1, <1>2, <1>6 DEF DrawAlong, Boards
<1>8. g[k] = DrawOne(g[k - 1], ops[k], v)
  BY <1>1, <1>2, <1>7 DEF DrawAlong
<1>9. DOMAIN g[k] = Buffers /\ g[k][b] = IF ops[k].kind = "erase" THEN <<Ink(ops[k], v)>>
                                          ELSE Append(g[k - 1][b], Ink(ops[k], v))
  BY <1>4, <1>7, <1>8 DEF DrawOne
<1>10. CASE k = 1
  <2>1. InkedTo(ops, v, 1) = <<Ink(ops[1], v)>>
    BY DEF InkedTo
  <2> QED
    BY <1>6, <1>9, <1>10, <2>1
<1>11. CASE k # 1
  <2>1. k - 1 \in Nat /\ g[k - 1][b] = InkedTo(ops, v, k - 1)
        /\ ops[k].kind # "erase" /\ (k - 1) + 1 = k
    BY <1>1, <1>4, <1>7, <1>11
  <2>2. Append(InkedTo(ops, v, k - 1), Ink(ops[(k - 1) + 1], v)) = InkedTo(ops, v, (k - 1) + 1)
    BY <2>1, InkedToAppend
  <2> QED
    BY <1>6, <1>9, <2>1, <2>2
<1> QED
  BY <1>10, <1>11

\* But for the motion, an inked list is the same whether it is moved or not.
LEMMA StillIsStill ==
  ASSUME NEW drawn \in Seq(Inks)
  PROVE  Still(drawn) = drawn
<1>1. \A i \in DOMAIN drawn : drawn[i] \in Inks
  BY ElementOfSeq, LenProperties
<1>2. \A i \in DOMAIN drawn : [drawn[i] EXCEPT !.moved = FALSE] = drawn[i]
  <2>1. \A x \in Inks : [x EXCEPT !.moved = FALSE] = x
    BY DEF Inks
  <2> QED
    BY <1>1, <2>1
<1>3. drawn = [i \in DOMAIN drawn |-> drawn[i]]
  BY LenProperties
<1> QED
  BY <1>2, <1>3 DEF Still

LEMMA StillInked ==
  ASSUME NEW ops \in Seq(Ops), NEW v
  PROVE  Still(Inked([i \in DOMAIN ops |-> [ops[i] EXCEPT !.moved = TRUE]], v)) = Inked(ops, v)
<1> DEFINE n == Len(ops)
           away == [i \in DOMAIN ops |-> [ops[i] EXCEPT !.moved = TRUE]]
<1>1. n \in Nat /\ DOMAIN ops = 1 .. n /\ \A i \in 1 .. n : ops[i] \in Ops
  BY LenProperties, ElementOfSeq
<1>2. Len(away) = n
  BY <1>1
<1>3. \A x \in Ops : [Ink([x EXCEPT !.moved = TRUE], v) EXCEPT !.moved = FALSE] = Ink(x, v)
  <2> SUFFICES ASSUME NEW x \in Ops
               PROVE  [Ink([x EXCEPT !.moved = TRUE], v) EXCEPT !.moved = FALSE] = Ink(x, v)
    OBVIOUS
  <2> DEFINE y == [x EXCEPT !.moved = TRUE]
  <2>1. y.kind = x.kind /\ y.field = x.field /\ y.moved = TRUE /\ x.moved = FALSE
    BY DEF Ops
  <2> DEFINE yes == TRUE
             no == FALSE
  <2>2. Ink(y, v) = [kind |-> x.kind, field |-> x.field, moved |-> yes, from |-> v]
    BY <2>1 DEF Ink
  <2>3. Ink(x, v) = [kind |-> x.kind, field |-> x.field, moved |-> no, from |-> v]
    BY <2>1 DEF Ink
  <2> HIDE DEF y, yes, no
  <2>4. [Ink(y, v) EXCEPT !.moved = no] = Ink(x, v)
    BY <2>2, <2>3
  <2> QED
    BY <2>4, Zenon DEF y, no
<1>4. Inked(away, v) = [i \in 1 .. n |-> Ink([ops[i] EXCEPT !.moved = TRUE], v)]
  BY <1>1, <1>2 DEF Inked
<1> QED
  BY <1>1, <1>3, <1>4 DEF Still, Inked

-----------------------------------------------------------------------------
(* Queueing an operation keeps the picture's invariant.                      *)

LEMMA QueueRest ==
  ASSUME NEW r \in Renderers, NEW op \in Ops, NEW q, q = Queue(r, op)
  PROVE  /\ q.gpu = r.gpu /\ q.saved = r.saved /\ q.material = r.material
         /\ q.picture = r.picture /\ q.upload = r.upload /\ q.history = r.history
         /\ q.blend = r.blend /\ q.matched = r.matched /\ q.interpolate = r.interpolate
         /\ Len(r.queue) >= MaxOps => q.reported /\ q.queue = r.queue
         /\ ~(Len(r.queue) >= MaxOps) =>
              q.reported = r.reported /\ q.queue = Append(r.queue, op)
  BY DEF Queue, Renderers

\* What an operation leaves in the geometry it belongs to.
Remembered(r, op) == IF op.kind \in Erases THEN <<>> ELSE r.geometry[op.target]

LEMMA QueueGeometry ==
  ASSUME NEW r \in Renderers, NEW op \in Ops, NEW q, q = Queue(r, op)
  PROVE  \/ /\ q.counter = r.counter /\ q.revision = r.revision /\ q.geometry = r.geometry
            /\ Len(r.queue) >= MaxOps \/ ~r.interpolate
         \/ /\ ~(Len(r.queue) >= MaxOps) /\ r.interpolate
            /\ q.counter = r.counter + 1 /\ q.revision[op.target] = r.counter + 1
            /\ \A c \in Buffers \ {op.target} :
                 q.revision[c] = r.revision[c] /\ q.geometry[c] = r.geometry[c]
            /\ q.geometry[op.target] =
                 IF Len(Remembered(r, op)) < GeometryCap THEN Append(Remembered(r, op), op)
                 ELSE Remembered(r, op)
<1>1. op.target \in Buffers
  BY DEF Ops
<1>2. CASE Len(r.queue) >= MaxOps \/ ~r.interpolate
  BY <1>2 DEF Queue, Renderers
<1>3. CASE ~(Len(r.queue) >= MaxOps) /\ r.interpolate
  <2> DEFINE b == op.target
             kept == Remembered(r, op)
             grown == IF Len(kept) < GeometryCap THEN Append(kept, op) ELSE kept
  <2>1. q = [r EXCEPT !.queue = Append(@, op), !.counter = @ + 1,
                      !.revision[b] = r.counter + 1, !.geometry[b] = grown]
    BY <1>3 DEF Queue, Remembered
  <2> HIDE DEF grown, kept
  <2>2. q.counter = r.counter + 1 /\ q.revision = [r.revision EXCEPT ![b] = r.counter + 1]
        /\ q.geometry = [r.geometry EXCEPT ![b] = grown]
    BY <2>1 DEF Renderers
  <2>3. DOMAIN r.revision = Buffers /\ DOMAIN r.geometry = Buffers
    BY DEF Renderers
  <2>4. q.revision[b] = r.counter + 1 /\ q.geometry[b] = grown
        /\ \A c \in Buffers \ {b} : q.revision[c] = r.revision[c] /\ q.geometry[c] = r.geometry[c]
    BY <1>1, <2>2, <2>3
  <2> QED
    BY <1>3, <2>2, <2>4 DEF grown, kept
<1> QED
  BY <1>2, <1>3

LEMMA RememberedTyped ==
  ASSUME NEW r \in Renderers, OwnTarget(r), NEW op \in Ops
  PROVE  /\ Remembered(r, op) \in Seq(Ops)
         /\ OnlyFirst(Remembered(r, op), op.target)
         /\ OnlyFirst(Append(Remembered(r, op), op), op.target)
<1> DEFINE b == op.target
           kept == Remembered(r, op)
           n == Len(kept)
<1>1. b \in Buffers /\ r.geometry[b] \in Seq(Ops) /\ OnlyFirst(r.geometry[b], b)
  BY DEF Ops, Renderers, OwnTarget
<1>2. kept \in Seq(Ops)
  BY <1>1, EmptySeq DEF Remembered
<1>3. OnlyFirst(kept, b)
  <2>1. DOMAIN <<>> = {}
    OBVIOUS
  <2> QED
    BY <1>1, <2>1 DEF Remembered, OnlyFirst
<1>4. op.kind \in Erases => n = 0
  BY EmptySeq DEF Remembered
<1>5. /\ n \in Nat /\ DOMAIN kept = 1 .. n /\ DOMAIN Append(kept, op) = 1 .. n + 1
      /\ Append(kept, op)[n + 1] = op /\ \A i \in 1 .. n : Append(kept, op)[i] = kept[i]
  BY <1>2, AppendProperties, LenProperties
<1> HIDE DEF kept, n
<1>6. ASSUME NEW i \in 1 .. n + 1
      PROVE  Append(kept, op)[i].target = b /\ (i > 1 => Append(kept, op)[i].kind \notin Erases)
  <2>1. CASE i = n + 1
    BY <1>4, <1>5, <2>1
  <2>2. CASE i # n + 1
    <3>1. i \in 1 .. n
      BY <1>5, <2>2
    <3> QED
      BY <1>3, <1>5, <3>1 DEF OnlyFirst
  <2> QED
    BY <2>1, <2>2
<1>7. OnlyFirst(Append(kept, op), b)
  BY <1>5, <1>6 DEF OnlyFirst
<1> QED
  BY <1>2, <1>3, <1>7 DEF kept

LEMMA QueueSound ==
  ASSUME NEW r, Sound(r), NEW op \in Ops
  PROVE  Sound(Queue(r, op))
<1> DEFINE q == Queue(r, op)
           b == op.target
<1>1. r \in Renderers /\ q \in Renderers /\ b \in Buffers
  BY QueueTyped DEF Sound, Ops
<1>2. /\ q.history = r.history /\ q.blend = r.blend /\ q.matched = r.matched
  BY <1>1, QueueRest
<1>3. CASE q.counter = r.counter /\ q.revision = r.revision /\ q.geometry = r.geometry
  BY <1>1, <1>2, <1>3 DEF Sound, Numbered, OwnTarget, BlendIsGeometry
<1>4. CASE /\ q.counter = r.counter + 1 /\ q.revision[b] = r.counter + 1
           /\ \A c \in Buffers \ {b} :
                q.revision[c] = r.revision[c] /\ q.geometry[c] = r.geometry[c]
           /\ q.geometry[b] =
                IF Len(Remembered(r, op)) < GeometryCap THEN Append(Remembered(r, op), op)
                ELSE Remembered(r, op)
  <2>1. OnlyFirst(q.geometry[b], b)
    BY <1>1, <1>4, RememberedTyped DEF Sound
  <2>2. OwnTarget(q)
    BY <1>4, <2>1 DEF Sound, OwnTarget
  <2>3. /\ r.counter \in Nat /\ r.history.revision \in Nat /\ r.history.revision <= r.counter
        /\ \A c \in Buffers : r.revision[c] \in Nat /\ r.revision[c] <= r.counter
    BY <1>1 DEF Sound, Numbered, Renderers
  <2>4. \A c \in Buffers : q.revision[c] = IF c = b THEN r.counter + 1 ELSE r.revision[c]
    BY <1>4
  <2>5. Numbered(q)
    <3>1. \A c \in Buffers : q.revision[c] <= q.counter
      BY <1>4, <2>3, <2>4
    <3>2. q.history.revision <= q.counter
      BY <1>2, <1>4, <2>3
    <3>3. \A c \in Buffers : q.geometry[c] # <<>> => q.revision[c] > 0
      BY <1>4, <2>3, <2>4 DEF Sound, Numbered
    <3>4. q.revision[0] # q.revision[1]
      BY <1>1, <2>3, <2>4 DEF Buffers
    <3> QED
      BY <3>1, <3>2, <3>3, <3>4 DEF Numbered
  <2>6. BlendIsGeometry(q)
    <3>1. \A c \in Buffers : q.revision[c] = q.history.revision => c # b
      BY <1>2, <2>3, <2>4
    <3> QED
      BY <1>2, <1>4, <2>4, <3>1 DEF Sound, BlendIsGeometry
  <2> QED
    BY <1>1, <2>2, <2>5, <2>6 DEF Sound
<1> HIDE DEF q
<1>5. \/ q.counter = r.counter /\ q.revision = r.revision /\ q.geometry = r.geometry
      \/ /\ q.counter = r.counter + 1 /\ q.revision[b] = r.counter + 1
         /\ \A c \in Buffers \ {b} :
              q.revision[c] = r.revision[c] /\ q.geometry[c] = r.geometry[c]
         /\ q.geometry[b] =
              IF Len(Remembered(r, op)) < GeometryCap THEN Append(Remembered(r, op), op)
              ELSE Remembered(r, op)
  BY <1>1, QueueGeometry DEF q
<1> QED
  BY <1>3, <1>4, <1>5 DEF q

\* The lists of buffers an operation is added to.
LEMMA TouchedAppend ==
  ASSUME NEW ops \in Seq(Ops), NEW op \in Ops
  PROVE  /\ Touched(ops) \subseteq Touched(Append(ops, op))
         /\ op.target \in Touched(Append(ops, op))
         /\ Cleared(Append(ops, op)) \subseteq
              Cleared(ops) \cup (IF op.kind \in Erases THEN {op.target} ELSE {})
<1> DEFINE n == Len(ops)
           all == Append(ops, op)
<1>1. /\ n \in Nat /\ DOMAIN ops = 1 .. n /\ DOMAIN all = 1 .. n + 1 /\ all[n + 1] = op
      /\ \A i \in 1 .. n : all[i] = ops[i]
  BY AppendProperties, LenProperties
<1> HIDE DEF all, n
<1>2. \A i \in 1 .. n + 1 : i = n + 1 \/ i \in 1 .. n
  BY <1>1
<1>3. \A i \in 1 .. n : i \in 1 .. n + 1
  BY <1>1
<1>4. Touched(ops) \subseteq Touched(all)
  BY <1>1, <1>3 DEF Touched
<1>5. op.target \in Touched(all)
  <2>1. n + 1 \in 1 .. n + 1
    BY <1>1
  <2> QED
    BY <1>1, <2>1 DEF Touched
<1>6. Cleared(all) \subseteq Cleared(ops) \cup (IF op.kind \in Erases THEN {op.target} ELSE {})
  <2>1. SUFFICES ASSUME NEW i \in 1 .. n + 1, all[i].kind \in Erases
                 PROVE  all[i].target \in
                          Cleared(ops) \cup (IF op.kind \in Erases THEN {op.target} ELSE {})
    BY <1>1 DEF Cleared
  <2>2. CASE i = n + 1
    BY <1>1, <2>1, <2>2
  <2>3. CASE i \in 1 .. n
    BY <1>1, <2>1, <2>3 DEF Cleared
  <2> QED
    BY <1>2, <2>2, <2>3
<1> QED
  BY <1>4, <1>5, <1>6 DEF all

LEMMA QueueDrawn ==
  ASSUME NEW r, Sound(r), NEW op \in Ops, GeometryDrawn(r)
  PROVE  GeometryDrawn(Queue(r, op))
<1> DEFINE q == Queue(r, op)
<1>1. r \in Renderers /\ r.queue \in Seq(Ops)
  BY DEF Sound, Renderers
<1>2. /\ q.gpu = r.gpu /\ q.material = r.material /\ q.interpolate = r.interpolate
      /\ Len(r.queue) >= MaxOps => q.queue = r.queue
      /\ ~(Len(r.queue) >= MaxOps) => q.queue = Append(r.queue, op)
  BY <1>1, QueueRest
<1>3. Touched(r.queue) \subseteq Touched(q.queue)
  BY <1>1, <1>2, TouchedAppend
<1>4. ASSUME NEW c \in Buffers, c \notin Touched(q.queue), q.interpolate
      PROVE  q.geometry[c] = r.geometry[c]
  <2>1. CASE Len(r.queue) >= MaxOps
    BY <1>1, <2>1, QueueGeometry
  <2>2. CASE ~(Len(r.queue) >= MaxOps)
    <3>1. c # op.target
      BY <1>1, <1>2, <1>4, <2>2, TouchedAppend
    <3> QED
      BY <1>1, <1>4, <3>1, QueueGeometry
  <2> QED
    BY <2>1, <2>2
<1> HIDE DEF q
<1> QED
  BY <1>2, <1>3, <1>4 DEF GeometryDrawn, q

LEMMA QueueQueued ==
  ASSUME NEW r, Sound(r), NEW op \in Ops, GeometryQueued(r)
  PROVE  GeometryQueued(Queue(r, op))
<1> DEFINE q == Queue(r, op)
           b == op.target
<1>1. r \in Renderers /\ r.queue \in Seq(Ops) /\ r.gpu \in Boards /\ b \in Buffers
  BY DEF Sound, Renderers, Ops
<1>2. /\ q.gpu = r.gpu /\ q.interpolate = r.interpolate
      /\ Len(r.queue) >= MaxOps => q.queue = r.queue
      /\ ~(Len(r.queue) >= MaxOps) => q.queue = Append(r.queue, op)
  BY <1>1, QueueRest
<1> SUFFICES ASSUME q.interpolate, NEW c \in Buffers, c \in Cleared(q.queue),
                    Whole(q.geometry[c]), NEW v \in Nat
             PROVE  Draw(q.gpu, q.queue, v)[c] = Inked(q.geometry[c], v)
  BY DEF GeometryQueued
<1>3. CASE Len(r.queue) >= MaxOps
  <2>1. q.geometry = r.geometry
    BY <1>1, <1>3, QueueGeometry
  <2> HIDE DEF q
  <2> QED
    BY <1>2, <1>3, <2>1 DEF GeometryQueued
<1>4. CASE ~(Len(r.queue) >= MaxOps)
  <2> DEFINE before == Draw(r.gpu, r.queue, v)
             kept == Remembered(r, op)
  <2>0. q.gpu = r.gpu /\ q.queue = Append(r.queue, op)
    BY <1>2, <1>4
  <2>1. Draw(q.gpu, q.queue, v) = DrawOne(before, op, v) /\ before \in Boards
    <3>1. Draw(r.gpu, Append(r.queue, op), v) = DrawOne(before, op, v)
      BY <1>1, DrawAppend
    <3>2. before \in Boards
      BY <1>1, DrawTyped
    <3> QED
      BY <2>0, <3>1, <3>2
  <2>2. /\ \A d \in Buffers \ {b} : q.geometry[d] = r.geometry[d]
        /\ q.geometry[b] = IF Len(kept) < GeometryCap THEN Append(kept, op) ELSE kept
    BY <1>1, <1>2, <1>4, QueueGeometry
  <2>3. Cleared(q.queue) \subseteq
              Cleared(r.queue) \cup (IF op.kind \in Erases THEN {op.target} ELSE {})
    BY <1>1, <1>2, <1>4, TouchedAppend
  <2>4. kept \in Seq(Ops)
    BY <1>1, RememberedTyped DEF Sound
  <2>5. CASE c # b
    <3>1. DrawOne(before, op, v)[c] = before[c]
      BY <2>1, <2>5 DEF DrawOne, Boards
    <3>2. c \in Cleared(r.queue) /\ Whole(r.geometry[c]) /\ q.geometry[c] = r.geometry[c]
      BY <2>2, <2>3, <2>5
    <3>3. before[c] = Inked(r.geometry[c], v)
      BY <1>2, <3>2 DEF GeometryQueued
    <3> QED
      BY <2>1, <3>1, <3>2, <3>3
  <2>6. CASE c = b
    <3>1. DrawOne(before, op, v)[b] = IF op.kind = "erase" THEN <<Ink(op, v)>>
                                      ELSE Append(before[b], Ink(op, v))
      BY <1>1, <2>1 DEF DrawOne, Boards
    <3>2. Len(kept) < GeometryCap /\ q.geometry[b] = Append(kept, op)
      BY <2>2, <2>6 DEF Whole
    <3>3. Inked(Append(kept, op), v) = Append(Inked(kept, v), Ink(op, v))
      BY <2>4, InkedAppend
    <3>4. Len(kept) \in Nat /\ Append(kept, op)[Len(kept) + 1] = op
          /\ \A i \in 1 .. Len(kept) : Append(kept, op)[i] = kept[i]
      BY <2>4, AppendProperties, LenProperties
    <3>5. CASE op.kind \in Erases
      <4>1. kept = <<>> /\ Len(kept) = 0
        BY <3>5, EmptySeq DEF Remembered
      <4>2. Append(kept, op)[1] = op
        BY <3>4, <4>1
      <4>3. op.kind = "erase"
        BY <2>6, <3>2, <4>2 DEF Whole
      <4>4. Append(Inked(kept, v), Ink(op, v)) = <<Ink(op, v)>>
        <5>1. Inked(kept, v) = <<>>
          BY <4>1 DEF Inked
        <5> QED
          BY <5>1
      <4> QED
        BY <2>1, <2>6, <3>1, <3>2, <3>3, <4>3, <4>4
    <3>6. CASE op.kind \notin Erases
      <4>1. c \in Cleared(r.queue) /\ op.kind # "erase" /\ kept = r.geometry[b]
        BY <2>3, <3>6 DEF Erases, Remembered
      <4>2. kept # <<>>
        <5>1. ASSUME kept = <<>> PROVE FALSE
          <6>1. Append(kept, op)[1] = op
            BY <3>4, <5>1, EmptySeq
          <6> QED
            BY <2>6, <3>2, <3>6, <6>1 DEF Whole, Erases
        <5> QED
          BY <5>1
      <4>3. kept[1] = Append(kept, op)[1]
        <5>1. Len(kept) >= 1
          BY <2>4, <3>4, <4>2, EmptySeq
        <5> QED
          BY <3>4, <5>1
      <4>4. Whole(kept)
        BY <2>6, <3>2, <4>2, <4>3 DEF Whole
      <4>5. before[b] = Inked(kept, v)
        BY <1>2, <2>6, <4>1, <4>4 DEF GeometryQueued
      <4> QED
        BY <2>1, <2>6, <3>1, <3>2, <3>3, <4>1, <4>5
    <3> QED
      BY <3>5, <3>6
  <2> QED
    BY <2>5, <2>6
<1> QED
  BY <1>3, <1>4

LEMMA QueueCanonical ==
  ASSUME NEW r, Sound(r), NEW op \in Ops, NEW t, Canonical(r, t)
  PROVE  Canonical(Queue(r, op), DrawOne(t, op, 0))
<1> DEFINE q == Queue(r, op)
<1>1. r \in Renderers /\ r.queue \in Seq(Ops)
  BY DEF Sound, Renderers
<1>2. /\ q.gpu = r.gpu
      /\ Len(r.queue) >= MaxOps => q.reported
      /\ ~(Len(r.queue) >= MaxOps) => q.reported = r.reported /\ q.queue = Append(r.queue, op)
  BY <1>1, QueueRest
<1>3. Draw(Plain(r.gpu), Append(r.queue, op), 0) = DrawOne(Draw(Plain(r.gpu), r.queue, 0), op, 0)
  BY <1>1, DrawAppend
<1> HIDE DEF q
<1> QED
  BY <1>2, <1>3 DEF Canonical, q

LEMMA QueueReplayable ==
  ASSUME NEW r \in Renderers, NEW op \in Ops, Replayable(r)
  PROVE  Replayable(Queue(r, op))
<1> DEFINE q == Queue(r, op)
<1>1. /\ q.gpu = r.gpu /\ q.saved = r.saved /\ q.picture = r.picture /\ q.upload = r.upload
      /\ q.blend = r.blend /\ q.matched = r.matched
  BY QueueRest
<1> HIDE DEF q
<1> QED
  BY <1>1 DEF Replayable, Material, q

-----------------------------------------------------------------------------
(* So do the other operations of the renderer.                               *)

LEMMA SubmitDrawn ==
  ASSUME NEW r, Sound(r), NEW s \in Machines, r.interpolate,
         GeometryDrawn(r), GeometryQueued(r)
  PROVE  GeometryDrawn(Submit(r, s))
<1> DEFINE q == Submit(r, s)
<1>1. /\ r \in Renderers /\ r.queue \in Seq(Ops) /\ r.gpu \in Boards /\ s.vram \in Nat
      /\ DOMAIN r.queue = 1 .. Len(r.queue) /\ Len(r.queue) \in Nat
  BY LenProperties DEF Sound, Renderers, Machines
<1>2. /\ q.queue = <<>> /\ q.gpu = Draw(r.gpu, r.queue, s.vram)
      /\ q.geometry = r.geometry /\ q.interpolate = r.interpolate
      /\ q.material = [b \in Buffers |->
               IF r.interpolate /\ b \in Touched(r.queue)
               THEN [vram |-> s.vram, valid |-> MaterialValid(Cleared(r.queue), b)]
               ELSE r.material[b]]
  BY <1>1 DEF Submit, Renderers
<1> HIDE DEF q
<1> SUFFICES ASSUME NEW b \in Buffers, q.material[b].valid, Whole(r.geometry[b])
             PROVE  q.gpu[b] = Inked(r.geometry[b], q.material[b].vram)
  BY <1>2 DEF GeometryDrawn, q
<1>3. CASE b \in Touched(r.queue)
  <2>1. q.material[b] = [vram |-> s.vram, valid |-> MaterialValid(Cleared(r.queue), b)]
    BY <1>2, <1>3
  <2> DEFINE u == MaterialValid(Cleared(r.queue), b)
  <2>2. b \in Cleared(r.queue) /\ q.material[b].vram = s.vram
    <3> HIDE DEF u
    <3>3. ASSUME NEW x, q.material[b] = [vram |-> s.vram, valid |-> x]
          PROVE  q.material[b].valid = x /\ q.material[b].vram = s.vram
      BY <3>3
    <3>1. q.material[b].valid = u /\ q.material[b].vram = s.vram
      BY <2>1, <3>3, Zenon DEF u
    <3>2. u
      BY <3>1, Zenon
    <3> QED
      BY <3>1, <3>2 DEF u, MaterialValid
  <2> QED
    BY <1>1, <1>2, <2>2 DEF GeometryQueued
<1>4. CASE b \notin Touched(r.queue)
  <2>1. q.material[b] = r.material[b]
    BY <1>2, <1>4
  <2>2. r.gpu[b] = Inked(r.geometry[b], r.material[b].vram)
    BY <1>4, <2>1 DEF GeometryDrawn
  <2>3. \A k \in 1 .. Len(r.queue) : r.queue[k].target # b
    BY <1>1, <1>4 DEF Touched
  <2>4. q.gpu[b] = r.gpu[b]
    BY <1>1, <1>2, <2>3, DrawUntouched
  <2> QED
    BY <2>1, <2>2, <2>4
<1> QED
  BY <1>3, <1>4

LEMMA SubmitRest ==
  ASSUME NEW r, Sound(r), NEW s \in Machines
  PROVE  LET q == Submit(r, s) IN
         /\ Sound(q) /\ q.queue = <<>> /\ q.interpolate = r.interpolate
         /\ GeometryQueued(q)
         /\ \A t : Canonical(r, t) => Canonical(q, t)
<1> DEFINE q == Submit(r, s)
<1>1. r \in Renderers /\ q \in Renderers /\ r.queue \in Seq(Ops) /\ r.gpu \in Boards
      /\ s.vram \in Nat
  BY SubmitTyped DEF Sound, Renderers, Machines
<1>2. /\ q.queue = <<>> /\ q.interpolate = r.interpolate
      /\ q.gpu = Draw(r.gpu, r.queue, s.vram) /\ q.reported = r.reported
      /\ q.geometry = r.geometry /\ q.revision = r.revision /\ q.counter = r.counter
      /\ q.history = r.history /\ q.blend = r.blend /\ q.matched = r.matched
  BY <1>1 DEF Submit, Renderers
<1> HIDE DEF q
<1>3. Sound(q)
  BY <1>1, <1>2 DEF Sound, Numbered, OwnTarget, BlendIsGeometry
<1>4. GeometryQueued(q)
  BY <1>2 DEF GeometryQueued, Cleared
<1>5. ASSUME NEW t, Canonical(r, t) PROVE Canonical(q, t)
  <2>1. Plain(q.gpu) = Draw(Plain(r.gpu), r.queue, 0)
    BY <1>1, <1>2, PlainDraw
  <2>2. Draw(Plain(q.gpu), q.queue, 0) = Plain(q.gpu)
    BY <1>2, DrawNothing
  <2> QED
    BY <1>2, <1>5, <2>1, <2>2 DEF Canonical
<1> QED
  BY <1>2, <1>3, <1>4, <1>5 DEF q

LEMMA SaveRest ==
  ASSUME NEW r, Sound(r)
  PROVE  LET q == Save(r) IN
         /\ Sound(q) /\ q.queue = r.queue /\ q.interpolate = r.interpolate /\ q.saved = q.gpu
         /\ GeometryQueued(r) => GeometryQueued(q)
         /\ GeometryDrawn(r) => GeometryDrawn(q)
         /\ \A t : Canonical(r, t) => Canonical(q, t)
<1> DEFINE q == Save(r)
<1>1. r \in Renderers /\ q \in Renderers
  BY SaveTyped DEF Sound
<1>2. /\ q.queue = r.queue /\ q.interpolate = r.interpolate /\ q.saved = r.gpu
      /\ q.gpu = r.gpu /\ q.reported = r.reported /\ q.material = r.material
      /\ q.geometry = r.geometry /\ q.revision = r.revision /\ q.counter = r.counter
      /\ q.history = r.history /\ q.blend = r.blend /\ q.matched = r.matched
  BY <1>1 DEF Save, Renderers
<1> HIDE DEF q
<1>3. Sound(q)
  BY <1>1, <1>2 DEF Sound, Numbered, OwnTarget, BlendIsGeometry
<1>4. /\ GeometryQueued(r) => GeometryQueued(q)
      /\ GeometryDrawn(r) => GeometryDrawn(q)
  BY <1>2 DEF GeometryQueued, GeometryDrawn
<1>5. \A t : Canonical(r, t) => Canonical(q, t)
  BY <1>2 DEF Canonical
<1> QED
  BY <1>2, <1>3, <1>4, <1>5 DEF q

LEMMA PairRest ==
  ASSUME NEW r, Sound(r), NEW s \in Machines, NEW m \in BOOLEAN
  PROVE  LET q == Pair(r, s, m) IN
         /\ Sound(q) /\ q.queue = r.queue /\ q.interpolate = r.interpolate
         /\ GeometryQueued(r) => GeometryQueued(q)
         /\ GeometryDrawn(r) => GeometryDrawn(q)
         /\ \A t : Canonical(r, t) => Canonical(q, t)
         /\ (r.interpolate /\ r.queue = <<>> /\ r.saved = r.gpu /\ GeometryDrawn(r))
              => Replayable(q)
<1> DEFINE q == Pair(r, s, m)
           b == 1 - s.draw
           renew == r.revision[b] # r.history.revision \/ ~Safe(r, b) \/ ~r.history.valid
           paired == r.interpolate /\ Safe(r, b) /\ r.history.valid
<1>1. r \in Renderers /\ q \in Renderers /\ b \in Buffers
  BY PairTyped DEF Sound, Machines, Buffers
<1>2. /\ q.queue = r.queue /\ q.interpolate = r.interpolate /\ q.saved = r.saved
      /\ q.gpu = r.gpu /\ q.reported = r.reported /\ q.material = r.material
      /\ q.geometry = r.geometry /\ q.revision = r.revision /\ q.counter = r.counter
  <2>1. PICK picture, matched, blend, history :
          q = [r EXCEPT !.picture = picture, !.matched = matched, !.blend = blend,
                        !.history = history]
    BY DEF Pair
  <2> HIDE DEF q
  <2> QED
    BY <1>1, <2>1 DEF Renderers
<1>3. /\ q.picture.vram = r.material[b].vram /\ q.picture.fresh
      /\ q.history.revision = r.revision[b]
  BY <1>1 DEF Pair, Renderers
<1>4. q.history.valid <=> Safe(r, b)
  <2>1. ASSUME NEW x, q.history = [revision |-> r.revision[b], valid |-> x]
        PROVE  q.history.valid = x
    BY <2>1
  <2>2. q.history = [revision |-> r.revision[b], valid |-> Safe(r, b)]
    BY <1>1 DEF Pair, Renderers
  <2> QED
    BY <2>1, <2>2, Zenon
<1>5. /\ renew => q.blend = IF paired THEN r.geometry[b] ELSE <<>>
      /\ ~renew => q.blend = r.blend
  <2> DEFINE blend == IF ~renew THEN r.blend ELSE IF paired THEN r.geometry[b] ELSE <<>>
             matched == IF renew THEN paired /\ m ELSE r.matched
             picture == [vram |-> r.material[b].vram, fresh |-> TRUE]
             history == [revision |-> r.revision[b], valid |-> Safe(r, b)]
  <2>1. q = [r EXCEPT !.picture = picture, !.matched = matched, !.blend = blend,
                      !.history = history]
    BY DEF Pair
  <2> HIDE DEF q, blend, matched, picture, history
  <2>2. q.blend = blend
    BY <1>1, <2>1 DEF Renderers
  <2> HIDE DEF renew, paired
  <2> QED
    BY <2>2 DEF blend
<1>6. /\ renew => (q.matched => paired)
      /\ ~renew => (q.matched <=> r.matched)
  <2> DEFINE safe == Safe(r, b)
  <2>1. q.matched = IF renew THEN paired /\ m ELSE r.matched
    BY <1>1 DEF Pair, Renderers
  <2> QED
    BY <2>1, Zenon
<1> HIDE DEF q, b
\* The blend of a pair that may be redrawn is the displayed buffer's geometry.
<1>7. q.matched /\ Safe(r, b) => q.blend = r.geometry[b]
  BY <1>1, <1>5, <1>6 DEF Sound, BlendIsGeometry
<1>8. q.matched => Safe(r, b)
  BY <1>6
<1>9. ASSUME NEW c \in Buffers, Safe(r, b), r.revision[c] = r.revision[b] PROVE c = b
  <2>1. r.geometry[b] # <<>>
    BY <1>9 DEF Safe
  <2>2. r.revision[b] > 0 /\ r.revision[b] \in Nat
    BY <1>1, <2>1 DEF Sound, Numbered, Renderers
  <2> QED
    BY <1>1, <1>9, <2>2 DEF Sound, Numbered, Buffers
<1>10. Sound(q)
  <2>1. Numbered(q)
    BY <1>1, <1>2, <1>3 DEF Sound, Numbered
  <2>2. OwnTarget(q)
    BY <1>2 DEF Sound, OwnTarget
  <2>3. BlendIsGeometry(q)
    BY <1>2, <1>3, <1>4, <1>7, <1>9 DEF BlendIsGeometry
  <2> QED
    BY <1>1, <2>1, <2>2, <2>3 DEF Sound
<1>11. /\ GeometryQueued(r) => GeometryQueued(q)
       /\ GeometryDrawn(r) => GeometryDrawn(q)
  BY <1>2 DEF GeometryQueued, GeometryDrawn
<1>12. \A t : Canonical(r, t) => Canonical(q, t)
  BY <1>2 DEF Canonical
<1>13. ASSUME r.interpolate, r.queue = <<>>, r.saved = r.gpu, GeometryDrawn(r)
       PROVE  Replayable(q)
  <2>1. SUFFICES ASSUME q.matched
                 PROVE  /\ q.blend # <<>> /\ q.blend[1].kind = "erase" /\ OnlyFirst(q.blend, b)
                        /\ q.gpu[b] = Inked(q.blend, Material(q))
    BY <1>1, <1>2, <1>13 DEF Replayable
  <2>2. Safe(r, b) /\ q.blend = r.geometry[b]
    BY <1>7, <1>8, <2>1
  <2>3. Whole(r.geometry[b]) /\ r.material[b].valid
    BY <2>2 DEF Safe, Whole
  <2>4. OnlyFirst(r.geometry[b], b)
    BY <1>1 DEF Sound, OwnTarget
  <2>5. b \notin Touched(r.queue)
    BY <1>13 DEF Touched
  <2>6. r.gpu[b] = Inked(r.geometry[b], r.material[b].vram)
    BY <1>1, <1>13, <2>3, <2>5 DEF GeometryDrawn
  <2>7. Material(q) = r.material[b].vram
    BY <1>3 DEF Material
  <2> QED
    BY <1>2, <2>2, <2>3, <2>4, <2>6, <2>7 DEF Whole
<1> QED
  BY <1>2, <1>10, <1>11, <1>12, <1>13 DEF q

LEMMA EnableRest ==
  ASSUME NEW r, Sound(r)
  PROVE  LET q == Enable(r) IN
         /\ Sound(q) /\ GeometryQueued(q) /\ GeometryDrawn(q)
         /\ \A t : Canonical(r, t) => Canonical(q, t)
<1> DEFINE q == Enable(r)
<1>1. r \in Renderers /\ q \in Renderers
  BY EnableTyped DEF Sound
<1>2. /\ q.queue = r.queue /\ q.gpu = r.gpu /\ q.reported = r.reported
      /\ q.geometry = [b \in Buffers |-> <<>>] /\ q.revision = r.revision
      /\ q.counter = r.counter /\ q.history.revision = 0 /\ ~q.history.valid
  BY <1>1 DEF Enable, Renderers
<1> HIDE DEF q
<1>3. \A b \in Buffers : q.geometry[b] = <<>> /\ ~Whole(q.geometry[b])
  BY <1>2 DEF Whole
<1>4. Sound(q)
  <2>1. r.counter \in Nat /\ 0 <= r.counter
    BY <1>1 DEF Renderers
  <2>2. Numbered(q)
    BY <1>2, <1>3, <2>1 DEF Sound, Numbered
  <2>3. OwnTarget(q)
    BY <1>3 DEF OwnTarget, OnlyFirst
  <2>4. BlendIsGeometry(q)
    BY <1>2 DEF BlendIsGeometry
  <2> QED
    BY <1>1, <2>2, <2>3, <2>4 DEF Sound
<1>5. GeometryQueued(q) /\ GeometryDrawn(q)
  BY <1>3 DEF GeometryQueued, GeometryDrawn
<1>6. \A t : Canonical(r, t) => Canonical(q, t)
  BY <1>2 DEF Canonical
<1> QED
  BY <1>4, <1>5, <1>6 DEF q

LEMMA DisableRest ==
  ASSUME NEW r, Sound(r)
  PROVE  LET q == Disable(r) IN
         /\ Sound(q) /\ GeometryQueued(q) /\ GeometryDrawn(q)
         /\ \A t : Canonical(r, t) => Canonical(q, t)
<1> DEFINE q == Disable(r)
<1>1. r \in Renderers /\ q \in Renderers /\ ~q.interpolate
  BY DisableTyped DEF Sound
<1>2. /\ q.queue = r.queue /\ q.gpu = r.gpu /\ q.reported = r.reported
      /\ q.geometry = r.geometry /\ q.revision = r.revision
      /\ q.counter = r.counter /\ q.history.revision = r.history.revision
      /\ ~q.history.valid
  BY <1>1 DEF Disable, Renderers
<1> HIDE DEF q
<1>3. Sound(q)
  BY <1>1, <1>2 DEF Sound, Numbered, OwnTarget, BlendIsGeometry
<1>4. GeometryQueued(q) /\ GeometryDrawn(q)
  BY <1>1 DEF GeometryQueued, GeometryDrawn
<1>5. \A t : Canonical(r, t) => Canonical(q, t)
  BY <1>2 DEF Canonical
<1> QED
  BY <1>3, <1>4, <1>5 DEF q

\* A replay of a pair that may be replayed leaves the framebuffers as they were.
LEMMA ReplayRest ==
  ASSUME NEW r, Sound(r), NEW between \in BOOLEAN
  PROVE  LET q == Replay(r, between) IN
         /\ Sound(q) /\ q.interpolate = r.interpolate
         /\ Replayable(r) => /\ Replayable(q)
                             /\ GeometryQueued(r) => GeometryQueued(q)
                             /\ GeometryDrawn(r) => GeometryDrawn(q)
                             /\ \A t : Canonical(r, t) => Canonical(q, t)
<1> DEFINE q == Replay(r, between)
<1>1. /\ r \in Renderers /\ q \in Renderers /\ q.interpolate = r.interpolate
      /\ q = [r EXCEPT !.upload = Material(r), !.picture.fresh = FALSE, !.gpu = r.saved]
  BY ReplayTyped DEF Sound
<1> HIDE DEF q
<1>2. /\ q.queue = r.queue /\ q.gpu = r.saved /\ q.saved = r.saved /\ q.reported = r.reported
      /\ q.geometry = r.geometry /\ q.revision = r.revision /\ q.material = r.material
      /\ q.counter = r.counter /\ q.history = r.history /\ q.upload = Material(r)
      /\ ~q.picture.fresh /\ q.blend = r.blend /\ q.matched = r.matched
  BY <1>1 DEF Renderers
<1>3. Sound(q)
  BY <1>1, <1>2 DEF Sound, Numbered, OwnTarget, BlendIsGeometry
<1>4. ASSUME Replayable(r)
      PROVE  /\ Replayable(q)
             /\ GeometryQueued(r) => GeometryQueued(q)
             /\ GeometryDrawn(r) => GeometryDrawn(q)
             /\ \A t : Canonical(r, t) => Canonical(q, t)
  <2>1. q.gpu = r.gpu
    BY <1>2, <1>4 DEF Replayable
  <2>2. Material(q) = Material(r)
    BY <1>2 DEF Material
  <2>3. Replayable(q)
    BY <1>2, <1>4, <2>1, <2>2 DEF Replayable
  <2>4. /\ GeometryQueued(r) => GeometryQueued(q)
        /\ GeometryDrawn(r) => GeometryDrawn(q)
    BY <1>1, <1>2, <2>1 DEF GeometryQueued, GeometryDrawn
  <2>5. \A t : Canonical(r, t) => Canonical(q, t)
    BY <1>2, <2>1 DEF Canonical
  <2> QED
    BY <2>3, <2>4, <2>5
<1> QED
  BY <1>1, <1>3, <1>4 DEF q

-----------------------------------------------------------------------------
(* The picture's invariant, action by action.                                *)

LEMMA QueueWorks ==
  ASSUME NEW r, Sound(r), NEW op \in Ops
  PROVE  /\ Sound(Queue(r, op))
         /\ \A t : Works(r, t) => Works(Queue(r, op), DrawOne(t, op, 0))
         /\ Replayable(r) => Replayable(Queue(r, op))
<1>1. r \in Renderers
  BY DEF Sound
<1>2. ASSUME NEW t, Works(r, t) PROVE Works(Queue(r, op), DrawOne(t, op, 0))
  BY <1>2, QueueDrawn, QueueQueued, QueueCanonical DEF Works
<1> QED
  BY <1>1, <1>2, QueueSound, QueueReplayable

LEMMA EmulateWorks ==
  ASSUME Sound(renderer), NEW p, NEW next, NEW ops \in Seq(Ops), Len(ops) \in 0 .. 2,
         Emulate(p, ops, next)
  PROVE  /\ Sound(renderer')
         /\ Works(renderer, truth) => Works(renderer', truth')
         /\ Replayable(renderer) => Replayable(renderer')
<1>1. renderer' = QueueAll(renderer, ops) /\ truth' = Draw(truth, ops, 0)
  BY DEF Emulate
<1>2. Len(ops) >= 1 => ops[1] \in Ops
  BY ElementOfSeq
<1>3. Len(ops) = 2 => ops[2] \in Ops
  BY ElementOfSeq
<1>4. CASE Len(ops) = 0
  BY <1>1, <1>4, QueueAllShort, DrawShort
<1>5. CASE Len(ops) = 1
  <2>1. renderer' = Queue(renderer, ops[1]) /\ truth' = DrawOne(truth, ops[1], 0)
    BY <1>1, <1>5, QueueAllShort, DrawShort
  <2> QED
    BY <1>2, <1>5, <2>1, QueueWorks
<1>6. CASE Len(ops) = 2
  <2> DEFINE once == Queue(renderer, ops[1])
             drawn == DrawOne(truth, ops[1], 0)
  <2>1. renderer' = Queue(once, ops[2]) /\ truth' = DrawOne(drawn, ops[2], 0)
    BY <1>1, <1>6, QueueAllShort, DrawShort
  <2>2. /\ Sound(once)
        /\ Works(renderer, truth) => Works(once, drawn)
        /\ Replayable(renderer) => Replayable(once)
    BY <1>2, <1>6, QueueWorks
  <2> HIDE DEF once, drawn
  <2>3. Sound(once) /\ ops[2] \in Ops
    BY <1>3, <1>6, <2>2
  <2>4. /\ Sound(Queue(once, ops[2]))
        /\ \A t : Works(once, t) => Works(Queue(once, ops[2]), DrawOne(t, ops[2], 0))
        /\ Replayable(once) => Replayable(Queue(once, ops[2]))
    BY ONLY <2>3, QueueWorks
  <2> QED
    BY <2>1, <2>2, <2>4
<1> QED
  BY <1>4, <1>5, <1>6

\* Steps that leave the renderer alone.
LEMMA LeftAlone ==
  ASSUME PictureInv, renderer' = renderer, truth' = truth, running' => running,
         Held' => Held
  PROVE  PictureInv'
  BY DEF PictureInv

\* The worker's steps, and the loop's that do not touch the renderer.
LEMMA QuietKeepsPicture ==
  ASSUME IInv,
         \/ WorkerTakes \/ WorkerPosts \/ WaitForField \/ Snapshot \/ EndIteration
         \/ ExitWaits \/ ExitPosts \/ ExitJoins \/ UNCHANGED vars
         \/ Advance /\ (Rest \/ TakeReady)
  PROVE  PictureInv' /\ PictureIsOneField'
<1> USE DEF loop, handover, window, worker, machine
<1> DEFINE Quiet == /\ renderer' = renderer /\ truth' = truth /\ shown' = shown
                    /\ (running' => running) /\ (Held' => Held)
<1>1. WorkerTakes => Quiet
  BY DEF WorkerTakes, Held, Resting, IInv, LoopInv, Types
<1>2. WorkerPosts => Quiet
  BY DEF WorkerPosts, Held, Resting, IInv, LoopInv, Types
<1>3. WaitForField => Quiet
  BY DEF WaitForField, Held, Resting, IInv, LoopInv, Types
<1>4. Snapshot => Quiet
  BY DEF Snapshot, Held, Resting, IInv, LoopInv, Types
<1>5. EndIteration => Quiet
  BY DEF EndIteration, Held, Resting, IInv, LoopInv, Types
<1>6. ExitWaits => Quiet
  BY DEF ExitWaits, Held, Resting, IInv, LoopInv, Types
<1>7. ExitPosts => Quiet
  BY DEF ExitPosts, Held, Resting, IInv, LoopInv, Types
<1>8. ExitJoins => Quiet
  BY DEF ExitJoins, Held, Resting, IInv, LoopInv, Types
<1>9. UNCHANGED vars => Quiet
  BY DEF vars, Held, Resting, IInv, LoopInv, Types
<1>10. Advance /\ (Rest \/ TakeReady) => Quiet
  BY DEF Advance, Rest, TakeReady, Held, Resting, IInv, LoopInv, Types
<1>11. Quiet
  BY <1>1, <1>2, <1>3, <1>4, <1>5, <1>6, <1>7, <1>8, <1>9, <1>10
<1>12. PictureInv'
  BY <1>11, LeftAlone DEF IInv
<1>13. PictureIsOneField'
  BY <1>11 DEF IInv, PictureIsOneField
<1> QED
  BY <1>12, <1>13

\* A step that emulates, while no picture may be made or the copy still stands.
LEMMA EmulatedPicture ==
  ASSUME IInv, NEW p, NEW next, NEW ops \in Seq(Ops), Len(ops) \in 0 .. 2,
         Emulate(p, ops, next), running' = running, shown' = shown, Held' => Held
  PROVE  PictureInv' /\ PictureIsOneField'
<1>1. /\ Sound(renderer) /\ renderer \in Renderers /\ truth \in Boards
  BY DEF IInv, PictureInv, Sound
<1>2. /\ Sound(renderer')
      /\ Works(renderer, truth) => Works(renderer', truth')
      /\ Replayable(renderer) => Replayable(renderer')
  BY <1>1, EmulateWorks
<1>3. truth' \in Boards
  BY <1>1, EmulateTyped
<1>4. PictureInv'
  BY <1>2, <1>3 DEF IInv, PictureInv
<1>5. PictureIsOneField'
  BY DEF IInv, PictureIsOneField
<1> QED
  BY <1>4, <1>5

LEMMA EmulationKeepsPicture ==
  ASSUME IInv, WorkerOpens \/ WorkerDraws \/ (Advance /\ RunInline)
  PROVE  PictureInv' /\ PictureIsOneField'
<1> USE DEF loop, handover, window, worker, machine
<1>1. /\ plan \in PlanSet /\ sys \in Machines /\ sys.frames \in Nat /\ sys.draw \in Buffers
  BY DEF IInv, LoopInv, Types, Machines
<1>2. CASE WorkerOpens
  <2>1. Emulate(plan, Opening(plan),
                [sys EXCEPT !.vram = sys.frames + 1, !.draw = Displayed(plan)])
    BY <1>2 DEF WorkerOpens
  <2>2. Opening(plan) \in Seq(Ops) /\ Len(Opening(plan)) \in 0 .. 2
    BY <1>1, PlanOps
  <2>3. /\ running' = running /\ shown' = shown
        /\ pc' = pc /\ visible' = visible /\ paused' = paused /\ stepping' = stepping
        /\ changed' = changed /\ advanced' = advanced
    BY <1>2 DEF WorkerOpens
  <2>4. renderer'.interpolate = renderer.interpolate
    BY <2>1, <2>2, EmulateTyped DEF IInv, PictureInv, Sound
  <2>5. Held' => Held
    BY <2>3, <2>4 DEF Held, Resting
  <2> QED
    BY <2>1, <2>2, <2>3, <2>5, EmulatedPicture
<1>3. CASE WorkerDraws
  <2>1. Emulate(plan, Drawing(plan, sys.draw), [sys EXCEPT !.frames = @ + 1])
    BY <1>3 DEF WorkerDraws
  <2>2. Drawing(plan, sys.draw) \in Seq(Ops) /\ Len(Drawing(plan, sys.draw)) \in 0 .. 2
    BY <1>1, PlanOps
  <2>3. /\ running' = running /\ shown' = shown
        /\ pc' = pc /\ visible' = visible /\ paused' = paused /\ stepping' = stepping
        /\ changed' = changed /\ advanced' = advanced
    BY <1>3 DEF WorkerDraws
  <2>4. renderer'.interpolate = renderer.interpolate
    BY <2>1, <2>2, EmulateTyped DEF IInv, PictureInv, Sound
  <2>5. Held' => Held
    BY <2>3, <2>4 DEF Held, Resting
  <2> QED
    BY <2>1, <2>2, <2>3, <2>5, EmulatedPicture
<1>4. CASE Advance /\ RunInline
  <2>1. PICK p \in Plans[sys.frames + 1] : RunField(p)
    BY <1>4 DEF RunInline
  <2>2. sys.frames \in 0 .. MaxFrames /\ sys.frames < MaxFrames
    BY <1>4 DEF RunInline, Advance, IInv, LoopInv, Types, WorkersTurn, InStep, Busy, Machines,
       Places
  <2>3. p \in PlanSet
    BY <2>2, PlansTyped
  <2> DEFINE ops == Opening(p) \o Drawing(p, Displayed(p))
             next == [frames |-> sys.frames + 1, vram |-> sys.frames + 1, draw |-> Displayed(p)]
  <2>4. ops \in Seq(Ops) /\ Len(ops) \in 0 .. 2
    BY <1>1, <2>3, PlanOps
  <2>5. Emulate(p, ops, next)
    BY <2>1 DEF RunField
  <2>6. running' = running /\ shown' = shown /\ pc' = "render" /\ advanced'
    BY <1>4 DEF Advance, RunInline
  <2>7. ~Held'
    BY <2>6 DEF Held
  <2> HIDE DEF ops, next
  <2> QED
    BY <2>4, <2>5, <2>6, <2>7, EmulatedPicture
<1> QED
  BY <1>2, <1>3, <1>4

\* Keys and window changes.
LEMMA EventKeepsPicture ==
  ASSUME IInv, NEW e \in {"none", "F2", "space", "step", "quit", "resize"}, Event(e)
  PROVE  PictureInv' /\ PictureIsOneField'
<1> USE DEF loop, handover, window, worker, machine
<1>1. Sound(renderer) /\ truth \in Boards /\ running /\ Works(renderer, truth)
  <2>1. pc = "events"
    BY DEF Event
  <2> QED
    BY <2>1 DEF IInv, LoopInv, InStep, PictureInv
<1>2. renderer' = renderer \/ renderer' = Enable(renderer) \/ renderer' = Disable(renderer)
  BY DEF Event
<1>3. Sound(renderer') /\ Works(renderer', truth)
  BY <1>1, <1>2, EnableRest, DisableRest DEF Works
<1>4. Held' => renderer' = renderer /\ Held
  <2> SUFFICES ASSUME Held' PROVE renderer' = renderer /\ Held
    OBVIOUS
  <2>1. pc = "events" /\ pc' = "advance"
    BY DEF Event
  <2>2. renderer'.interpolate /\ ~changed' /\ (paused' /\ ~stepping') /\ (visible' \/ paused')
    BY <2>1 DEF Held, Resting
  <2>3. renderer.interpolate = renderer'.interpolate
    BY <2>2 DEF Event
  <2>4. renderer' = renderer
    <3>1. e # "F2" => renderer' = renderer
      BY DEF Event
    <3>2. e = "F2" => renderer' = Disable(renderer)
      BY <2>2, <2>3 DEF Event
    <3>3. ~Disable(renderer).interpolate
      BY <1>1, DisableTyped DEF Sound
    <3> QED
      BY <2>2, <3>1, <3>2, <3>3
  <2>5. visible \/ paused
    BY <2>2 DEF Event
  <2> QED
    BY <1>1, <2>1, <2>2, <2>3, <2>4, <2>5 DEF Held
<1>5. truth' = truth /\ shown' = shown
  BY DEF Event
<1>6. PictureInv'
  BY <1>1, <1>3, <1>4, <1>5 DEF IInv, PictureInv
<1>7. PictureIsOneField'
  BY <1>5 DEF IInv, PictureIsOneField
<1> QED
  BY <1>6, <1>7

\* What a replay shows of a buffer is, but for the motion, what was drawn there.
LEMMA ReplayedStill ==
  ASSUME NEW r, Sound(r), Replayable(r), NEW between \in BOOLEAN, NEW b \in Buffers
  PROVE  Still(Replayed(r, between)[b]) = r.gpu[b]
<1>1. r.gpu \in Boards /\ r.gpu[b] \in Seq(Inks) /\ r.blend \in Seq(Ops)
  BY DEF Sound, Renderers, Boards
<1>2. Still(r.gpu[b]) = r.gpu[b]
  BY <1>1, StillIsStill
<1>3. CASE ~(between /\ r.matched)
  <2>1. Replayed(r, between) = r.gpu
    BY <1>3, DrawNothing DEF Replayed, Operations
  <2> QED
    BY <1>2, <2>1
<1>4. CASE between /\ r.matched
  <2> DEFINE away == [i \in DOMAIN r.blend |-> [r.blend[i] EXCEPT !.moved = TRUE]]
             n == Len(r.blend)
             v == Material(r)
  <2>1. PICK c \in Buffers :
          /\ r.blend # <<>> /\ r.blend[1].kind = "erase" /\ OnlyFirst(r.blend, c)
          /\ r.gpu[c] = Inked(r.blend, v)
    BY <1>4 DEF Replayable
  <2>2. Replayed(r, between) = Draw(r.gpu, away, v)
    BY <1>4 DEF Replayed, Operations
  <2>3. /\ n \in Nat \ {0} /\ DOMAIN r.blend = 1 .. n
        /\ \A i \in 1 .. n : r.blend[i] \in Ops
    BY <1>1, <2>1, LenProperties, ElementOfSeq, EmptySeq
  <2>4. Len(away) = n /\ \A i \in 1 .. n : away[i] = [r.blend[i] EXCEPT !.moved = TRUE]
    BY <2>3
  <2>5. \A i \in 1 .. n : away[i].kind = r.blend[i].kind /\ away[i].target = r.blend[i].target
    BY <2>3, <2>4 DEF Ops
  <2>6. \A i \in 1 .. n : away[i].target = c /\ (i > 1 => away[i].kind \notin Erases)
    BY <2>1, <2>3, <2>5 DEF OnlyFirst
  <2>7. away[1].kind = "erase"
    BY <2>1, <2>3, <2>5
  <2>8. Still(Inked(away, v)) = Inked(r.blend, v)
    BY <1>1, StillInked
  <2> HIDE DEF away, n, v
  <2>9. CASE b = c
    <3>1. Draw(r.gpu, away, v)[b] = Inked(away, v)
      BY <1>1, <2>3, <2>4, <2>6, <2>7, <2>9, DrawErased
    <3> QED
      BY <2>1, <2>2, <2>8, <2>9, <3>1
  <2>10. CASE b # c
    <3>1. \A k \in 1 .. Len(away) : away[k].target # b
      BY <2>4, <2>6, <2>10
    <3>2. Draw(r.gpu, away, v)[b] = r.gpu[b]
      BY <1>1, <2>3, <2>4, <3>1, DrawUntouched
    <3> QED
      BY <1>2, <2>2, <3>2
  <2> QED
    BY <2>9, <2>10
<1> QED
  BY <1>3, <1>4

LEMMA RenderKeepsPicture ==
  ASSUME IInv, Render
  PROVE  PictureInv' /\ PictureIsOneField'
<1> USE DEF loop, handover, window, worker, machine
<1>1. /\ Sound(renderer) /\ truth \in Boards /\ sys \in Machines
      /\ running => Works(renderer, truth)
      /\ visible \in BOOLEAN
  BY DEF IInv, PictureInv, LoopInv, Types
<1>2. /\ truth' = truth /\ shown' = shown /\ pc = "render" /\ pc' = "snapshot"
      /\ visible' = visible /\ paused' = paused /\ stepping' = stepping
      /\ advanced' = advanced /\ changed' = changed
  BY DEF Render
<1>3. PictureIsOneField'
  BY <1>2 DEF IInv, PictureIsOneField
<1>4. CASE Due /\ RenderCore
  <2>1. PICK m \in BOOLEAN :
          renderer' = Pair(IF visible THEN Save(Submit(renderer, sys)) ELSE renderer, sys, m)
    BY <1>4 DEF RenderCore
  <2>2. renderer.interpolate /\ running' = running
    BY <1>4 DEF RenderCore
  <2>3. CASE visible
    <3> DEFINE drawn == Submit(renderer, sys)
               kept == Save(drawn)
    <3>1. /\ Sound(drawn) /\ drawn.queue = <<>> /\ drawn.interpolate
          /\ GeometryQueued(drawn)
          /\ \A t : Canonical(renderer, t) => Canonical(drawn, t)
      BY <1>1, <2>2, SubmitRest
    <3>2. GeometryDrawn(renderer) /\ GeometryQueued(renderer) => GeometryDrawn(drawn)
      BY <1>1, <2>2, SubmitDrawn
    <3> HIDE DEF drawn
    <3>3. /\ Sound(kept) /\ kept.queue = <<>> /\ kept.interpolate /\ kept.saved = kept.gpu
          /\ GeometryQueued(kept)
          /\ GeometryDrawn(drawn) => GeometryDrawn(kept)
          /\ \A t : Canonical(drawn, t) => Canonical(kept, t)
      BY <3>1, SaveRest
    <3> HIDE DEF kept
    <3>4. renderer' = Pair(kept, sys, m)
      BY <2>1, <2>3 DEF kept, drawn
    <3>5. /\ Sound(renderer')
          /\ GeometryQueued(renderer')
          /\ GeometryDrawn(kept) => GeometryDrawn(renderer') /\ Replayable(renderer')
          /\ \A t : Canonical(kept, t) => Canonical(renderer', t)
      BY <1>1, <3>3, <3>4, PairRest
    <3>6. running => Works(renderer', truth) /\ Replayable(renderer')
      BY <1>1, <3>1, <3>2, <3>3, <3>5 DEF Works
    <3> QED
      BY <1>1, <1>2, <1>3, <2>2, <3>5, <3>6 DEF PictureInv, Held
  <2>4. CASE ~visible
    <3>1. renderer' = Pair(renderer, sys, m)
      BY <2>1, <2>4
    <3>2. /\ Sound(renderer')
          /\ GeometryQueued(renderer) => GeometryQueued(renderer')
          /\ GeometryDrawn(renderer) => GeometryDrawn(renderer')
          /\ \A t : Canonical(renderer, t) => Canonical(renderer', t)
      BY <1>1, <3>1, PairRest
    <3>3. ~paused
      BY <1>2, <1>4, <2>2, <2>4 DEF IInv, LoopInv, DueIsVisible, Due, Resting
    <3>4. ~Held'
      BY <1>2, <2>4, <3>3 DEF Held
    <3> QED
      BY <1>1, <1>2, <1>3, <2>2, <3>2, <3>4 DEF PictureInv, Works
  <2> QED
    BY <1>1, <2>3, <2>4
<1>5. CASE Due /\ RenderField
  <2>1. ~renderer.interpolate /\ running' = running
        /\ (renderer' = renderer \/ renderer' = Submit(renderer, sys))
    BY <1>5 DEF RenderField
  <2>2. /\ Sound(renderer') /\ ~renderer'.interpolate
        /\ \A t : Canonical(renderer, t) => Canonical(renderer', t)
    BY <1>1, <2>1, SubmitRest
  <2>3. GeometryDrawn(renderer') /\ GeometryQueued(renderer')
    BY <2>2 DEF GeometryDrawn, GeometryQueued
  <2>4. ~Held'
    BY <2>2 DEF Held
  <2> QED
    BY <1>1, <1>2, <1>3, <2>1, <2>2, <2>3, <2>4 DEF PictureInv, Works
<1>6. CASE Due /\ RenderFails
  <2>1. ~running' /\ renderer' = renderer
    BY <1>6 DEF RenderFails
  <2> QED
    BY <1>1, <1>2, <1>3, <2>1 DEF PictureInv, Held
<1>7. CASE ~Due
  <2>1. renderer' = renderer /\ running' = running
    BY <1>7 DEF Render
  <2>2. Held' => Held
    BY <1>2, <1>7, <2>1 DEF Held, Due
  <2> QED
    BY <1>2, <1>3, <2>1, <2>2, LeftAlone DEF IInv
<1> QED
  BY <1>4, <1>5, <1>6, <1>7 DEF Render

LEMMA PresentPictureKeepsPicture ==
  ASSUME IInv, PresentPicture
  PROVE  PictureInv' /\ PictureIsOneField'
<1> USE DEF loop, handover, window, worker, machine
<1>1. /\ Sound(renderer) /\ truth \in Boards /\ g_picture \in Machines
      /\ running => Works(renderer, truth)
      /\ Held => Replayable(renderer)
  BY DEF IInv, PictureInv, LoopInv, Types
<1>2. /\ truth' = truth /\ pc = "present" /\ pc' = pc /\ renderer.interpolate
      /\ visible' = visible /\ paused' = paused
      /\ advanced' = advanced /\ changed' = changed /\ (running' => running)
  BY DEF PresentPicture
<1>3. CASE UNCHANGED <<renderer, shown>>
  <2>1. Held' => Held
    BY <1>2, <1>3 DEF Held
  <2>2. PictureInv'
    BY <1>2, <1>3, <2>1, LeftAlone DEF IInv
  <2> QED
    BY <1>3, <2>2 DEF IInv, PictureIsOneField
<1>4. CASE /\ visible
           /\ \E between \in BOOLEAN :
                shown' = Picture(View, between) /\ renderer' = Replay(renderer, between)
  <2>1. PICK between \in BOOLEAN :
          shown' = Picture(View, between) /\ renderer' = Replay(renderer, between)
    BY <1>4
  <2>2. running => Held
    BY <1>2, <1>4 DEF Held
  <2>3. /\ Sound(renderer')
        /\ Replayable(renderer) => /\ Replayable(renderer')
                                   /\ GeometryQueued(renderer) => GeometryQueued(renderer')
                                   /\ GeometryDrawn(renderer) => GeometryDrawn(renderer')
                                   /\ \A t : Canonical(renderer, t) => Canonical(renderer', t)
    BY <1>1, <2>1, ReplayRest
  <2>4. PictureInv'
    BY <1>1, <1>2, <2>2, <2>3 DEF PictureInv, Works, Held
  <2> DEFINE b == 1 - g_picture.draw
  <2>5. b \in Buffers
    BY <1>1 DEF Machines, Buffers
  <2>6. /\ shown'.ending = ~running /\ shown'.field = g_picture.frames
        /\ shown'.of = renderer.field /\ shown'.skipped = (renderer.field # seen)
        /\ shown'.fb = Replayed(renderer, between)[b] /\ shown'.canonical = renderer.gpu[b]
    BY <2>1 DEF Picture, View
  <2>7. g_picture.frames = seen
    BY <1>2 DEF IInv, LoopInv, SnapshotSeen
  <2>8. running => Still(shown'.fb) = shown'.canonical
    BY <1>1, <2>2, <2>5, <2>6, ReplayedStill
  <2>9. PictureIsOneField'
    BY <2>6, <2>7, <2>8 DEF PictureIsOneField
  <2> QED
    BY <2>4, <2>9
<1> QED
  BY <1>3, <1>4 DEF PresentPicture

LEMMA PresentFieldKeepsPicture ==
  ASSUME IInv, PresentField
  PROVE  PictureInv' /\ PictureIsOneField'
<1> USE DEF loop, handover, window, worker, machine
<1>1. /\ Sound(renderer) /\ sys \in Machines /\ renderer' = renderer /\ truth' = truth
      /\ ~renderer.interpolate /\ pc = "present" /\ (running' => running)
  BY DEF IInv, PictureInv, LoopInv, Types, PresentField
<1>2. PictureInv'
  BY <1>1, LeftAlone DEF IInv, Held
<1>3. CASE shown' = shown
  BY <1>2, <1>3 DEF IInv, PictureIsOneField
<1>4. CASE shown' = FieldItself
  <2> DEFINE b == 1 - sys.draw
  <2>1. b \in Buffers
    BY <1>1 DEF Machines, Buffers
  <2>2. shown'.field = sys.frames /\ shown'.of = renderer.field
        /\ shown'.skipped = (renderer.field # seen)
        /\ shown'.fb = renderer.gpu[b] /\ shown'.canonical = renderer.gpu[b]
    BY <1>4 DEF FieldItself
  <2>3. renderer.gpu[b] \in Seq(Inks)
    BY <1>1, <2>1 DEF Sound, Renderers, Boards
  <2>4. Still(shown'.fb) = shown'.canonical
    BY <2>2, <2>3, StillIsStill
  <2>5. seen = sys.frames
    BY <1>1 DEF IInv, LoopInv, SnapshotSeen
  <2> QED
    BY <1>2, <2>2, <2>4, <2>5 DEF PictureIsOneField
<1> QED
  BY <1>3, <1>4 DEF PresentField

LEMMA NewRendererRest ==
  /\ Sound(NewRenderer) /\ NewRenderer.queue = <<>> /\ ~NewRenderer.matched
  /\ NewRenderer.gpu = [b \in Buffers |-> <<>>] /\ NewRenderer.saved = NewRenderer.gpu
  /\ \A b \in Buffers : NewRenderer.geometry[b] = <<>>
<1> DEFINE r == NewRenderer
<1>1. /\ r.queue = <<>> /\ r.gpu = [b \in Buffers |-> <<>>] /\ r.saved = r.gpu
      /\ r.counter = 0 /\ r.revision = [b \in Buffers |-> 0]
      /\ r.geometry = [b \in Buffers |-> <<>>]
      /\ r.history = [revision |-> 0, valid |-> FALSE] /\ r.matched = FALSE
  BY Zenon DEF NewRenderer
<1> HIDE DEF r
<1>2. ~r.matched
  BY <1>1, Zenon
<1>3. r.history.revision = 0
  BY <1>1
<1>4. \A b \in Buffers : r.geometry[b] = <<>> /\ r.revision[b] = 0
  BY <1>1
<1>5. Numbered(r)
  BY <1>1, <1>3, <1>4 DEF Numbered, Buffers
<1>6. OwnTarget(r) /\ BlendIsGeometry(r)
  BY <1>2, <1>4 DEF OwnTarget, OnlyFirst, BlendIsGeometry
<1>7. Sound(r)
  BY <1>5, <1>6, NewRendererTyped DEF Sound, r
<1> QED
  BY <1>1, <1>2, <1>4, <1>7 DEF r

LEMMA EnableNew ==
  LET q == Enable(NewRenderer) IN
  /\ q.queue = <<>> /\ ~q.matched
  /\ q.gpu = [b \in Buffers |-> <<>>] /\ q.saved = q.gpu
  /\ \A b \in Buffers : q.geometry[b] = <<>>
<1> DEFINE q == Enable(NewRenderer)
           r == NewRenderer
<1>1. r \in Renderers
  BY NewRendererTyped
<1> HIDE DEF r
<1>2. /\ Enable(r).queue = r.queue /\ Enable(r).matched = r.matched
      /\ Enable(r).gpu = r.gpu /\ Enable(r).saved = r.saved
      /\ Enable(r).geometry = [b \in Buffers |-> <<>>]
  BY <1>1 DEF Enable, Renderers
<1> QED
  BY <1>2, NewRendererRest DEF r

LEMMA InitPicture == Init => IInv
<1> SUFFICES ASSUME Init PROVE IInv
  OBVIOUS
<1>1. LoopInv /\ renderer \in Renderers /\ truth \in Boards
  BY InitKeepsLoop DEF Base
<1>9. renderer = NewRenderer \/ renderer = Enable(NewRenderer)
  BY DEF Init
<1>2. \A b \in Buffers : renderer.geometry[b] = <<>>
  BY <1>9, NewRendererRest, EnableNew
<1>3. /\ renderer.queue = <<>> /\ renderer.gpu = [b \in Buffers |-> <<>>]
      /\ renderer.saved = renderer.gpu /\ ~renderer.matched
  BY <1>9, NewRendererRest, EnableNew
<1>4. Sound(renderer)
  BY <1>9, NewRendererRest, EnableRest
<1>5. GeometryDrawn(renderer) /\ GeometryQueued(renderer)
  BY <1>2 DEF GeometryDrawn, GeometryQueued, Whole
<1>6. Canonical(renderer, truth)
  <2>1. Plain(renderer.gpu) = truth
    BY <1>3 DEF Init, Plain
  <2> QED
    BY <1>3, <2>1, DrawNothing DEF Canonical
<1>7. Replayable(renderer)
  BY <1>3 DEF Replayable
<1>8. PictureIsOneField
  BY DEF Init, NoPicture, PictureIsOneField, Still
<1> QED
  BY <1>1, <1>4, <1>5, <1>6, <1>7, <1>8 DEF IInv, PictureInv, Works

LEMMA NextKeepsPicture == ASSUME IInv, [Next]_vars PROVE IInv'
<1>1. Base /\ Base'
  BY NextKeepsLoop DEF IInv, PictureInv, Sound, Base
<1>2. PictureInv' /\ PictureIsOneField'
  <2>1. CASE UNCHANGED vars
    BY <2>1, QuietKeepsPicture
  <2>2. CASE Worker
    BY <2>2, QuietKeepsPicture, EmulationKeepsPicture DEF Worker
  <2>3. CASE Advance
    <3>1. Rest \/ TakeReady \/ RunInline
      BY <2>3 DEF Advance, Consume
    <3> QED
      BY <2>3, <3>1, QuietKeepsPicture, EmulationKeepsPicture
  <2>4. CASE Main /\ ~Advance
    BY <2>4, QuietKeepsPicture, EventKeepsPicture, RenderKeepsPicture,
       PresentPictureKeepsPicture, PresentFieldKeepsPicture DEF Main
  <2> QED
    BY <2>1, <2>2, <2>3, <2>4 DEF Next
<1> QED
  BY <1>1, <1>2 DEF IInv, Base

LEMMA IInvAlways == Spec => []IInv
  BY InitPicture, NextKeepsPicture, PTL DEF Spec

\* A picture is of one field: the registers, the displayed buffer and what a
\* replay draws over it are those of the field that was submitted, while the
\* worker is already changing the machine (saturn_vk_interpolation_begin,
\* picture_snapshot of window.c).
THEOREM PictureAlwaysOneField == Spec => []PictureIsOneField
<1>1. IInv => PictureIsOneField
  BY DEF IInv
<1> QED
  BY <1>1, IInvAlways, PTL

\* Every VDP1 operation reaches its framebuffer once and in order, through
\* replays, pauses, hidden windows and switches of interpolation.
THEOREM FramebufferAlwaysCanonical == Spec => []FramebufferIsCanonical
<1>1. IInv => FramebufferIsCanonical
  BY DEF IInv, PictureInv, Works, Canonical, FramebufferIsCanonical
<1> QED
  BY <1>1, IInvAlways, PTL
=============================================================================
