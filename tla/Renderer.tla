------------------------------ MODULE Renderer ------------------------------
(* The state vulkan_renderer.c keeps between calls, as operators from one    *)
(* renderer record to the next: the queue of VDP1 operations that the         *)
(* emulation fills, the framebuffer the canonical submission draws, and the   *)
(* replay of the displayed buffer's operations into a picture between two     *)
(* fields.                                                                    *)
(*                                                                           *)
(* A framebuffer is the list of operations drawn into it since its last full  *)
(* erase, each with the version of VDP1 memory it was drawn from.  Vulkan     *)
(* itself, shaders, VDP2 memory and the quality options are left out.         *)
EXTENDS Naturals, Sequences

CONSTANTS
  MaxOps,          \* MAX_VDP1_OPS
  GeometryCap      \* the 8192 operations remembered of one framebuffer

ASSUME RendererAssumption == MaxOps \in Nat \ {0} /\ GeometryCap \in Nat \ {0}

Buffers == {0, 1}
Erases == {"erase", "clear"}      \* of the whole display, of a part of it

NewRenderer == [
  queue    |-> <<>>,  reported |-> FALSE,      \* pending, queue_overflow_reported
  interpolate |-> FALSE,
  counter  |-> 0,     revision |-> [b \in Buffers |-> 0],
  geometry |-> [b \in Buffers |-> <<>>],
  material |-> [b \in Buffers |-> [vram |-> 0, valid |-> FALSE]],
  gpu      |-> [b \in Buffers |-> <<>>],       \* fb
  saved    |-> [b \in Buffers |-> <<>>],       \* saved_fb
  upload   |-> 0,                              \* the version in v1ram
  picture  |-> [vram |-> 0, fresh |-> FALSE],  \* picture_vram, picture_vram_pending
  history  |-> [revision |-> 0, valid |-> FALSE],
  blend    |-> <<>>,  matched |-> FALSE,
  field    |-> 0 ]                             \* the field last submitted

\* queue_vdp1.  A full queue drops the operation; the geometry of a buffer
\* begins again at an erase and stops growing at its cap.
Queue(r, op) ==
  LET b == op.target
      kept == IF op.kind \in Erases THEN <<>> ELSE r.geometry[b]
  IN IF Len(r.queue) >= MaxOps THEN [r EXCEPT !.reported = TRUE]
     ELSE IF ~r.interpolate THEN [r EXCEPT !.queue = Append(@, op)]
     ELSE [r EXCEPT !.queue = Append(@, op), !.counter = @ + 1,
                    !.revision[b] = r.counter + 1,
                    !.geometry[b] = IF Len(kept) < GeometryCap THEN Append(kept, op)
                                    ELSE kept]

QueueAll(r, ops) ==
  LET after[n \in 0 .. Len(ops)] == IF n = 0 THEN r ELSE Queue(after[n - 1], ops[n])
  IN after[Len(ops)]

\* What operations leave in the framebuffers when drawn from version v.
Ink(op, v) == [kind |-> op.kind, field |-> op.field, moved |-> op.moved, from |-> v]

DrawOne(buffers, op, v) ==
  [buffers EXCEPT ![op.target] = IF op.kind = "erase" THEN <<Ink(op, v)>>
                                 ELSE Append(@, Ink(op, v))]

Draw(buffers, ops, v) ==
  LET after[n \in 0 .. Len(ops)] ==
        IF n = 0 THEN buffers ELSE DrawOne(after[n - 1], ops[n], v)
  IN after[Len(ops)]

MaterialAlways(cleared, b) == TRUE     \* mutant of MaterialValid

\* A draw into a buffer that the same submission did not erase mixes two
\* versions of memory in it.
MaterialValid(cleared, b) == b \in cleared

AfterReplayEmpties(r) == <<>>     \* mutant: the count is reset by every render

\* After a submission of the field the queue is empty; a replay leaves to the
\* worker what it has queued meanwhile.
AfterReplay(r) == r.queue

\* The buffers that operations draw into, and those that they erase.
Touched(ops) == {ops[i].target : i \in DOMAIN ops}
Cleared(ops) == {ops[i].target : i \in {j \in DOMAIN ops : ops[j].kind \in Erases}}

\* saturn_vk_render of a field, s being the machine: upload, remember the
\* material of the buffers drawn into, draw, empty the queue.
Submit(r, s) ==
  [r EXCEPT !.upload = s.vram, !.field = s.frames, !.queue = <<>>,
            !.gpu = Draw(@, r.queue, s.vram),
            !.material = [b \in Buffers |->
               IF r.interpolate /\ b \in Touched(r.queue)
               THEN [vram |-> s.vram, valid |-> MaterialValid(Cleared(r.queue), b)]
               ELSE @[b]]]

\* The canonical submission also keeps a copy of the framebuffers.
Save(r) == [r EXCEPT !.saved = r.gpu]

\* Whether the displayed buffer may be drawn again: one material, a full
\* erase first, no write by the CPU, and all of it remembered.
Safe(r, b) ==
  LET cur == r.geometry[b] IN
  /\ r.material[b].valid /\ cur # <<>> /\ Len(cur) < GeometryCap
  /\ cur[1].kind = "erase"
  /\ \A i \in DOMAIN cur : cur[i].kind # "write"

\* saturn_vk_interpolation_begin after its submission: keep the pair while the
\* displayed picture is the same, pair a new one with the last when both may
\* be redrawn.  Which faces match is m.
Pair(r, s, m) ==
  LET b == 1 - s.draw
      safe == Safe(r, b)
      renew == r.revision[b] # r.history.revision \/ ~safe \/ ~r.history.valid
      paired == r.interpolate /\ safe /\ r.history.valid
  IN [r EXCEPT !.picture = [vram |-> r.material[b].vram, fresh |-> TRUE],
               !.matched = IF renew THEN paired /\ m ELSE @,
               !.blend = IF ~renew THEN @ ELSE IF paired THEN r.geometry[b] ELSE <<>>,
               !.history = [revision |-> r.revision[b], valid |-> safe]]

\* saturn_vk_interpolation_enable and _disable.
Enable(r) ==
  [r EXCEPT !.interpolate = TRUE, !.history = [revision |-> 0, valid |-> FALSE],
            !.geometry = [b \in Buffers |-> <<>>],
            !.material = [b \in Buffers |-> [@[b] EXCEPT !.valid = FALSE]]]
Disable(r) == [r EXCEPT !.interpolate = FALSE, !.history.valid = FALSE]

\* saturn_vk_interpolation_render: the operations of the pair, moved part of
\* the way, are drawn over the framebuffer, unless the picture is the field.
Operations(r, between) ==
  IF between /\ r.matched THEN [i \in DOMAIN r.blend |-> [r.blend[i] EXCEPT !.moved = TRUE]]
  ELSE <<>>
Material(r) == IF r.picture.fresh THEN r.picture.vram ELSE r.upload
Replayed(r, between) == Draw(r.gpu, Operations(r, between), Material(r))

\* What is left of it: the framebuffer as it was saved, the queue as it is.
Restore(r) == r.saved

Replay(r, between) ==
  [r EXCEPT !.upload = Material(r), !.picture.fresh = FALSE,
            !.gpu = Restore([r EXCEPT !.gpu = Replayed(r, between)]),
            !.queue = AfterReplay(r)]
=============================================================================
