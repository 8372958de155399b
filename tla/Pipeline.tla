------------------------------ MODULE Pipeline ------------------------------
(* The window's main loop and its field worker (window.c): with interpolation *)
(* on, the next field is emulated by a second thread while the pictures of     *)
(* the last one are still presented.  The machine, the renderer's queue and    *)
(* its geometry are written by whichever thread emulates; pictures are made    *)
(* from the snapshot g_picture and from what the renderer submitted.           *)
EXTENDS Renderer

CONSTANTS
  Plans,        \* what each field can do to the VDP1 buffers
  MaxFrames,    \* SATURN_MAX_FRAMES
  MaxEvents,    \* bound: key presses, window changes and failures of Vulkan
  MaxPictures   \* bound: pictures presented for one field

\* A plan says what the erase and the list of a field emit, if anything, and
\* whether the buffers change places.
PlanSet == [erase : {"none"} \cup Erases, swap : BOOLEAN, then : {"none", "quad", "write"}]

ASSUME PipelineAssumption ==
  /\ MaxFrames \in Nat \ {0} /\ MaxEvents \in Nat
  /\ \A n \in 1 .. MaxFrames : Plans[n] \subseteq PlanSet

VARIABLES
  pc, running, paused, stepping, advanced, changed, have_frame, left,
  worker_pending, field_ready, frame,
  visible, events,           \* the window has a size; events still to come
  wpc, start, done, quit,    \* the worker and its two semaphores
  sys, g_picture,            \* the machine: frames, vram, draw; its snapshot
  renderer, shown,           \* the renderer, and the picture last presented
  plan,                      \* what the worker's field does
  truth, seen                \* every operation emulated; the last field rendered

loop == <<pc, running, paused, stepping, advanced, changed, have_frame, left>>
handover == <<worker_pending, field_ready, frame>>
window == <<visible, events>>
worker == <<wpc, start, done, quit, plan>>
machine == <<sys, truth>>
vars == <<loop, handover, window, worker, machine, g_picture, renderer, shown, seen>>

NoPlan == [erase |-> "none", swap |-> FALSE, then |-> "none"]
NoPicture == [field |-> 0, of |-> 0, fb |-> <<>>, canonical |-> <<>>,
              skipped |-> FALSE, ending |-> FALSE]

Init ==
  /\ pc = "head" /\ running = TRUE /\ paused = FALSE /\ stepping = FALSE
  /\ advanced = FALSE /\ changed = FALSE /\ have_frame = FALSE /\ left = 0
  /\ worker_pending = FALSE /\ field_ready = FALSE /\ frame = 0
  /\ visible = TRUE /\ events = MaxEvents
  /\ wpc = "idle" /\ start = 0 /\ done = 0 /\ quit = FALSE /\ plan = NoPlan
  /\ sys = [frames |-> 0, vram |-> 0, draw |-> 0] /\ g_picture = sys
  /\ renderer \in {NewRenderer, Enable(NewRenderer)}
  /\ shown = NoPicture
  /\ truth = [b \in Buffers |-> <<>>] /\ seen = 0

-----------------------------------------------------------------------------
(* A field, in the two parts another thread can come between: the frame      *)
(* change, and what software does after it.                                   *)

Op(kind, b) == [kind |-> kind, target |-> b, field |-> sys.frames + 1, moved |-> FALSE]
Opening(p) == IF p.erase = "none" THEN <<>> ELSE <<Op(p.erase, 1 - sys.draw)>>
Drawing(p, b) == IF p.then = "none" THEN <<>> ELSE <<Op(p.then, b)>>
Displayed(p) == IF p.swap THEN 1 - sys.draw ELSE sys.draw

Emulate(p, ops, next) ==
  /\ renderer' = QueueAll(renderer, ops)
  /\ truth' = Draw(truth, ops, 0)
  /\ sys' = next

\* The whole of saturn_run_field, on the main thread.
RunField(p) ==
  Emulate(p, Opening(p) \o Drawing(p, Displayed(p)),
          [frames |-> sys.frames + 1, vram |-> sys.frames + 1, draw |-> Displayed(p)])

\* run_field_worker: wait for start, run the field, post done.
WorkerTakes ==
  /\ wpc = "idle" /\ start > 0 /\ start' = start - 1
  /\ IF quit THEN wpc' = "gone" /\ UNCHANGED plan
     ELSE wpc' = "opens" /\ plan' \in Plans[sys.frames + 1]
  /\ UNCHANGED <<loop, handover, window, done, quit, machine, g_picture, renderer,
                 shown, seen>>

WorkerOpens ==
  /\ wpc = "opens" /\ wpc' = "draws"
  /\ Emulate(plan, Opening(plan), [sys EXCEPT !.vram = sys.frames + 1, !.draw = Displayed(plan)])
  /\ UNCHANGED <<loop, handover, window, start, done, quit, plan, g_picture, shown, seen>>

WorkerDraws ==
  /\ wpc = "draws" /\ wpc' = "posts"
  /\ Emulate(plan, Drawing(plan, sys.draw), [sys EXCEPT !.frames = @ + 1])
  /\ UNCHANGED <<loop, handover, window, start, done, quit, plan, g_picture, shown, seen>>

WorkerPosts ==
  /\ wpc = "posts" /\ wpc' = "idle" /\ done' = done + 1 /\ plan' = NoPlan
  /\ UNCHANGED <<loop, handover, window, start, quit, machine, g_picture, renderer,
                 shown, seen>>

Worker == WorkerTakes \/ WorkerOpens \/ WorkerDraws \/ WorkerPosts

-----------------------------------------------------------------------------
(* The loop, one action per part.                                            *)

\* The head of the loop waits for the field that was handed over.
WaitForField ==
  /\ pc = "head"
  /\ IF running THEN pc' = "events" ELSE pc' = "exit"
  /\ IF running /\ worker_pending
     THEN done > 0 /\ done' = done - 1 /\ worker_pending' = FALSE /\ field_ready' = TRUE
     ELSE UNCHANGED <<done, worker_pending, field_ready>>
  /\ UNCHANGED <<running, paused, stepping, advanced, changed, have_frame, left, frame,
                 window, wpc, start, quit, plan, machine, g_picture, renderer, shown, seen>>

\* SDL's events.  F2 turns interpolation on or off; turning it on can fail.
\* A window without a size gets no keys.
Event(e) ==
  /\ pc = "events" /\ pc' = "advance"
  /\ e # "none" => events > 0
  /\ e \in {"F2", "space", "step", "quit"} => visible
  /\ events' = IF e = "none" THEN events ELSE events - 1
  /\ visible' = IF e = "resize" THEN ~visible ELSE visible
  /\ paused' = IF e = "space" THEN ~paused ELSE paused
  /\ stepping' = (e = "step")
  /\ running' = (e # "quit")
  /\ IF e = "F2"
     THEN IF renderer.interpolate THEN renderer' = Disable(renderer)
          ELSE renderer' \in {Enable(renderer), renderer}
     ELSE UNCHANGED renderer
  /\ changed' = (renderer'.interpolate # renderer.interpolate)
  /\ UNCHANGED <<advanced, have_frame, left, handover, worker, machine, g_picture,
                 shown, seen>>

\* One field an iteration, the worker's if it has one ready; none in a pause.
Resting == paused /\ ~stepping

RunInline ==
  /\ ~Resting /\ ~field_ready /\ (\E p \in Plans[sys.frames + 1] : RunField(p))
  /\ frame' = frame + 1 /\ advanced' = TRUE /\ UNCHANGED field_ready

TakeReady ==
  /\ ~Resting /\ field_ready /\ field_ready' = FALSE
  /\ frame' = frame + 1 /\ advanced' = TRUE /\ UNCHANGED <<machine, renderer>>

DropReady ==     \* mutant: the field the worker ran is counted and forgotten
  /\ ~Resting /\ field_ready /\ field_ready' = FALSE /\ (\E p \in Plans[sys.frames + 1] : RunField(p))
  /\ frame' = frame + 1 /\ advanced' = TRUE

\* The first is what the loop does with a field that is ready.
Consume == TakeReady

Rest == Resting /\ advanced' = FALSE /\ UNCHANGED <<field_ready, frame, machine, renderer>>

Advance ==
  /\ pc = "advance" /\ pc' = "render"
  /\ RunInline \/ Consume \/ Rest
  /\ UNCHANGED <<running, paused, stepping, changed, have_frame, left, worker_pending,
                 window, worker, g_picture, shown, seen>>

\* Render the field the machine holds, or in a pause the machine as it stands.
Due == advanced \/ ~have_frame \/ ~renderer.interpolate \/ changed

\* With interpolation on, the field is drawn and kept without presenting it.
RenderCore ==
  /\ renderer.interpolate /\ UNCHANGED running
  /\ \E matched \in BOOLEAN :
       renderer' = Pair(IF visible THEN Save(Submit(renderer, sys)) ELSE renderer, sys, matched)

\* Without it a window that has no size, or a swapchain out of date, is not
\* drawn into: the queue stays for the next field.
RenderField ==
  /\ ~renderer.interpolate /\ UNCHANGED running
  /\ \/ visible /\ renderer' = Submit(renderer, sys)
     \/ UNCHANGED renderer

RenderFails == running' = FALSE /\ events' = events - 1 /\ UNCHANGED renderer

Render ==
  /\ pc = "render" /\ pc' = "snapshot"
  /\ IF Due THEN /\ seen' = sys.frames /\ have_frame' = TRUE
                 /\ \/ (RenderCore \/ RenderField) /\ UNCHANGED events
                    \/ RenderFails /\ events > 0
     ELSE UNCHANGED <<renderer, seen, running, have_frame, events>>
  /\ UNCHANGED <<paused, stepping, advanced, changed, left, handover, visible, worker,
                 machine, g_picture, shown>>

\* Take the snapshot, then let the worker have the machine.
HandOver == advanced /\ running /\ ~paused /\ frame < MaxFrames

Snapshot ==
  /\ pc = "snapshot" /\ pc' = "present"
  /\ IF renderer.interpolate /\ (advanced \/ changed)
     THEN /\ g_picture' = sys
          /\ worker_pending' = HandOver
          /\ start' = IF HandOver THEN start + 1 ELSE start
     ELSE UNCHANGED <<g_picture, worker_pending, start>>
  /\ left' \in IF renderer.interpolate /\ advanced THEN 0 .. MaxPictures ELSE {1}
  /\ UNCHANGED <<running, paused, stepping, advanced, changed, have_frame, field_ready,
                 frame, window, wpc, done, quit, plan, machine, renderer, shown, seen>>

\* What a picture is made of: the registers and the displayed buffer of view,
\* the framebuffer with what the replay drew over it.
Picture(view, between) == [
  field |-> view.frames, of |-> renderer.field,
  fb |-> Replayed(renderer, between)[1 - view.draw],
  canonical |-> renderer.gpu[1 - view.draw],
  skipped |-> renderer.field # seen, ending |-> ~running]

\* The pictures of an interpolated field, and its endpoint again in a pause,
\* come from the snapshot.
View == g_picture

\* A picture may find the swapchain out of date and present nothing.
PresentPicture ==
  /\ pc = "present" /\ left > 0 /\ renderer.interpolate
  /\ \/ /\ visible
        /\ \E between \in BOOLEAN :
             shown' = Picture(View, between) /\ renderer' = Replay(renderer, between)
     \/ UNCHANGED <<renderer, shown>>
  /\ \/ left' = left - 1 /\ UNCHANGED <<running, events>>
     \/ left' = 0 /\ running' = FALSE /\ events > 0 /\ events' = events - 1
  /\ UNCHANGED <<pc, paused, stepping, advanced, changed, have_frame, handover, visible,
                 worker, machine, g_picture, seen>>

\* Without interpolation the render's own picture is presented.
FieldItself == [
  field |-> sys.frames, of |-> renderer.field, fb |-> renderer.gpu[1 - sys.draw],
  canonical |-> renderer.gpu[1 - sys.draw],
  skipped |-> renderer.field # seen, ending |-> ~running]

PresentField ==
  /\ pc = "present" /\ left > 0 /\ ~renderer.interpolate /\ left' = 0
  /\ \/ visible /\ shown' = FieldItself /\ UNCHANGED <<running, events>>
     \/ UNCHANGED <<shown, running, events>>
     \/ running' = FALSE /\ events > 0 /\ events' = events - 1 /\ UNCHANGED shown
  /\ UNCHANGED <<pc, paused, stepping, advanced, changed, have_frame, handover, visible,
                 worker, machine, g_picture, renderer, seen>>

EndIteration ==
  /\ pc = "present" /\ left = 0 /\ pc' = "head"
  /\ running' = (running /\ frame < MaxFrames)
  /\ UNCHANGED <<paused, stepping, advanced, changed, have_frame, left, handover, window,
                 worker, machine, g_picture, renderer, shown, seen>>

AlwaysWaits == TRUE    \* mutant of StillRunning

\* After the loop: wait for a field still being run, then have the worker end.
StillRunning == worker_pending

ExitWaits ==
  /\ pc = "exit" /\ StillRunning /\ done > 0 /\ done' = done - 1 /\ worker_pending' = FALSE
  /\ UNCHANGED <<loop, field_ready, frame, window, wpc, start, quit, plan, machine,
                 g_picture, renderer, shown, seen>>

ExitPosts ==
  /\ pc = "exit" /\ ~StillRunning /\ pc' = "join" /\ quit' = TRUE /\ start' = start + 1
  /\ UNCHANGED <<running, paused, stepping, advanced, changed, have_frame, left, handover,
                 window, wpc, done, plan, machine, g_picture, renderer, shown, seen>>

ExitJoins ==
  /\ pc = "join" /\ wpc = "gone" /\ pc' = "over"
  /\ UNCHANGED <<running, paused, stepping, advanced, changed, have_frame, left, handover,
                 window, worker, machine, g_picture, renderer, shown, seen>>

Main ==
  \/ WaitForField \/ Advance \/ Render \/ Snapshot \/ PresentPicture \/ PresentField \/ EndIteration
  \/ \E e \in {"none", "F2", "space", "step", "quit", "resize"} : Event(e)
  \/ ExitWaits \/ ExitPosts \/ ExitJoins

Next == Main \/ Worker

\* Both threads run: an operating system schedules them, and the semaphores
\* are the only thing either waits for.
Spec == Init /\ [][Next]_vars /\ WF_vars(Main) /\ WF_vars(Worker)

-----------------------------------------------------------------------------

TypeOK ==
  /\ pc \in {"head", "events", "advance", "render", "snapshot", "present", "exit", "join", "over"}
  /\ wpc \in {"idle", "opens", "draws", "posts", "gone"}
  /\ start \in 0 .. 1 /\ done \in 0 .. 1 /\ frame \in 0 .. MaxFrames
  /\ sys.draw \in Buffers /\ g_picture.draw \in Buffers

\* A picture is of one field, whatever the worker has done to the machine
\* meanwhile: registers and displayed buffer come from the field that was
\* submitted, and what a replay drew over that buffer is, but for the motion,
\* what the canonical draw put there, from the same memory (picture_snapshot,
\* the submission's material, saturn_vk_interpolation_begin, _render).  Nothing
\* is said of the last iteration, which a failed render may have begun.
Still(drawn) == [i \in DOMAIN drawn |-> [drawn[i] EXCEPT !.moved = FALSE]]

PictureIsOneField ==
  ~shown.ending => /\ shown.skipped \/ shown.field = shown.of
                   /\ Still(shown.fb) = shown.canonical

\* Every VDP1 operation the emulation emits reaches its framebuffer once and
\* in order: what the framebuffers hold, with what is still queued, is what
\* was emitted, through replays, pauses, hidden windows and switches of
\* interpolation, unless the queue overflowed and said so, or a failure is
\* ending the loop (queue_vdp1, saturn_vk_render, the restore after a replay).
Plain(buffers) ==
  [b \in Buffers |-> [i \in DOMAIN buffers[b] |-> [buffers[b][i] EXCEPT !.from = 0]]]

FramebufferIsCanonical ==
  running /\ ~renderer.reported => Draw(Plain(renderer.gpu), renderer.queue, 0) = truth

\* Fields are counted, rendered and emulated in step: the machine is never
\* more than the worker's one field ahead of the loop's count, and no field
\* is begun before the last one was rendered (the hand-over of window.c).
FieldsInStep ==
  /\ pc \notin {"exit", "join", "over"} =>
       sys.frames = frame + (IF field_ready \/ done > 0 \/ wpc = "posts" THEN 1 ELSE 0)
  /\ (running /\ wpc \in {"opens", "draws"}) => seen = sys.frames

\* Neither thread waits for the other forever: the loop comes round, or the
\* program ends with the worker joined (the semaphores, the exit path).
LoopComesRound == []<>(pc \in {"events", "over"})
=============================================================================
