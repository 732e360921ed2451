---------------------------- MODULE SuperbufQueue ----------------------------
(***************************************************************************)
(* A channel of bundled streams in mm-camera-interface: frames that the    *)
(* kernel fills for each stream on its own are matched by their number and *)
(* handed to the client as super buffers, on request or all of them. The   *)
(* poll thread brings the frames, the channel's command thread owns the    *)
(* queue, a callback thread serves the client, who gives the buffers back, *)
(* and stops the channel. A buffer is named by the frame it carries.       *)
(***************************************************************************)
EXTENDS Integers, Sequences, FiniteSets

CONSTANTS
    Streams, Meta,          \* the bundled streams, the one with the metadata
    Watched,                \* those with an asynchronous callback of their own
    num_bufs,               \* buffers of each stream
    MaxFrame,               \* bound: the last frame of the sensor
    MaxCommands,            \* bound: commands that wait
    MaxHeld,                \* bound: buffers the client holds before it gives one back
    water_mark, look_back, post_frame_skip, max_unmatched_frames,
    Continuous,             \* notify_mode: every super buffer, or on request
    MaxFuture,              \* MM_CAMERA_MAX_FUTURE_FRAME_WAIT
    NewsOf,                 \* bound: what each frame's metadata may tell, see NoNews
    Requests,               \* [num |-> ..., retro |-> ...]
    Flushes                 \* frame numbers a flush goes with

\* What metadata tells: whether the flash is prepared or needs a later frame, the range
\* of good frames (how far ahead, how many are lit, how many to skip after them) and
\* how far ahead a frame is that was diverted.
NoNews == [prep |-> "none", tells |-> {}, ahead |-> 0, lit |-> 0, skip |-> 0, divert |-> 0]

Frames == 1 .. MaxFrame
News   == UNION {NewsOf[f] : f \in Frames}

ASSUME QueueConstants ==
    /\ IsFiniteSet(Streams) /\ Meta \in Streams /\ Watched \subseteq Streams
    /\ {num_bufs, MaxFrame, water_mark, look_back, post_frame_skip, max_unmatched_frames,
        MaxFuture} \subseteq Nat
    /\ Continuous \in BOOLEAN /\ NoNews \in News
    /\ News \subseteq [prep : {"none", "done", "future"}, tells : SUBSET {"range", "divert"},
                       ahead : Nat, lit : Nat, skip : Nat, divert : Int]
    /\ Requests \subseteq [num : Nat, retro : Nat] /\ Flushes \subseteq Nat

VARIABLES
    state,                  \* of a stream: "REG", "ACTIVE", "OFF" while it stops
    buf_refcnt,             \* of a stream's buffer: its holders, 0 in the kernel
    queued_buffer_count,
    last,                   \* the frame a stream has seen last
    cmd_queue,              \* the channel's commands
    app_queue,              \* a watched stream's frames for its callback thread
    ch,                     \* the command thread's: its queue and its flags
    cb_queue,               \* super buffers for the callback thread
    held,                   \* what the client holds, and by which callback
    sync_sem,
    api                     \* the thread that starts, flushes and stops

streams == <<state, buf_refcnt, queued_buffer_count>>
client  == <<cb_queue, held>>
vars    == <<streams, last, cmd_queue, app_queue, ch, client, sync_sem, api>>

-----------------------------------------------------------------------------
(* The queue: nodes with a frame number, the streams that have it, and     *)
(* whether the metadata asked for it.                                      *)

LeastOf(S) == CHOOSE x \in S : \A y \in S : x <= y
Unmatched(q) == {i \in DOMAIN q : q[i].has # Streams}
MatchedHead(q) == IF Unmatched(q) = {} THEN Len(q) ELSE LeastOf(Unmatched(q)) - 1
Rank(I, i) == Cardinality({j \in I : j <= i})
Keep(q, I) == [k \in 1 .. Cardinality(I) |-> q[CHOOSE i \in I : Rank(I, i) = k]]
BuffersOf(q) == UNION {q[i].has \X {q[i].frame} : i \in DOMAIN q}

\* Matched super buffers are dropped from the head until n are left. The loop does
\* not look whether it found one.
DropUntil(c, n) ==
    LET over == c.match_cnt - n IN
    IF over <= 0 THEN c
    ELSE IF over <= MatchedHead(c.que)
         THEN [c EXCEPT !.que = SubSeq(@, over + 1, Len(@)), !.match_cnt = n]
         ELSE [c EXCEPT !.spins = TRUE]

Flush(c) == [c EXCEPT !.que = <<>>,
                      !.match_cnt = @ - Cardinality(DOMAIN c.que \ Unmatched(c.que))]

\* A diverted frame is waited for, unless it is past. Its number is kept in a byte.
Divert(c, m) ==
    IF "divert" \notin m.news.tells THEN c
    ELSE [c EXCEPT !.diverted_frame_id =
              IF m.news.divert < 0 THEN 0 ELSE (m.frame + m.news.divert) % 256]

\* The flash is prepared, or needs a later frame: then what waits is dropped.
Prepare(c, m) ==
    CASE m.news.prep = "none"   -> c
      [] m.news.prep = "done"   -> [c EXCEPT !.bWait = FALSE, !.needLEDFlash = FALSE]
      [] m.news.prep = "future" -> [Flush(c) EXCEPT !.bWait = FALSE, !.needLEDFlash = TRUE,
                                                    !.expected_frame_id = @ + MaxFuture]

\* A range of good frames counts as bracketing, whether that was asked for or not. In a
\* lit burst its end is where the flash goes out.
ChooseRange(c, m) ==
    LET min == m.frame + m.news.ahead
        c2  == [c EXCEPT !.expected_frame_id = min, !.good_frame_id = min,
                         !.bracketingState = "ACTIVE"]
    IN IF "range" \notin m.news.tells THEN c
       ELSE IF c.needLEDFlash /\ c.burstSnapNum > 1
       THEN [c2 EXCEPT !.led_off_start_frame_id = min + m.news.lit,
                       !.frame_skip_count = m.news.skip, !.once = FALSE]
       ELSE c2

\* Once in a lit burst the flash is to go out, and the first frames after it are skipped.
LedOff(c, m) ==
    IF /\ c.burstSnapNum > 1 /\ c.needLEDFlash /\ c.bracketingState = "OFF"
       /\ m.frame >= c.led_off_start_frame_id /\ ~c.once
    THEN [c EXCEPT !.expected_frame_id = c.led_off_start_frame_id + c.frame_skip_count,
                   !.once = TRUE, !.stopZslSnapshot = TRUE, !.needLEDFlash = FALSE]
    ELSE c

\* mm_channel_handle_metadata, of every metadata buffer.
HandleMetadata(c, m) ==
    IF m.stream # Meta THEN c
    ELSE LedOff(ChooseRange(Prepare(Divert(c, m), m), m), m)

\* An incomplete frame that was diverted is awaited from now on.
AwaitDiverted(c, i) ==
    IF c.diverted_frame_id # c.que[i].frame THEN c
    ELSE [c EXCEPT !.que[i].awaited = TRUE, !.diverted_frame_id = 0]

(* Mutant: the older frames stay when a newer one is complete. *)
JoinKeepingOlder(c, i, s) ==
    LET q == [c.que EXCEPT ![i].has = @ \cup {s}] IN
    IF q[i].has # Streams THEN AwaitDiverted([c EXCEPT !.que = q], i)
    ELSE [c EXCEPT !.que = [q EXCEPT ![i].awaited = FALSE],
                   !.expected_frame_id = q[i].frame + post_frame_skip,
                   !.match_cnt = @ + 1]

\* A stream's part of a frame that waits for it. The frame that becomes complete
\* sends away what is older and incomplete, and all that stands between.
Join(c, i, s) ==
    LET q     == [c.que EXCEPT ![i].has = @ \cup {s}]
        older == {j \in Unmatched(c.que) : j < i /\ q[j].frame < q[i].frame}
        gone  == IF older = {} THEN {} ELSE LeastOf(older) .. i - 1
    IN IF q[i].has # Streams THEN AwaitDiverted([c EXCEPT !.que = q], i)
       ELSE [c EXCEPT !.que = Keep([q EXCEPT ![i].awaited = FALSE], DOMAIN q \ gone),
                      !.expected_frame_id = q[i].frame + post_frame_skip,
                      !.match_cnt = @ + 1]

(* Mutant: nothing is evicted, whatever waits. *)
EvictedNone(q, f) == {}

\* What goes when too many frames are incomplete: the first that the metadata does
\* not wait for, from the first older one on, or that older one if all are awaited.
Evicted(q, f) ==
    LET over  == Cardinality(Unmatched(q)) - max_unmatched_frames
        older == {i \in Unmatched(q) : q[i].frame < f}
        newer == {i \in Unmatched(q) : q[i].frame > f}
        spare == {i \in LeastOf(older) .. Len(q) :
                     ~q[i].awaited /\ (newer = {} \/ i # LeastOf(newer))}
    IN IF over <= 0 THEN {}
       ELSE IF Cardinality(spare) < over THEN spare \cup {LeastOf(older)}
       ELSE {i \in spare : Cardinality({j \in spare : j < i}) < over}

Awaited(c, f) == f \in {c.good_frame_id, c.diverted_frame_id}

(* Mutant: a new frame is always the last. *)
InsertLast(c, s, f) ==
    LET gone == Evicted(c.que, f)
        node == [frame |-> f, has |-> {s}, awaited |-> Awaited(c, f)]
    IN [c EXCEPT !.que = Append(Keep(@, DOMAIN @ \ gone), node),
                 !.diverted_frame_id = IF Awaited(c, f) THEN 0 ELSE @]

\* A frame nothing waits for takes its place in the order, or goes back at once.
Insert(c, s, f) ==
    LET q     == c.que
        older == {i \in Unmatched(q) : q[i].frame < f}
        newer == {i \in Unmatched(q) : q[i].frame > f}
        place == IF newer = {} THEN Len(q) + 1 ELSE LeastOf(newer)
        gone  == Evicted(q, f)
        node  == [frame |-> f, has |-> {s},
                  awaited |-> Awaited(c, f) /\ Streams # {s}]
        c2    == [c EXCEPT !.que = Keep(q, (1 .. place - 1) \ gone) \o <<node>>
                                   \o Keep(q, (place .. Len(q)) \ gone),
                           !.diverted_frame_id = IF Awaited(c, f) THEN 0 ELSE @]
    IN IF older = {} /\ Cardinality(Unmatched(q)) > max_unmatched_frames THEN c
       ELSE IF Streams = {s}
            THEN [c2 EXCEPT !.expected_frame_id = f + post_frame_skip, !.match_cnt = @ + 1]
       ELSE c2

\* mm_channel_superbuf_comp_and_enqueue
CompAndEnqueue(c0, m) ==
    LET c    == HandleMetadata(c0, m)
        same == {i \in Unmatched(c.que) : c.que[i].frame = m.frame}
    IN IF /\ m.frame < c.expected_frame_id
          /\ \A i \in DOMAIN c.que : c.que[i].frame = m.frame => ~c.que[i].awaited
       THEN c
       ELSE IF same # {} THEN Join(c, LeastOf(same), m.stream)
       ELSE Insert(c, m.stream, m.frame)

\* A new request replaces the one before it.
NewRequest(c, r) ==
    LET retro == IF r.retro > r.num THEN r.num ELSE r.retro
        c2    == [c EXCEPT !.pending_cnt = r.num, !.pending_retro_cnt = retro,
                           !.bWait = FALSE, !.stopZslSnapshot = FALSE,
                           !.needLEDFlash = IF retro > 0 THEN FALSE ELSE @]
    IN IF Continuous THEN c2 ELSE DropUntil(c2, look_back)

\* The flash is off, and all that went with it. The two places differ in bWait.
ZslStopped(c) == [c EXCEPT !.startZSl = FALSE, !.needLEDFlash = FALSE, !.burstSnapNum = 0,
                           !.stopZslSnapshot = FALSE, !.bracketingState = "OFF"]

\* The sensor is switched to full pictures, and the flash on, with the first of what is
\* requested, and back with the last or with the LED-off end of a burst.
SwitchZsl(c) ==
    IF c.pending_cnt > 0 /\ (c.needLEDFlash \/ c.bracketingState # "OFF") /\ ~c.startZSl
    THEN [c EXCEPT !.startZSl = TRUE, !.burstSnapNum = c.pending_cnt, !.bWait = FALSE]
    ELSE IF (c.pending_cnt = 0 \/ c.stopZslSnapshot) /\ c.startZSl
    THEN [ZslStopped(c) EXCEPT !.bWait = FALSE]
    ELSE c

\* How many super buffers go to the client now.
Due(c) ==
    LET ready == MatchedHead(c.que)
        most  == IF c.pending_retro_cnt > 0 THEN c.pending_retro_cnt ELSE c.pending_cnt
    IN IF c.spins \/ c.bWait THEN 0
       ELSE IF Continuous \/ ready < most THEN ready ELSE most

(* Mutant: the flash stays on after the last super buffer. *)
HandOverLit(c, n) ==
    [c EXCEPT !.que = SubSeq(@, n + 1, Len(@)), !.match_cnt = @ - n,
              !.pending_cnt = @ - n]

\* The loop that sends them, and what it does to the request.
HandOver(c, n) ==
    LET pending == IF Continuous THEN c.pending_cnt ELSE c.pending_cnt - n
        retro   == IF Continuous \/ c.pending_retro_cnt = 0 THEN c.pending_retro_cnt
                   ELSE c.pending_retro_cnt - n
        off     == ~Continuous /\ n > 0 /\ (pending = 0 \/ c.stopZslSnapshot) /\ c.startZSl
        c2      == [c EXCEPT !.que = SubSeq(@, n + 1, Len(@)), !.match_cnt = @ - n,
                             !.pending_cnt = pending, !.pending_retro_cnt = retro,
                             !.bWait = @ \/ (c.pending_retro_cnt > 0 /\ retro = 0 /\ n > 0)]
    IN IF off THEN ZslStopped(c2) ELSE c2
-----------------------------------------------------------------------------
(* Mutant: the first holder to give a buffer back gives it to the kernel. *)
GiveBackAtOnce(G) ==
    LET taken == {b \in G : state[b[1]] # "REG" /\ buf_refcnt[b[1]][b[2]] > 0}
    IN /\ buf_refcnt' = [s \in Streams |-> [f \in Frames |->
              IF <<s, f>> \in taken THEN 0 ELSE buf_refcnt[s][f]]]
       /\ queued_buffer_count' = [s \in Streams |-> queued_buffer_count[s]
              + Cardinality({b \in taken : b[1] = s})]
       /\ UNCHANGED state

\* mm_channel_qbuf of several buffers: a stream that is not active ignores it, and
\* so does mm_stream_buf_done for a buffer without holders.
GiveBack(G) ==
    LET taken == {b \in G : state[b[1]] # "REG" /\ buf_refcnt[b[1]][b[2]] > 0}
    IN /\ buf_refcnt' = [s \in Streams |-> [f \in Frames |->
              buf_refcnt[s][f] - IF <<s, f>> \in taken THEN 1 ELSE 0]]
       /\ queued_buffer_count' = [s \in Streams |-> queued_buffer_count[s]
              + Cardinality({b \in taken : b[1] = s /\ buf_refcnt[s][b[2]] = 1})]
       /\ UNCHANGED state

\* mm_stream_data_notify and mm_stream_handle_rcvd_buf, on the poll thread: every
\* stream has its own pace and may lack a frame.
FrameArrives(s, f, news) ==
    /\ state[s] = "ACTIVE"
    /\ queued_buffer_count[s] > 0
    /\ f > last[s]
    /\ Len(cmd_queue) < MaxCommands
    /\ news \in IF s = Meta THEN NewsOf[f] ELSE {NoNews}
    /\ last' = [last EXCEPT ![s] = f]
    /\ queued_buffer_count' = [queued_buffer_count EXCEPT ![s] = @ - 1]
    /\ buf_refcnt' = [buf_refcnt EXCEPT ![s][f] = IF s \in Watched THEN 2 ELSE 1]
    /\ cmd_queue' = Append(cmd_queue, [type |-> "DATA", stream |-> s, frame |-> f,
                                       news |-> news])
    /\ app_queue' = IF s \in Watched THEN [app_queue EXCEPT ![s] = Append(@, f)]
                    ELSE app_queue
    /\ UNCHANGED <<state, ch, client, sync_sem, api>>

\* mm_stream_dispatch_app_data: one count more for the client, one less for the queue.
DispatchAppData(s) ==
    /\ app_queue[s] # <<>> /\ Cardinality(held) < MaxHeld
    /\ app_queue' = [app_queue EXCEPT ![s] = Tail(@)]
    /\ held' = held \cup {<<"app", s, Head(app_queue[s])>>}
    /\ UNCHANGED <<streams, last, cmd_queue, ch, cb_queue, sync_sem, api>>

\* What the command thread does after each command but a flush.
Serves(c, brought) ==
    LET c2  == IF Continuous THEN SwitchZsl(c) ELSE DropUntil(SwitchZsl(c), water_mark)
        n   == Due(c2)
        out == SubSeq(c2.que, 1, n)
    IN /\ ch' = HandOver(c2, n)
       /\ cb_queue' = cb_queue \o out
       /\ GiveBack((BuffersOf(ch.que) \cup brought)
                   \ (BuffersOf(ch'.que) \cup BuffersOf(out)))

\* mm_channel_process_stream_buf
ProcessStreamBuf ==
    /\ cmd_queue # <<>> /\ ~ch.spins
    /\ cmd_queue' = Tail(cmd_queue)
    /\ LET cmd == Head(cmd_queue) IN
       \/ /\ cmd.type = "DATA"
          /\ Serves(CompAndEnqueue(ch, cmd), {<<cmd.stream, cmd.frame>>})
          /\ UNCHANGED sync_sem
       \/ /\ cmd.type = "REQ"
          /\ Serves(NewRequest(ch, cmd), {})
          /\ UNCHANGED sync_sem
       \/ /\ cmd.type = "FLUSH"
          /\ ch' = [Flush(ch) EXCEPT !.expected_frame_id = cmd.frame]
          /\ GiveBack(BuffersOf(ch.que))
          /\ sync_sem' = sync_sem + 1
          /\ UNCHANGED cb_queue
    /\ UNCHANGED <<last, app_queue, held, api>>

\* mm_channel_dispatch_super_buf
DispatchSuperBuf ==
    /\ cb_queue # <<>> /\ Cardinality(held) < MaxHeld
    /\ cb_queue' = Tail(cb_queue)
    /\ held' = held \cup {<<"super", b[1], b[2]>> : b \in BuffersOf(<<Head(cb_queue)>>)}
    /\ UNCHANGED <<streams, last, cmd_queue, app_queue, ch, sync_sem, api>>

\* The client gives a buffer back, also after the channel has stopped.
BufDone(h) ==
    /\ held' = held \ {h}
    /\ GiveBack({<<h[2], h[3]>>})
    /\ UNCHANGED <<last, cmd_queue, app_queue, ch, cb_queue, sync_sem, api>>
-----------------------------------------------------------------------------
(* The thread that holds the channel's lock.                               *)

\* mm_channel_start starts the streams one by one, the metadata first.
StartStream(s) ==
    /\ api = "starting" /\ state[s] = "REG"
    /\ s # Meta => state[Meta] = "ACTIVE"
    /\ state' = [state EXCEPT ![s] = "ACTIVE"]
    /\ api' = IF \A r \in Streams \ {s} : state[r] = "ACTIVE" THEN "idle" ELSE api
    /\ UNCHANGED <<buf_refcnt, queued_buffer_count, last, cmd_queue, app_queue, ch,
                   client, sync_sem>>

\* A request, or its cancellation, which is a request of none.
RequestSuperBuf(r) ==
    /\ api = "idle"
    /\ Len(cmd_queue) < MaxCommands
    /\ cmd_queue' = Append(cmd_queue, [type |-> "REQ", num |-> r.num, retro |-> r.retro])
    /\ UNCHANGED <<streams, last, app_queue, ch, client, sync_sem, api>>

\* mm_channel_flush_super_buf_queue waits for the command thread.
FlushBegins(f) ==
    /\ api = "idle"
    /\ Len(cmd_queue) < MaxCommands
    /\ cmd_queue' = Append(cmd_queue, [type |-> "FLUSH", frame |-> f])
    /\ api' = "flushing"
    /\ UNCHANGED <<streams, last, app_queue, ch, client, sync_sem>>

FlushReturns ==
    /\ api = "flushing" /\ sync_sem > 0
    /\ sync_sem' = sync_sem - 1
    /\ api' = "idle"
    /\ UNCHANGED <<streams, last, cmd_queue, app_queue, ch, client>>

StopBegins ==
    /\ api = "idle"
    /\ api' = "stopping"
    /\ UNCHANGED <<streams, last, cmd_queue, app_queue, ch, client, sync_sem>>

\* mm_channel_stop stops one stream after the other, the metadata last.
StreamOff(s) ==
    /\ api = "stopping" /\ state[s] = "ACTIVE"
    /\ \A r \in Streams \ {s} : state[r] # "OFF" /\ (s = Meta => state[r] = "REG")
    /\ state' = [state EXCEPT ![s] = "OFF"]
    /\ UNCHANGED <<buf_refcnt, queued_buffer_count, last, cmd_queue, app_queue, ch,
                   client, sync_sem, api>>

(* Mutant: a stream does not wait for its callback thread. *)
StreamStopsAtOnce(s) ==
    /\ state[s] = "OFF"
    /\ state' = [state EXCEPT ![s] = "REG"]
    /\ buf_refcnt' = [buf_refcnt EXCEPT ![s] = [f \in Frames |-> 0]]
    /\ UNCHANGED <<queued_buffer_count, last, cmd_queue, app_queue, ch, client,
                   sync_sem, api>>

\* It joins its callback thread and unregisters its buffers.
StreamStops(s) ==
    /\ state[s] = "OFF" /\ app_queue[s] = <<>>
    /\ state' = [state EXCEPT ![s] = "REG"]
    /\ buf_refcnt' = [buf_refcnt EXCEPT ![s] = [f \in Frames |-> 0]]
    /\ UNCHANGED <<queued_buffer_count, last, cmd_queue, app_queue, ch, client,
                   sync_sem, api>>

StopFlushes ==
    /\ api = "stopping" /\ \A s \in Streams : state[s] = "REG"
    /\ cmd_queue' = Append(cmd_queue, [type |-> "FLUSH", frame |-> 0])
    /\ api' = "joining"
    /\ UNCHANGED <<streams, last, app_queue, ch, client, sync_sem>>

\* Both threads have come to their EXIT; the queue's counters are reset.
StopReturns ==
    /\ api = "joining" /\ sync_sem > 0
    /\ cmd_queue = <<>> /\ cb_queue = <<>>
    /\ sync_sem' = 0
    /\ ch' = [ch EXCEPT !.expected_frame_id = 0, !.good_frame_id = 0, !.match_cnt = 0]
    /\ api' = "stopped"
    /\ UNCHANGED <<streams, last, cmd_queue, app_queue, client>>
-----------------------------------------------------------------------------
Init ==
    /\ state = [s \in Streams |-> "REG"]
    /\ buf_refcnt = [s \in Streams |-> [f \in Frames |-> 0]]
    /\ queued_buffer_count = [s \in Streams |-> num_bufs]
    /\ last = [s \in Streams |-> 0]
    /\ cmd_queue = <<>> /\ cb_queue = <<>>
    /\ app_queue = [s \in Streams |-> <<>>]
    /\ ch = [que |-> <<>>, match_cnt |-> 0, expected_frame_id |-> 0, good_frame_id |-> 0,
             pending_cnt |-> 0, pending_retro_cnt |-> 0, bWait |-> FALSE,
             needLEDFlash |-> FALSE, startZSl |-> FALSE, burstSnapNum |-> 0,
             stopZslSnapshot |-> FALSE, bracketingState |-> "OFF",
             led_off_start_frame_id |-> 0, frame_skip_count |-> 0, once |-> FALSE,
             diverted_frame_id |-> 0, spins |-> FALSE]
    /\ held = {} /\ sync_sem = 0
    /\ api = "starting"

\* A channel that has stopped may rest. Nothing else may: frames are finite, so a stop
\* or a flush that did not return would leave the others without a step.
Stopped == api = "stopped" /\ held = {} /\ UNCHANGED vars

Next ==
    \/ \E s \in Streams, f \in Frames, news \in News : FrameArrives(s, f, news)
    \/ \E s \in Watched : DispatchAppData(s)
    \/ ProcessStreamBuf \/ DispatchSuperBuf
    \/ \E h \in held : BufDone(h)
    \/ \E s \in Streams : StartStream(s) \/ StreamOff(s) \/ StreamStops(s)
    \/ \E r \in Requests : RequestSuperBuf(r)
    \/ \E f \in Flushes : FlushBegins(f)
    \/ FlushReturns \/ StopBegins \/ StopFlushes \/ StopReturns \/ Stopped

Spec == Init /\ [][Next]_vars
-----------------------------------------------------------------------------
\* Who holds a buffer that is not with the kernel: a command that brings it, the
\* queue, a super buffer under way, the callback thread, the client.
Holders(s, f) ==
      Cardinality({i \in DOMAIN cmd_queue : /\ cmd_queue[i].type = "DATA"
                                            /\ cmd_queue[i].stream = s
                                            /\ cmd_queue[i].frame = f})
    + Cardinality({i \in DOMAIN ch.que : ch.que[i].frame = f /\ s \in ch.que[i].has})
    + Cardinality({i \in DOMAIN cb_queue : cb_queue[i].frame = f})
    + Cardinality({i \in DOMAIN app_queue[s] : app_queue[s][i] = f})
    + Cardinality({h \in held : h[2] = s /\ h[3] = f})

\* No buffer is lost and none is given to the kernel while somebody holds it,
\* whichever of the threads gives it back last.
NoBufferIsLost == \A s \in Streams : state[s] # "REG" =>
    /\ \A f \in Frames : buf_refcnt[s][f] = Holders(s, f)
    /\ queued_buffer_count[s]
          + Cardinality({f \in Frames : buf_refcnt[s][f] > 0}) = num_bufs

\* The loops that wait for match_cnt to fall find a super buffer at the head each time:
\* the count is right and no incomplete frame stands before a complete one. And at
\* most one frame has to go before another enters: the code that removes one more
\* after its loop never meets a node that the loop has freed.
LoopsFindTheirNodes ==
    /\ ~ch.spins
    /\ api # "stopped" => ch.match_cnt = MatchedHead(ch.que)
    /\ DOMAIN ch.que \ Unmatched(ch.que) = 1 .. MatchedHead(ch.que)
    /\ Cardinality(Unmatched(ch.que)) <= max_unmatched_frames + 1

\* Super buffers reach the client in the order of their frames.
InOrder(q) == \A i, j \in DOMAIN q : i < j => q[i].frame < q[j].frame
FramesAreInOrder == InOrder(cb_queue \o ch.que)

\* The queue never keeps every buffer of a stream: when all is quiet, the kernel has
\* one to fill, and the request that waits for a frame can be served.
StreamsDoNotStarve ==
    (cmd_queue = <<>> /\ cb_queue = <<>> /\ held = {}
     /\ \A s \in Streams : app_queue[s] = <<>>) =>
        \A s \in Streams : state[s] = "ACTIVE" => queued_buffer_count[s] > 0

\* The sensor is in its flash mode only while something is requested, and always when
\* something is requested that needs the flash or follows a range of good frames. The
\* size of the burst is known exactly then, and an order to stop never waits.
FlashFollowsRequest ==
    /\ ch.startZSl => ch.pending_cnt > 0
    /\ ch.pending_cnt > 0 /\ (ch.needLEDFlash \/ ch.bracketingState # "OFF") => ch.startZSl
    /\ ch.burstSnapNum > 0 <=> ch.startZSl
    /\ ~ch.stopZslSnapshot

\* What the parameters promise and the code does not do (a departure, in no run): a lit
\* burst ends where a range said that the flash goes out.
LedOffIsTold == ch.once => ch.led_off_start_frame_id > 0

\* A channel that has stopped has handed over or dropped everything: no callback
\* comes after the stop has returned.
StoppedIsEmpty == api = "stopped" =>
    /\ cmd_queue = <<>> /\ cb_queue = <<>> /\ ch.que = <<>>
    /\ \A s \in Streams : app_queue[s] = <<>>
=============================================================================
