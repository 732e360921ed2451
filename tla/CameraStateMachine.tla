------------------------- MODULE CameraStateMachine -------------------------
(***************************************************************************)
(* The camera HAL's QCameraStateMachine with the API calls that post to it *)
(* and the threads that answer: QCamera2HardwareInterface (HWI) functions  *)
(* run on the caller's thread, post an event and sleep in waitAPIResult;   *)
(* one state-machine thread takes the events, API queue first, and runs    *)
(* the handler of its state; the notifier thread delivers pictures and     *)
(* posts SNAPSHOT_DONE, sleeping until it is handled.                      *)
(* One camera (no related sensor), jpeg pictures, no longshot, no retro    *)
(* picture, early restart off, as the properties of the device set it.     *)
(***************************************************************************)
EXTENDS Naturals, Sequences, FiniteSets, SequencesExt

CONSTANTS
    Threads,       \* the callers of the HAL
    Calls,         \* [Threads -> SUBSET API calls each of them may make]
    Flash,         \* may a picture need the flash?
    Faulty,        \* may the camera refuse to configure or start a channel?
    DaemonDies,    \* may the camera daemon die and never answer again?
    MaxPending     \* bound: a picture is asked for only while fewer commands
                   \* wait for the notifier, fewer events for the state
                   \* machine and fewer results for nobody

VARIABLES
    m_state,          \* the state machine's state
    ch,               \* m_channels: what each channel is
    prm,              \* mParameters: modes in force, modes to commit
    msg,              \* is enabling the preview message delayed? was it asked for?
    mPreviewWindow,   \* is there a window to show the preview in?
    api_queue, evt_queue,
    m_apiResultList,  \* results not yet taken by a caller
    caller,           \* what each thread is doing
    shot,             \* the picture in flight
    live,             \* mLiveSnapshotThread: what it still has to do
    cbq,              \* commands of the notifier thread
    notifier          \* the notifier thread

machine == <<m_state, ch, prm, msg, mPreviewWindow>>
queues  == <<api_queue, evt_queue, m_apiResultList, caller>>
picture == <<shot, live, cbq, notifier>>
vars    == <<machine, queues, picture>>
-----------------------------------------------------------------------------
States == {"PREVIEW_STOPPED", "PREVIEW_READY", "PREVIEWING",
           "PREPARE_SNAPSHOT", "PIC_TAKING", "RECORDING",
           "VIDEO_PIC_TAKING", "PREVIEW_PIC_TAKING"}
Channels == {"ZSL", "PREVIEW", "VIDEO", "SNAPSHOT", "CAPTURE"}
Modes == [zsl : BOOLEAN, hint : BOOLEAN]
Taking == {"PIC_TAKING", "VIDEO_PIC_TAKING", "PREVIEW_PIC_TAKING"}
None == "none"

\* The events an API call may post first: take_picture prepares the camera
\* only when the flash is needed.
FirstEvents ==
    [set_preview_window |-> {"SET_PREVIEW_WINDOW"},
     start_preview |-> {"START_PREVIEW"},  stop_preview |-> {"STOP_PREVIEW"},
     preview_enabled |-> {"PREVIEW_ENABLED"},
     enable_msg_type |-> {"ENABLE_MSG_TYPE"},
     disable_msg_type |-> {"DISABLE_MSG_TYPE"},
     set_parameters |-> {"SET_PARAMS"},
     start_recording |-> {"PRE_START_RECORDING"},
     stop_recording |-> {"STOP_RECORDING"},
     release_recording_frame |-> {"RELEASE_RECORDING_FRAME"},
     take_picture |-> {"PRE_TAKE_PICTURE"} \cup (IF Flash THEN {"PREPARE_SNAPSHOT"} ELSE {}),
     cancel_picture |-> {"CANCEL_PICTURE"},  release |-> {"RELEASE"}]

\* The threads of the HAL itself post their events as "internal".
ASSUME CameraConstants ==
    /\ {Flash, Faulty, DaemonDies} \subseteq BOOLEAN
    /\ MaxPending \in Nat
    /\ "internal" \notin Threads
    /\ Calls \in [Threads -> SUBSET DOMAIN FirstEvents]

Unset == [c \in Channels |-> None]
PreviewOn(c) == c["ZSL"] = "on" \/ c["PREVIEW"] = "on"

\* setStreamConfigure, addChannel, start, set_parms: may they fail?
MayFail == IF Faulty THEN BOOLEAN ELSE {TRUE}

(* Mutant: only the recording's channel is stopped. *)
VideoDeletedOnly(c) == [c EXCEPT !["VIDEO"] = None]

\* unpreparePreview: the channels of a preview are deleted. stopPreview
\* stops them first, which leaves the same channels.
Unprepared(c) == [k \in Channels |-> IF k = "CAPTURE" THEN c[k] ELSE None]

\* commitSetBatch: whatever batch is sent, every mode set so far comes into force.
Committed(p) == [p EXCEPT !.zsl = p.new.zsl, !.hint = p.new.hint]

\* preparePreview's channels, in the order it adds them. Each is deleted before
\* it is added, and one that cannot be added takes those before it away.
PreviewChannels(p) == IF p.zsl /\ ~p.hint THEN <<"ZSL">>
                      ELSE IF p.hint THEN <<"SNAPSHOT", "VIDEO", "PREVIEW">>
                      ELSE <<"PREVIEW">>
With(c, S, v) == [k \in Channels |-> IF k \in S THEN v ELSE c[k]]

\* preparePreview configures the streams, which commits the modes, and adds
\* the channels of the modes in force.
Prepared(c, p0) ==
    LET p == Committed(p0) IN
    {[c |-> With(c, Range(PreviewChannels(p)), "idle"), p |-> p, ok |-> TRUE, prep |-> TRUE]}
    \cup (IF Faulty
          THEN {[c |-> c, p |-> p0, ok |-> FALSE, prep |-> FALSE]} \cup
               {[c |-> With(c, {PreviewChannels(p)[i] : i \in 1..n}, None),
                 p |-> p, ok |-> FALSE, prep |-> FALSE] : n \in DOMAIN PreviewChannels(p)}
          ELSE {})

\* startPreview starts the channel of the modes in force.
PreviewChannel(p) == IF p.zsl /\ ~p.hint THEN "ZSL" ELSE "PREVIEW"
Started(c, p) ==
    {[c |-> IF ok THEN [c EXCEPT ![PreviewChannel(p)] = "on"] ELSE c,
      p |-> p, ok |-> ok, prep |-> TRUE] :
        ok \in IF c[PreviewChannel(p)] = None THEN {FALSE} ELSE MayFail}

(* Mutant: the preview is prepared and not started. *)
PreparedOnly(c, p, keep) == Prepared(c, p)

\* preparePreview, then startPreview when it succeeded; when the start fails
\* the channels are taken away, or left with keep.
Restarted(c, p, keep) ==
    {r \in Prepared(c, p) : ~r.ok} \cup
    UNION {{IF s.ok \/ keep THEN s ELSE [s EXCEPT !.c = Unprepared(s.c)] :
               s \in Started(r.c, r.p)} : r \in {q \in Prepared(c, p) : q.ok}}

(* Mutant: the delay ends and the delayed message stays. *)
AppliedForgotten(m) == [m EXCEPT !.delay = FALSE]

\* applyDelayedMsgs
Applied(m) == IF m.delay THEN [delay |-> FALSE, delayed |-> FALSE] ELSE m

\* A request for a zero-shutter-lag picture dies with its channel.
Lost(s, c) == IF s.phase = "wait" /\ s.kind = "ZSL" /\ c["ZSL"] # "on"
              THEN [s EXCEPT !.phase = "lost"] ELSE s

\* takePicture: of the running preview in the zero-shutter-lag mode, else of
\* a capture channel that replaces the preview. "sent": was the notifier told?
TakePicture(c, p) ==
    IF p.zsl
    THEN {[c |-> c, p |-> p, ok |-> ok, sent |-> ok] :
             ok \in IF c["ZSL"] = None THEN {FALSE} ELSE MayFail}
    ELSE {[c |-> [Unprepared(c) EXCEPT !["CAPTURE"] = "on"], p |-> Committed(p),
           ok |-> TRUE, sent |-> TRUE]}
         \cup (IF Faulty
               THEN {[c |-> c, p |-> p, ok |-> FALSE, sent |-> FALSE],
                     [c |-> [Unprepared(c) EXCEPT !["CAPTURE"] = None],
                      p |-> Committed(p), ok |-> FALSE, sent |-> TRUE]}
               ELSE {})

NoShot == [phase |-> None, kind |-> None]
-----------------------------------------------------------------------------
(* What a handler does to the threads that wait.                           *)

Waiting(t) == caller[t].api # None

(* Mutant: one sleeping caller is woken, whether or not the result is its own. *)
ReplyWakesOne(e, ok) ==
    /\ m_apiResultList' = Append(m_apiResultList,
                                 [api |-> e.api, from |-> e.from, ok |-> ok])
    /\ \E u \in Threads :
          caller' = [t \in Threads |->
                        IF t = u /\ Waiting(t) /\ e.api = caller[t].api
                        THEN [caller[t] EXCEPT !.woken = TRUE] ELSE caller[t]]

\* signalAPIResult appends the result and wakes the sleeping callers; one for
\* which the list has no result sleeps again.
Reply(e, ok) ==
    /\ m_apiResultList' = Append(m_apiResultList,
                                 [api |-> e.api, from |-> e.from, ok |-> ok])
    /\ caller' = [t \in Threads |->
          IF Waiting(t) /\ \E i \in DOMAIN m_apiResultList' :
                               m_apiResultList'[i].api = caller[t].api
          THEN [caller[t] EXCEPT !.woken = TRUE] ELSE caller[t]]

Silent == UNCHANGED <<m_apiResultList, caller>>

SetChannels(c) == ch' = c /\ shot' = Lost(shot, c)
Unmoved == UNCHANGED <<machine, shot, live, cbq>>

\* startSnapshots and stopSnapshots put their command before those that wait.
Tell(cmd) == cbq' = <<cmd>> \o cbq

\* cancelPicture stops the post-processor, which tells the notifier so.
CancelPicture ==
    /\ shot' = NoShot
    /\ Tell("STOP")
    /\ ch' = IF prm.zsl THEN ch ELSE [ch EXCEPT !["CAPTURE"] = None]
    /\ UNCHANGED live

\* cancelLiveSnapshot joins the last snapshot thread and starts one to cancel.
CancelLiveSnapshot(c) ==
    /\ live = None
    /\ live' = "cancel"
    /\ SetChannels(c)
    /\ UNCHANGED cbq

RecordingStopped(c) == IF c["VIDEO"] = "on" THEN [c EXCEPT !["VIDEO"] = "idle"] ELSE c

\* startRecording starts the video channel that preparePreview added.
RecordingStarted(c) ==
    {[c |-> IF ok THEN [c EXCEPT !["VIDEO"] = "on"] ELSE c, ok |-> ok] :
        ok \in IF c["VIDEO"] = None THEN {FALSE} ELSE MayFail}

\* updateRecordingHintValue, which nobody checks, commits the hint when it can.
Hinted(p, v) == {IF ok THEN [Committed(p) EXCEPT !.hint = v, !.new.hint = v]
                 ELSE [p EXCEPT !.new.hint = v] : ok \in MayFail}

\* preStartRecording and preTakePicture restart the preview when the
\* recording hint is the other one; only the second cleans up after itself.
HintedPreview(e, v, keep) ==
    \/ prm.hint = v /\ Reply(e, TRUE) /\ Unmoved
    \/ /\ prm.hint # v
       /\ \E p \in Hinted(prm, v) : \E r \in Restarted(Unprepared(ch), p, keep) :
             SetChannels(r.c) /\ prm' = r.p /\ Reply(e, r.ok)
       /\ UNCHANGED <<m_state, msg, mPreviewWindow, live, cbq>>

PreStartRecording(e) == HintedPreview(e, TRUE, TRUE)
PreTakePicture(e) == HintedPreview(e, FALSE, FALSE)

\* updateParameters keeps the mode asked for until a commit; the preview must
\* be restarted when it is not the one last asked for.
UpdateParameters(e) == [prm EXCEPT !.new.zsl = e.arg.zsl,
                                   !.needRestart = e.arg.zsl # prm.new.zsl]

CommitParams(e) ==
    /\ e.api = "SET_PARAMS_COMMIT"
    /\ \E ok \in MayFail :
          /\ prm' = IF ok THEN Committed(prm) ELSE prm
          /\ Reply(e, ok)
    /\ UNCHANGED <<m_state, ch, msg, mPreviewWindow, shot, live, cbq>>

\* SET_PARAMS and SET_PARAMS_COMMIT where the preview may be restarted.
SetParams(e) ==
    \/ /\ e.api = "SET_PARAMS"
       /\ prm' = UpdateParameters(e)
       /\ Reply(e, TRUE)
       /\ UNCHANGED <<m_state, ch, msg, mPreviewWindow, shot, live, cbq>>
    \/ CommitParams(e)

\* SET_PARAMS and SET_PARAMS_COMMIT while recording, where no restart can be.
SetParamsRecording(e) ==
    \/ /\ e.api = "SET_PARAMS"
       /\ prm' = [UpdateParameters(e) EXCEPT !.needRestart = FALSE]
       /\ Reply(e, ~UpdateParameters(e).needRestart)
       /\ UNCHANGED <<m_state, ch, msg, mPreviewWindow, shot, live, cbq>>
    \/ CommitParams(e)

(* Mutant: SET_PARAMS_STOP is not answered where nothing has to stop. *)
NothingToRestartUnanswered(e) ==
    \/ e.api = "SET_PARAMS_STOP" /\ Silent /\ Unmoved
    \/ e.api = "SET_PARAMS_RESTART" /\ Reply(e, TRUE) /\ Unmoved

\* SET_PARAMS_RESTART and _STOP where there is no preview to restart.
NothingToRestart(e) ==
    /\ e.api \in {"SET_PARAMS_STOP", "SET_PARAMS_RESTART"}
    /\ prm' = IF e.api = "SET_PARAMS_RESTART" THEN [prm EXCEPT !.needRestart = FALSE]
              ELSE prm
    /\ Reply(e, TRUE)
    /\ UNCHANGED <<m_state, ch, msg, mPreviewWindow, shot, live, cbq>>

\* An event answered with the status alone.
Answer(e, S, ok) == e.api \in S /\ Reply(e, ok) /\ Unmoved

\* ENABLE_MSG_TYPE and DISABLE_MSG_TYPE where they are done at once.
SetMsgType(e) == Answer(e, {"ENABLE_MSG_TYPE", "DISABLE_MSG_TYPE"}, TRUE)

\* An event that moves to a preview that may fail to start; the delayed
\* messages are applied between preparing and starting.
MoveTo(e, R, good, bad, apply) ==
    \E r \in R : /\ m_state' = IF r.ok THEN good ELSE bad
                 /\ SetChannels(r.c)
                 /\ prm' = r.p
                 /\ msg' = IF apply /\ r.prep THEN Applied(msg) ELSE msg
                 /\ Reply(e, r.ok)
-----------------------------------------------------------------------------
(* procEvtPreviewStoppedState                                              *)

PreviewStopped(e) ==
    \/ SetMsgType(e)
    \/ SetParams(e)
    \/ NothingToRestart(e)
    \/ /\ e.api = "SET_PREVIEW_WINDOW"
       /\ mPreviewWindow' = e.arg.win
       /\ Reply(e, TRUE)
       /\ UNCHANGED <<m_state, ch, prm, msg, shot, live, cbq>>
    \/ /\ e.api = "START_PREVIEW"
       /\ IF mPreviewWindow
          THEN MoveTo(e, Restarted(ch, prm, FALSE), "PREVIEWING", m_state, TRUE)
          ELSE MoveTo(e, Prepared(ch, prm), "PREVIEW_READY", m_state, FALSE)
       /\ UNCHANGED <<mPreviewWindow, live, cbq>>
    \/ /\ e.api = "RELEASE"
       /\ SetChannels(Unset)
       /\ Reply(e, TRUE)
       /\ UNCHANGED <<m_state, prm, msg, mPreviewWindow, live, cbq>>
    \/ Answer(e, {"STOP_PREVIEW", "CANCEL_PICTURE"}, TRUE)
    \/ Answer(e, {"PREVIEW_ENABLED", "PRE_START_RECORDING", "START_RECORDING",
                  "STOP_RECORDING", "PREPARE_SNAPSHOT", "PRE_TAKE_PICTURE",
                  "TAKE_PICTURE"}, FALSE)
    \/ e.api = "RELEASE_RECORDING_FRAME" /\ Silent /\ Unmoved

(* procEvtPreviewReadyState: there is no window, and getting one leaves it. *)

PreviewReady(e) ==
    \/ SetMsgType(e)
    \/ SetParams(e)
    \/ /\ e.api = "SET_PREVIEW_WINDOW"
       /\ mPreviewWindow' = e.arg.win
       /\ IF e.arg.win
          THEN /\ \E r \in Started(ch, prm) :
                     /\ m_state' = IF r.ok THEN "PREVIEWING" ELSE "PREVIEW_STOPPED"
                     /\ SetChannels(IF r.ok THEN r.c ELSE Unprepared(r.c))
                     /\ Reply(e, r.ok)
               /\ msg' = Applied(msg)
          ELSE Reply(e, TRUE) /\ UNCHANGED <<m_state, ch, msg, shot>>
       /\ UNCHANGED <<prm, live, cbq>>
    \/ /\ e.api = "SET_PARAMS_STOP"
       /\ SetChannels(Unprepared(ch))
       /\ Reply(e, TRUE)
       /\ UNCHANGED <<m_state, prm, msg, mPreviewWindow, live, cbq>>
    \/ /\ e.api = "SET_PARAMS_RESTART"
       /\ \E r \in Prepared(ch, prm) :
             /\ m_state' = IF r.ok THEN m_state ELSE "PREVIEW_STOPPED"
             /\ SetChannels(r.c)
             /\ prm' = [r.p EXCEPT !.needRestart = FALSE]
             /\ Reply(e, r.ok)
       /\ UNCHANGED <<msg, mPreviewWindow, live, cbq>>
    \/ ~mPreviewWindow /\ Answer(e, {"START_PREVIEW"}, TRUE)
    \/ /\ e.api = "STOP_PREVIEW"
       /\ m_state' = "PREVIEW_STOPPED"
       /\ SetChannels(Unprepared(ch))
       /\ Reply(e, TRUE)
       /\ UNCHANGED <<prm, msg, mPreviewWindow, live, cbq>>
    \/ Answer(e, {"PREVIEW_ENABLED"}, TRUE)
    \/ Answer(e, {"PRE_START_RECORDING", "START_RECORDING", "STOP_RECORDING",
                  "PREPARE_SNAPSHOT", "PRE_TAKE_PICTURE", "TAKE_PICTURE",
                  "CANCEL_PICTURE", "RELEASE"}, FALSE)
    \/ e.api = "RELEASE_RECORDING_FRAME" /\ Silent /\ Unmoved

(* procEvtPreviewingState                                                  *)

\* After a picture of the preview, enabling the preview message waits for
\* the next call that changes what runs.
PreviewingMsgType(e) ==
    /\ \/ /\ e.api = "ENABLE_MSG_TYPE"
          /\ msg' = [msg EXCEPT !.delayed = @ \/ msg.delay]
       \/ /\ e.api = "DISABLE_MSG_TYPE"
          /\ msg' = [delay |-> msg.delay /\ ~msg.delayed, delayed |-> FALSE]
    /\ Reply(e, TRUE)
    /\ UNCHANGED <<m_state, ch, prm, mPreviewWindow, shot, live, cbq>>

\* SET_PARAMS_STOP leaves the state to SET_PARAMS_RESTART.
PreviewingRestart(e) ==
    \/ /\ e.api = "SET_PARAMS_STOP"
       /\ SetChannels(Unprepared(ch))
       /\ Reply(e, TRUE)
       /\ UNCHANGED <<m_state, prm, msg, mPreviewWindow, live, cbq>>
    \/ /\ e.api = "SET_PARAMS_RESTART"
       /\ \E r \in Restarted(ch, prm, FALSE) :
             /\ m_state' = CASE m_state = "PREVIEWING" /\ r.prep /\ ~r.ok -> "PREVIEW_STOPPED"
                             [] m_state = "PREVIEW_PIC_TAKING" /\ ~r.ok -> "PIC_TAKING"
                             [] OTHER -> m_state
             /\ SetChannels(r.c)
             /\ prm' = [r.p EXCEPT !.needRestart = FALSE]
             /\ msg' = IF r.prep THEN Applied(msg) ELSE msg
             /\ Reply(e, r.ok)
       /\ UNCHANGED <<mPreviewWindow, live, cbq>>

\* TAKE_PICTURE drops a recording hint, then takes the picture, of the
\* preview or instead of it; a picture that fails gets the preview back.
PreviewingTakePicture(e) ==
    /\ e.api = "TAKE_PICTURE"
    /\ \E b \in IF prm.hint
                THEN UNION {Restarted(Unprepared(ch), p, FALSE) : p \in Hinted(prm, FALSE)}
                ELSE {[c |-> ch, p |-> prm]} :
       \E r \in TakePicture(b.c, b.p) :
          /\ IF r.sent THEN Tell("START") ELSE UNCHANGED cbq
          /\ \/ /\ b.p.zsl
                /\ m_state' = IF r.ok THEN "PREVIEW_PIC_TAKING" ELSE "PREVIEWING"
                /\ msg' = [msg EXCEPT !.delay = TRUE]
                /\ ch' = r.c
                /\ prm' = r.p
                /\ shot' = IF r.ok THEN [phase |-> "wait", kind |-> "ZSL"] ELSE shot
             \/ /\ ~b.p.zsl
                /\ r.ok
                /\ m_state' = "PIC_TAKING"
                /\ ch' = r.c
                /\ prm' = r.p
                /\ shot' = [phase |-> "wait", kind |-> "CAPTURE"]
                /\ UNCHANGED msg
             \/ /\ ~b.p.zsl
                /\ ~r.ok
                /\ \E q \in Restarted(Unprepared(r.c), r.p, FALSE) :
                      /\ m_state' = IF q.ok THEN "PREVIEWING" ELSE "PREVIEW_STOPPED"
                      /\ SetChannels(q.c)
                      /\ prm' = q.p
                /\ UNCHANGED msg
          /\ Reply(e, r.ok)
    /\ UNCHANGED <<mPreviewWindow, live>>

Previewing(e) ==
    \/ PreviewingMsgType(e)
    \/ SetParams(e)
    \/ PreviewingRestart(e)
    \/ /\ e.api \in {"START_PREVIEW", "PREVIEW_ENABLED"}
       /\ msg' = Applied(msg)
       /\ Reply(e, TRUE)
       /\ UNCHANGED <<m_state, ch, prm, mPreviewWindow, shot, live, cbq>>
    \/ /\ e.api = "STOP_PREVIEW"
       /\ m_state' = "PREVIEW_STOPPED"
       /\ SetChannels(Unprepared(ch))
       /\ msg' = Applied(msg)
       /\ Reply(e, TRUE)
       /\ UNCHANGED <<prm, mPreviewWindow, live, cbq>>
    \/ e.api = "PRE_START_RECORDING" /\ PreStartRecording(e)
    \/ /\ e.api = "START_RECORDING"
       /\ \E r \in RecordingStarted(ch) :
             /\ m_state' = IF r.ok THEN "RECORDING" ELSE m_state
             /\ msg' = IF r.ok THEN Applied(msg) ELSE msg
             /\ SetChannels(r.c)
             /\ Reply(e, r.ok)
       /\ UNCHANGED <<prm, mPreviewWindow, live, cbq>>
    \/ /\ e.api = "PREPARE_SNAPSHOT"
       /\ m_state' = "PREPARE_SNAPSHOT"
       /\ msg' = Applied(msg)
       /\ Silent
       /\ UNCHANGED <<ch, prm, mPreviewWindow, shot, live, cbq>>
    \/ Faulty /\ Answer(e, {"PREPARE_SNAPSHOT"}, FALSE)
    \/ e.api = "PRE_TAKE_PICTURE" /\ PreTakePicture(e)
    \/ PreviewingTakePicture(e)
    \/ Answer(e, {"CANCEL_PICTURE", "STOP_RECORDING"}, TRUE)
    \/ Answer(e, {"SET_PREVIEW_WINDOW", "RELEASE"}, FALSE)
    \/ e.api = "RELEASE_RECORDING_FRAME" /\ Silent /\ Unmoved

(* procEvtPrepareSnapshotState: every call is refused until the camera has *)
(* said that it is ready, which answers the call that asked.               *)

PrepareSnapshot(e) == e.api # "STOP_CAPTURE_CHANNEL" /\ Reply(e, FALSE) /\ Unmoved

(* procEvtPicTakingState                                                   *)

PicTaking(e) ==
    \/ SetMsgType(e)
    \/ SetParams(e)
    \/ NothingToRestart(e)
    \/ /\ e.api \in {"STOP_PREVIEW", "CANCEL_PICTURE"}
       /\ CancelPicture
       /\ m_state' = "PREVIEW_STOPPED"
       /\ Reply(e, TRUE)
       /\ UNCHANGED <<prm, msg, mPreviewWindow>>
    \/ /\ e.api = "STOP_CAPTURE_CHANNEL"
       /\ SetChannels(IF ch["CAPTURE"] = "on" THEN [ch EXCEPT !["CAPTURE"] = "idle"] ELSE ch)
       /\ Reply(e, TRUE)
       /\ UNCHANGED <<m_state, prm, msg, mPreviewWindow, live, cbq>>
    \/ Answer(e, {"SET_PREVIEW_WINDOW", "PREVIEW_ENABLED", "PRE_TAKE_PICTURE",
                  "TAKE_PICTURE", "PREPARE_SNAPSHOT", "PRE_START_RECORDING",
                  "START_RECORDING", "STOP_RECORDING", "RELEASE_RECORDING_FRAME",
                  "START_PREVIEW", "RELEASE"}, FALSE)

(* procEvtRecordingState. The live snapshot is taken by a thread.          *)

Recording(e) ==
    \/ SetMsgType(e)
    \/ SetParamsRecording(e)
    \/ /\ e.api = "TAKE_PICTURE"
       /\ live = None
       /\ m_state' = "VIDEO_PIC_TAKING"
       /\ live' = "take"
       /\ Reply(e, TRUE)
       /\ UNCHANGED <<ch, prm, msg, mPreviewWindow, shot, cbq>>
    \/ /\ e.api = "STOP_RECORDING"
       /\ m_state' = "PREVIEWING"
       /\ SetChannels(RecordingStopped(ch))
       /\ Reply(e, TRUE)
       /\ UNCHANGED <<prm, msg, mPreviewWindow, live, cbq>>
    \/ /\ e.api = "STOP_PREVIEW"
       /\ m_state' = "PREVIEW_STOPPED"
       /\ SetChannels(Unprepared(ch))
       /\ Reply(e, TRUE)
       /\ UNCHANGED <<prm, msg, mPreviewWindow, live, cbq>>
    \/ Answer(e, {"SET_PREVIEW_WINDOW", "START_PREVIEW", "PRE_TAKE_PICTURE",
                  "PRE_START_RECORDING", "START_RECORDING", "PREPARE_SNAPSHOT",
                  "RELEASE_RECORDING_FRAME"}, TRUE)
    \/ Answer(e, {"SET_PARAMS_STOP", "SET_PARAMS_RESTART", "PREVIEW_ENABLED",
                  "CANCEL_PICTURE", "RELEASE"}, FALSE)

(* procEvtVideoPicTakingState                                              *)

VideoPicTaking(e) ==
    \/ SetMsgType(e)
    \/ SetParamsRecording(e)
    \/ /\ e.api \in {"STOP_RECORDING", "CANCEL_PICTURE", "STOP_PREVIEW"}
       /\ \/ /\ e.api = "STOP_RECORDING"
             /\ m_state' = "PREVIEWING"
             /\ CancelLiveSnapshot(RecordingStopped(ch))
          \/ /\ e.api = "CANCEL_PICTURE"
             /\ m_state' = "RECORDING"
             /\ CancelLiveSnapshot(ch)
          \/ /\ e.api = "STOP_PREVIEW"
             /\ m_state' = "PREVIEW_STOPPED"
             /\ CancelLiveSnapshot(Unprepared(ch))
       /\ Reply(e, TRUE)
       /\ UNCHANGED <<prm, msg, mPreviewWindow>>
    \/ Answer(e, {"PREVIEW_ENABLED", "RELEASE_RECORDING_FRAME"}, TRUE)
    \/ Answer(e, {"SET_PARAMS_STOP", "SET_PARAMS_RESTART", "SET_PREVIEW_WINDOW",
                  "PRE_START_RECORDING", "START_RECORDING", "START_PREVIEW",
                  "PREPARE_SNAPSHOT", "PRE_TAKE_PICTURE", "TAKE_PICTURE",
                  "RELEASE"}, FALSE)

(* procEvtPreviewPicTakingState: which kind of picture is being taken is    *)
(* told from the mode in force now.                                         *)

CancelPreviewPicture(c) ==
    IF prm.zsl THEN /\ shot' = NoShot /\ Tell("STOP") /\ ch' = c /\ UNCHANGED live
    ELSE CancelLiveSnapshot(c)

PreviewPicTaking(e) ==
    \/ SetMsgType(e)
    \/ SetParams(e)
    \/ PreviewingRestart(e)
    \/ /\ e.api \in {"CANCEL_PICTURE", "STOP_PREVIEW"}
       /\ \/ /\ e.api = "CANCEL_PICTURE"
             /\ m_state' = "PREVIEWING"
             /\ CancelPreviewPicture(ch)
          \/ /\ e.api = "STOP_PREVIEW"
             /\ m_state' = "PREVIEW_STOPPED"
             /\ CancelPreviewPicture(Unprepared(ch))
       /\ Reply(e, TRUE)
       /\ UNCHANGED <<prm, msg, mPreviewWindow>>
    \/ /\ e.api = "PRE_START_RECORDING"
       /\ ~prm.zsl
       /\ PreStartRecording(e)
    \/ /\ e.api = "START_RECORDING"
       /\ ~prm.zsl
       /\ \E r \in RecordingStarted(ch) :
             /\ m_state' = IF r.ok THEN "VIDEO_PIC_TAKING" ELSE m_state
             /\ SetChannels(r.c)
             /\ Reply(e, r.ok)
       /\ UNCHANGED <<prm, msg, mPreviewWindow, live, cbq>>
    \/ prm.zsl /\ Answer(e, {"PRE_START_RECORDING", "START_RECORDING"}, FALSE)
    \/ Answer(e, {"PREVIEW_ENABLED", "RELEASE_RECORDING_FRAME"}, TRUE)
    \/ Answer(e, {"PREPARE_SNAPSHOT", "PRE_TAKE_PICTURE", "TAKE_PICTURE",
                  "STOP_RECORDING", "START_PREVIEW", "SET_PREVIEW_WINDOW",
                  "RELEASE"}, FALSE)

(* stateMachine: one handler for each state. The end of the capture         *)
(* channel means something only while a picture is taken by it.             *)

Handle(e) ==
    \/ m_state = "PREVIEW_STOPPED" /\ PreviewStopped(e)
    \/ m_state = "PREVIEW_READY" /\ PreviewReady(e)
    \/ m_state = "PREVIEWING" /\ Previewing(e)
    \/ m_state = "PREPARE_SNAPSHOT" /\ PrepareSnapshot(e)
    \/ m_state = "PIC_TAKING" /\ PicTaking(e)
    \/ m_state = "RECORDING" /\ Recording(e)
    \/ m_state = "VIDEO_PIC_TAKING" /\ VideoPicTaking(e)
    \/ m_state = "PREVIEW_PIC_TAKING" /\ PreviewPicTaking(e)
    \/ /\ m_state # "PIC_TAKING" /\ e.api = "STOP_CAPTURE_CHANNEL"
       /\ Silent /\ Unmoved
-----------------------------------------------------------------------------
(* Events of the camera, of the encoder and of the notifier.               *)

\* SNAPSHOT_DONE ends whatever picture is being taken; the notifier, which
\* sleeps until then, goes on.
SnapshotDone ==
    /\ notifier' = "told"
    /\ \/ /\ m_state = "PIC_TAKING"
          /\ m_state' = "PREVIEW_STOPPED"
          /\ CancelPicture
       \/ /\ m_state = "VIDEO_PIC_TAKING"
          /\ m_state' = "RECORDING"
          /\ CancelLiveSnapshot(ch)
       \/ /\ m_state = "PREVIEW_PIC_TAKING"
          /\ m_state' = "PREVIEWING"
          /\ CancelPreviewPicture(ch)
       \/ /\ m_state \notin Taking
          /\ UNCHANGED <<m_state, ch, shot, live, cbq>>
    /\ Silent
    /\ UNCHANGED <<prm, msg, mPreviewWindow>>

(* Mutant: the pictures of a running preview are not passed on. *)
JpegEvtNotifyStoppedOnly ==
    /\ cbq' = IF m_state = "PIC_TAKING" THEN Append(cbq, "JOB") ELSE cbq
    /\ Silent
    /\ UNCHANGED <<machine, shot, live, notifier>>

\* JPEG_EVT_NOTIFY: the picture goes to the notifier, whichever picture it is.
JpegEvtNotify ==
    /\ cbq' = IF m_state \in Taking THEN Append(cbq, "JOB") ELSE cbq
    /\ Silent
    /\ UNCHANGED <<machine, shot, live, notifier>>

\* PREP_SNAPSHOT_DONE answers the call that asked for the preparation.
PrepSnapshotDone ==
    /\ m_state = "PREPARE_SNAPSHOT"
    /\ m_state' = "PREVIEWING"
    /\ \E t \in Threads :
          /\ caller[t].api = "PREPARE_SNAPSHOT"
          /\ Reply([api |-> "PREPARE_SNAPSHOT", from |-> t], TRUE)
    /\ UNCHANGED <<ch, prm, msg, mPreviewWindow, shot, live, cbq, notifier>>

\* Assumed: the notifier takes the commands it was sent before the next event
\* is handled, unless it sleeps until then. (A STOP of one picture and the START
\* of the next, both put at the head of its queue, would be taken in the wrong
\* order, and a late STOP flushes the next picture.)
NotifierIsPrompt == cbq = <<>> \/ notifier = "wait"

\* The state-machine thread: an API call before any event.
SmApi ==
    /\ api_queue # <<>>
    /\ NotifierIsPrompt
    /\ Handle(Head(api_queue))
    /\ api_queue' = Tail(api_queue)
    /\ UNCHANGED <<evt_queue, notifier>>

SmEvt ==
    /\ api_queue = <<>>
    /\ evt_queue # <<>>
    /\ NotifierIsPrompt
    /\ \/ Head(evt_queue) = "SNAPSHOT_DONE" /\ SnapshotDone
       \/ Head(evt_queue) = "JPEG_EVT_NOTIFY" /\ JpegEvtNotify
       \/ Head(evt_queue) = "PREP_SNAPSHOT_DONE" /\ PrepSnapshotDone
    /\ evt_queue' = Tail(evt_queue)
    /\ UNCHANGED api_queue
-----------------------------------------------------------------------------
(* The callers.                                                            *)

NoArg == [zsl |-> FALSE, win |-> FALSE]
Idle == [call |-> None, api |-> None, woken |-> FALSE]

Args(k) == CASE k = "set_parameters" -> [zsl : BOOLEAN, win : {FALSE}]
             [] k = "set_preview_window" -> [zsl : {FALSE}, win : BOOLEAN]
             [] OTHER -> {NoArg}

\* processAPI, then waitAPIResult.
Post(t, call, api, arg) ==
    /\ api_queue' = Append(api_queue, [api |-> api, from |-> t, arg |-> arg])
    /\ caller' = [caller EXCEPT ![t] = [call |-> call, api |-> api, woken |-> FALSE]]

\* The results that no caller waits for.
Orphans == SelectSeq(m_apiResultList,
    LAMBDA r : r.from = "internal" \/ (r.from \in Threads /\ caller[r.from].api # r.api))

\* Two callers are never in the same call: the results do not tell them apart.
Call(t, k) ==
    /\ caller[t] = Idle
    /\ \A u \in Threads : caller[u].call # k
    /\ k = "take_picture" => \A n \in {Len(cbq), Len(evt_queue), Len(Orphans)} : n < MaxPending
    /\ \E api \in FirstEvents[k], arg \in Args(k) : Post(t, k, api, arg)
    /\ UNCHANGED <<machine, evt_queue, m_apiResultList, picture>>

\* What a caller posts next, if anything, when its event was answered with ok.
\* The others' events may be handled in between.
NextEvents(api, ok) ==
    CASE api = "SET_PARAMS" /\ ok /\ prm.needRestart -> {"SET_PARAMS_STOP"}
      [] api \in {"SET_PARAMS", "SET_PARAMS_STOP"} /\ ok -> {"SET_PARAMS_COMMIT"}
      [] api = "SET_PARAMS_COMMIT" /\ ok /\ prm.needRestart -> {"SET_PARAMS_RESTART"}
      [] api = "PRE_START_RECORDING" /\ ok -> {"START_RECORDING"}
      [] api = "PREPARE_SNAPSHOT" -> {"PRE_TAKE_PICTURE"}
      [] api = "PRE_TAKE_PICTURE" /\ ok -> {"TAKE_PICTURE"}
      [] OTHER -> {}

\* waitAPIResult: a woken caller takes the first result of its event.
Wake(t) ==
    /\ caller[t].woken
    /\ LET mine == {i \in DOMAIN m_apiResultList : m_apiResultList[i].api = caller[t].api}
           i == CHOOSE n \in mine : \A k \in mine : n <= k
           next == NextEvents(caller[t].api, m_apiResultList[i].ok)
       IN /\ m_apiResultList' = RemoveAt(m_apiResultList, i)
          /\ \/ /\ next = {}
                /\ caller' = [caller EXCEPT ![t] = Idle]
                /\ UNCHANGED api_queue
             \/ \E api \in next : Post(t, caller[t].call, api, NoArg)
    /\ UNCHANGED <<machine, evt_queue, picture>>
-----------------------------------------------------------------------------
(* The other threads and the camera.                                       *)

\* STOP flushes the data of the pictures; their commands stay and find nothing.
Flushed(cmds) == [i \in DOMAIN cmds |-> IF cmds[i] = "JOB" THEN "EMPTY_JOB" ELSE cmds[i]]

\* cbNotifyRoutine
Notify ==
    /\ cbq # <<>>
    /\ notifier # "wait"
    /\ \/ /\ Head(cbq) = "START"
          /\ notifier' = "active"
          /\ cbq' = Tail(cbq)
          /\ UNCHANGED evt_queue
       \/ /\ Head(cbq) = "STOP"
          /\ notifier' = "idle"
          /\ cbq' = Flushed(Tail(cbq))
          /\ UNCHANGED evt_queue
       \/ /\ Head(cbq) \in {"JOB", "EMPTY_JOB"}
          /\ IF Head(cbq) = "JOB" /\ notifier = "active"
             THEN notifier' = "wait" /\ evt_queue' = Append(evt_queue, "SNAPSHOT_DONE")
             ELSE UNCHANGED <<notifier, evt_queue>>
          /\ cbq' = Tail(cbq)
    /\ UNCHANGED <<machine, api_queue, m_apiResultList, caller, shot, live>>

\* An event that a thread of the HAL posts without waiting for its result.
PostInternal(api) ==
    api_queue' = Append(api_queue, [api |-> api, from |-> "internal", arg |-> NoArg])

\* takeLiveSnapshot_internal; the channel exists while the camera films.
LiveTake ==
    /\ live = "take"
    /\ live' = None
    /\ \/ /\ ch["SNAPSHOT"] # None
          /\ ch' = [ch EXCEPT !["SNAPSHOT"] = "on"]
          /\ shot' = [phase |-> "wait", kind |-> "SNAPSHOT"]
          /\ Tell("START")
          /\ UNCHANGED api_queue
       \/ /\ Faulty
          /\ PostInternal("CANCEL_PICTURE")
          /\ Tell("START")
          /\ UNCHANGED <<ch, shot>>
    /\ UNCHANGED <<m_state, prm, msg, mPreviewWindow, evt_queue, m_apiResultList,
                   caller, notifier>>

\* cancelLiveSnapshot_internal stops the post-processor, whatever it works on.
LiveCancel ==
    /\ live = "cancel"
    /\ live' = None
    /\ shot' = IF shot.kind \in {None, "SNAPSHOT"} THEN NoShot
               ELSE [shot EXCEPT !.phase = "lost"]
    /\ Tell("STOP")
    /\ ch' = IF ch["SNAPSHOT"] = "on" THEN [ch EXCEPT !["SNAPSHOT"] = "idle"] ELSE ch
    /\ UNCHANGED <<m_state, prm, msg, mPreviewWindow, queues, notifier>>

\* The camera delivers the frame of the picture, and the post-processor gives
\* it to the encoder; a capture channel has done its work.
FrameArrives ==
    /\ shot.phase = "wait"
    /\ ch[shot.kind] = "on"
    /\ shot' = [shot EXCEPT !.phase = "encode"]
    /\ IF shot.kind = "CAPTURE" THEN PostInternal("STOP_CAPTURE_CHANNEL")
       ELSE UNCHANGED api_queue
    /\ UNCHANGED <<machine, evt_queue, m_apiResultList, caller, live, cbq, notifier>>

\* jpegEvtHandle
JpegDone ==
    /\ shot.phase = "encode"
    /\ shot' = [shot EXCEPT !.phase = "done"]
    /\ evt_queue' = Append(evt_queue, "JPEG_EVT_NOTIFY")
    /\ UNCHANGED <<machine, api_queue, m_apiResultList, caller, live, cbq, notifier>>

\* The camera says, once, that it is ready for the picture.
PrepDone ==
    /\ m_state = "PREPARE_SNAPSHOT"
    /\ \A i \in DOMAIN evt_queue : evt_queue[i] # "PREP_SNAPSHOT_DONE"
    /\ evt_queue' = Append(evt_queue, "PREP_SNAPSHOT_DONE")
    /\ UNCHANGED <<machine, api_queue, m_apiResultList, caller, picture>>

-----------------------------------------------------------------------------
Init ==
    /\ m_state = "PREVIEW_STOPPED"
    /\ ch = Unset
    /\ prm \in {[zsl |-> z, hint |-> FALSE, new |-> [zsl |-> z, hint |-> FALSE],
                 needRestart |-> FALSE] : z \in BOOLEAN}
    /\ msg = [delay |-> FALSE, delayed |-> FALSE]
    /\ mPreviewWindow \in BOOLEAN
    /\ api_queue = <<>>
    /\ evt_queue = <<>>
    /\ m_apiResultList = <<>>
    /\ caller = [t \in Threads |-> Idle]
    /\ shot = NoShot
    /\ live = None
    /\ cbq = <<>>
    /\ notifier = "idle"

Next ==
    \/ SmApi \/ SmEvt
    \/ \E t \in Threads : (\E k \in Calls[t] : Call(t, k)) \/ Wake(t)
    \/ Notify \/ LiveTake \/ LiveCancel
    \/ FrameArrives \/ JpegDone \/ PrepDone

\* camEvtHandle tells no caller when the daemon has died: it only stops answering.
\* Threads run, and the state-machine thread takes an event when the API queue
\* is empty again and again.
Fairness ==
    /\ WF_vars(SmApi) /\ SF_vars(SmEvt)
    /\ \A t \in Threads : WF_vars(Wake(t))
    /\ WF_vars(Notify) /\ WF_vars(LiveTake \/ LiveCancel)
    /\ WF_vars(JpegDone)
    /\ DaemonDies \/ (WF_vars(FrameArrives) /\ WF_vars(PrepDone))

Spec == Init /\ [][Next]_vars /\ Fairness
-----------------------------------------------------------------------------
Events == (UNION {FirstEvents[k] : k \in DOMAIN FirstEvents}) \cup
          {"SET_PARAMS_STOP", "SET_PARAMS_COMMIT", "SET_PARAMS_RESTART",
           "START_RECORDING", "PRE_TAKE_PICTURE", "TAKE_PICTURE",
           "STOP_CAPTURE_CHANNEL"}
ArgSet == [zsl : BOOLEAN, win : BOOLEAN]
Posters == Threads \cup {"internal"}

\* Every variable keeps its type: the queues hold events, the list results.
TypeOK ==
    /\ m_state \in States
    /\ ch \in [Channels -> {None, "idle", "on"}]
    /\ prm \in [zsl : BOOLEAN, hint : BOOLEAN, new : Modes, needRestart : BOOLEAN]
    /\ msg \in [delay : BOOLEAN, delayed : BOOLEAN]
    /\ mPreviewWindow \in BOOLEAN
    /\ api_queue \in Seq([api : Events, from : Posters, arg : ArgSet])
    /\ evt_queue \in Seq({"SNAPSHOT_DONE", "JPEG_EVT_NOTIFY", "PREP_SNAPSHOT_DONE"})
    /\ m_apiResultList \in Seq([api : Events, from : Posters, ok : BOOLEAN])
    /\ caller \in [Threads -> [call : DOMAIN FirstEvents \cup {None}, api : Events \cup {None},
                               woken : BOOLEAN]]
    /\ shot \in [phase : {None, "wait", "encode", "done", "lost"},
                 kind : {None, "ZSL", "CAPTURE", "SNAPSHOT"}]
    /\ live \in {None, "take", "cancel"}
    /\ cbq \in Seq({"START", "STOP", "JOB", "EMPTY_JOB"})
    /\ notifier \in {"idle", "active", "wait", "told"}

\* How many answers a caller can still get: of its events in the queue, of its
\* results in the list, and of the preparation that it waits for.
Owed(t) ==
    LET posted   == {i \in DOMAIN api_queue : api_queue[i].from = t}
        answered == {i \in DOMAIN m_apiResultList : m_apiResultList[i].from = t}
        prepares == m_state = "PREPARE_SNAPSHOT" /\ caller[t].api = "PREPARE_SNAPSHOT"
                       /\ posted = {} /\ answered = {}
    IN Cardinality(posted) + Cardinality(answered) + IF prepares THEN 1 ELSE 0

\* Whatever the state an event meets, a caller that waits in waitAPIResult is
\* answered exactly once: a second answer would stay in the list and be taken
\* for the answer of a later call, whose event was not handled yet.
OneAnswerPerCall ==
    \A t \in Threads : Owed(t) = IF Waiting(t) THEN 1 ELSE 0

\* In PREVIEW_STOPPED, where the application may close the camera, no channel
\* of a preview was left running, however that state was reached (stop, failed
\* restart, end of a picture).
StoppedMeansOff == m_state = "PREVIEW_STOPPED" => ~PreviewOn(ch)

\* The camera films exactly in the two states that say so.
FilmsWhenItSays == ch["VIDEO"] = "on" <=> m_state \in {"RECORDING", "VIDEO_PIC_TAKING"}

\* What runs in the camera agrees with the state of the state machine.
ChannelsFollowState == StoppedMeansOff /\ FilmsWhenItSays

\* While the state machine says that the preview runs it does, unless a
\* set_parameters that stopped it still owes its restart: set_parameters gives
\* the API lock away between stopping and restarting.
PreviewAgrees ==
    m_state \in {"PREVIEWING", "PREPARE_SNAPSHOT", "PREVIEW_PIC_TAKING"}
        => PreviewOn(ch) \/ prm.needRestart

\* No path of a picture or a restart forgets what waits for it. A preview message
\* to enable still has its delay running, the only thing that can enable it; and
\* the notifier sleeps in processSyncEvt only while its event is queued.
NothingIsForgotten ==
    /\ msg.delayed => msg.delay
    /\ notifier = "wait" <=> \E i \in DOMAIN evt_queue : evt_queue[i] = "SNAPSHOT_DONE"

\* The callers do not keep the API queue filled for ever: events wait for it.
CallsPause == []<>(api_queue = <<>>)

\* Every call returns, except the release of a recording frame, which the
\* states without a recording do not answer.
EveryCallReturns ==
    CallsPause => \A t \in Threads :
        (caller[t].call \notin {None, "release_recording_frame"}) ~> (caller[t].call = None)

\* Taking a picture ends, unless the picture died with its preview (parameters
\* set in the middle of it) or with a live snapshot cancelled late. The JPEG engine does
\* not fail here.
PictureEnds ==
    CallsPause => ((m_state \in Taking /\ shot.phase # "lost")
                       ~> (m_state \notin Taking \/ shot.phase = "lost"))
=============================================================================
