---------------------- MODULE CameraStateMachineProofs ----------------------
(***************************************************************************)
(* Proofs about the camera HAL's state machine, for every set of callers,  *)
(* every choice of their calls, with or without flash, refusals of the     *)
(* camera and the death of its daemon, unless a theorem says otherwise.    *)
(***************************************************************************)
EXTENDS CameraStateMachine, FiniteSetTheorems, WellFoundedInduction, TLAPS

ChannelSet == [Channels -> {None, "idle", "on"}]
ParameterSet == [zsl : BOOLEAN, hint : BOOLEAN, new : Modes, needRestart : BOOLEAN]
EventSet == [api : Events, from : Posters, arg : ArgSet]

Filming(c) == c["VIDEO"] = "on"

\* What any attempt to prepare or start a preview of c in the mode p may leave:
\* it never touches needRestart and never starts to film.
Outcome(c, p, r) ==
    /\ r.c \in ChannelSet /\ r.p \in ParameterSet
    /\ r.ok \in BOOLEAN /\ r.prep \in BOOLEAN
    /\ r.p.needRestart = p.needRestart
    /\ Filming(r.c) => Filming(c)
-----------------------------------------------------------------------------
(* The helpers that compute channels and parameters.                       *)

LEMMA CommittedType ==
    ASSUME NEW p \in ParameterSet
    PROVE  /\ Committed(p) \in ParameterSet
           /\ Committed(p).needRestart = p.needRestart
  BY DEF Committed, ParameterSet, Modes

LEMMA UnpreparedType ==
    ASSUME NEW c \in ChannelSet
    PROVE  /\ Unprepared(c) \in ChannelSet
           /\ ~PreviewOn(Unprepared(c))
           /\ Unprepared(c)["VIDEO"] = None
  BY DEF Unprepared, ChannelSet, PreviewOn, Channels, None

LEMMA WithType ==
    ASSUME NEW c \in ChannelSet, NEW S, NEW v \in {None, "idle"}
    PROVE  /\ With(c, S, v) \in ChannelSet
           /\ Filming(With(c, S, v)) => Filming(c)
           /\ PreviewOn(With(c, S, v)) => PreviewOn(c)
           /\ \A k \in S \cap Channels : With(c, S, v)[k] = v
  BY DEF With, ChannelSet, Filming, PreviewOn, Channels, None

LEMMA PreviewChannelsFact ==
    ASSUME NEW p \in ParameterSet
    PROVE  /\ PreviewChannel(p) \in {"ZSL", "PREVIEW"}
           /\ PreviewChannel(p) \in Range(PreviewChannels(p)) \cap Channels
  <1>1. CASE p.zsl /\ ~p.hint
    BY <1>1 DEF PreviewChannel, PreviewChannels, Range, Channels
  <1>2. CASE p.hint
    <2>1. PreviewChannels(p) = <<"SNAPSHOT", "VIDEO", "PREVIEW">> /\ PreviewChannel(p) = "PREVIEW"
      BY <1>2 DEF PreviewChannel, PreviewChannels
    <2>2. <<"SNAPSHOT", "VIDEO", "PREVIEW">>[3] = "PREVIEW" /\ 3 \in DOMAIN <<"SNAPSHOT", "VIDEO", "PREVIEW">>
      OBVIOUS
    <2> QED
      BY <2>1, <2>2 DEF Range, Channels
  <1>3. CASE ~p.zsl /\ ~p.hint
    BY <1>3 DEF PreviewChannel, PreviewChannels, Range, Channels
  <1> QED
    BY <1>1, <1>2, <1>3

LEMMA PreparedOutcome ==
    ASSUME NEW c \in ChannelSet, NEW p \in ParameterSet, NEW r \in Prepared(c, p)
    PROVE  /\ Outcome(c, p, r)
           /\ PreviewOn(r.c) => PreviewOn(c)
           /\ r.ok => r.c[PreviewChannel(r.p)] = "idle"
           /\ ~Faulty => r.ok
  <1> DEFINE q == Committed(p)
  <1>1. q \in ParameterSet /\ q.needRestart = p.needRestart
    BY CommittedType
  <1>2. \/ r = [c |-> With(c, Range(PreviewChannels(q)), "idle"), p |-> q, ok |-> TRUE, prep |-> TRUE]
        \/ Faulty /\ r = [c |-> c, p |-> p, ok |-> FALSE, prep |-> FALSE]
        \/ /\ Faulty
           /\ \E S : r = [c |-> With(c, S, None), p |-> q, ok |-> FALSE, prep |-> FALSE]
    BY DEF Prepared
  <1> HIDE DEF q
  <1>3. CASE r = [c |-> With(c, Range(PreviewChannels(q)), "idle"), p |-> q, ok |-> TRUE, prep |-> TRUE]
    <2>1. r.c = With(c, Range(PreviewChannels(q)), "idle") /\ r.p = q /\ r.ok /\ r.ok \in BOOLEAN /\ r.prep \in BOOLEAN
      BY <1>3
    <2> QED
      BY <2>1, <1>1, WithType, PreviewChannelsFact DEF Outcome
  <1>4. CASE Faulty /\ r = [c |-> c, p |-> p, ok |-> FALSE, prep |-> FALSE]
    BY <1>4 DEF Outcome
  <1>5. CASE Faulty /\ \E S : r = [c |-> With(c, S, None), p |-> q, ok |-> FALSE, prep |-> FALSE]
    <2>1. PICK S : r = [c |-> With(c, S, None), p |-> q, ok |-> FALSE, prep |-> FALSE]
      BY <1>5
    <2>2. r.c = With(c, S, None) /\ r.p = q /\ r.ok = FALSE /\ r.prep = FALSE
      BY <2>1
    <2> QED
      BY <2>2, <1>5, <1>1, WithType DEF Outcome
  <1> QED
    BY <1>2, <1>3, <1>4, <1>5

LEMMA StartedOutcome ==
    ASSUME NEW c \in ChannelSet, NEW p \in ParameterSet, NEW r \in Started(c, p)
    PROVE  /\ Outcome(c, p, r)
           /\ r.ok => PreviewOn(r.c)
           /\ ~r.ok => r.c = c
           /\ ~Faulty /\ c[PreviewChannel(p)] # None => r.ok
           /\ r.p = p
  <1>1. MayFail \subseteq BOOLEAN /\ (~Faulty => MayFail = {TRUE})
    BY DEF MayFail
  <1>2. PICK ok \in IF c[PreviewChannel(p)] = None THEN {FALSE} ELSE MayFail :
            r = [c |-> IF ok THEN [c EXCEPT ![PreviewChannel(p)] = "on"] ELSE c,
                 p |-> p, ok |-> ok, prep |-> TRUE]
    BY DEF Started
  <1>3. ok \in BOOLEAN /\ (~Faulty /\ c[PreviewChannel(p)] # None => ok)
    BY <1>1, <1>2
  <1>4. r.c = (IF ok THEN [c EXCEPT ![PreviewChannel(p)] = "on"] ELSE c) /\ r.p = p /\ r.ok = ok /\ r.prep = TRUE
    BY <1>2
  <1>5. PreviewChannel(p) \in {"ZSL", "PREVIEW"}
    BY PreviewChannelsFact
  <1>6. ok => r.c \in ChannelSet /\ PreviewOn(r.c) /\ (Filming(r.c) => Filming(c))
    BY <1>4, <1>5 DEF ChannelSet, PreviewOn, Filming, Channels, None
  <1> QED
    BY <1>3, <1>4, <1>6 DEF Outcome

LEMMA RestartedOutcome ==
    ASSUME NEW c \in ChannelSet, NEW p \in ParameterSet, NEW keep, NEW r \in Restarted(c, p, keep)
    PROVE  /\ Outcome(c, p, r)
           /\ r.ok => PreviewOn(r.c)
           /\ ~r.ok => (PreviewOn(r.c) => PreviewOn(c))
           /\ ~Faulty => r.ok
  <1>1. CASE r \in Prepared(c, p) /\ ~r.ok
    BY <1>1, PreparedOutcome
  <1>2. CASE \E q \in Prepared(c, p) : q.ok /\ \E s \in Started(q.c, q.p) :
                 r = IF s.ok \/ keep THEN s ELSE [s EXCEPT !.c = Unprepared(s.c)]
    <2>1. PICK q \in Prepared(c, p) : q.ok /\ \E s \in Started(q.c, q.p) :
                 r = IF s.ok \/ keep THEN s ELSE [s EXCEPT !.c = Unprepared(s.c)]
      BY <1>2
    <2>2. PICK s \in Started(q.c, q.p) : r = IF s.ok \/ keep THEN s ELSE [s EXCEPT !.c = Unprepared(s.c)]
      BY <2>1
    <2>3. Outcome(c, p, q) /\ q.c[PreviewChannel(q.p)] = "idle" /\ (PreviewOn(q.c) => PreviewOn(c))
      BY <2>1, PreparedOutcome
    <2>4. q.c \in ChannelSet /\ q.p \in ParameterSet
      BY <2>3 DEF Outcome
    <2>5. /\ Outcome(q.c, q.p, s) /\ (s.ok => PreviewOn(s.c)) /\ (~s.ok => s.c = q.c)
          /\ (~Faulty => s.ok)
      BY <2>3, <2>4, StartedOutcome DEF None
    <2>6. s.c \in ChannelSet
      BY <2>5 DEF Outcome
    <2>7. Unprepared(s.c) \in ChannelSet /\ ~PreviewOn(Unprepared(s.c)) /\ ~Filming(Unprepared(s.c))
      BY <2>6, UnpreparedType DEF Filming, None
    <2>8. \/ r = s
          \/ /\ ~s.ok /\ r.c = Unprepared(s.c) /\ r.p = s.p /\ r.ok = s.ok /\ r.prep = s.prep
      BY <2>2 DEF Started
    <2> QED
      BY <2>3, <2>5, <2>7, <2>8 DEF Outcome
  <1> QED
    BY <1>1, <1>2 DEF Restarted

LEMMA TakePictureOutcome ==
    ASSUME NEW c \in ChannelSet, NEW p \in ParameterSet, NEW r \in TakePicture(c, p)
    PROVE  /\ r.c \in ChannelSet /\ r.p \in ParameterSet
           /\ r.ok \in BOOLEAN /\ r.sent \in BOOLEAN
           /\ r.p.needRestart = p.needRestart
           /\ Filming(r.c) => Filming(c)
           /\ p.zsl => r.c = c
           /\ ~p.zsl /\ r.ok => ~PreviewOn(r.c) /\ ~Filming(r.c)
           /\ ~p.zsl /\ ~Faulty => r.ok
  <1>1. MayFail \subseteq BOOLEAN
    BY DEF MayFail
  <1>2. /\ Unprepared(c) \in ChannelSet /\ ~PreviewOn(Unprepared(c)) /\ ~Filming(Unprepared(c))
        /\ Committed(p) \in ParameterSet /\ Committed(p).needRestart = p.needRestart
    BY UnpreparedType, CommittedType DEF Filming, None
  <1>3. ASSUME NEW v \in {None, "on"}
        PROVE  LET u == [Unprepared(c) EXCEPT !["CAPTURE"] = v] IN
               u \in ChannelSet /\ ~PreviewOn(u) /\ ~Filming(u)
    <2> DEFINE u == [Unprepared(c) EXCEPT !["CAPTURE"] = v]
    <2>1. u \in ChannelSet /\ \A k \in {"ZSL", "PREVIEW", "VIDEO"} : u[k] = Unprepared(c)[k]
      BY <1>2 DEF ChannelSet, Channels
    <2> QED
      BY <2>1, <1>2 DEF PreviewOn, Filming
  <1>4. CASE p.zsl
    <2>1. PICK ok \in BOOLEAN : r = [c |-> c, p |-> p, ok |-> ok, sent |-> ok]
      BY <1>1, <1>4 DEF TakePicture
    <2> QED
      BY <2>1, <1>4
  <1>5. CASE ~p.zsl
    <2>1. \/ r = [c |-> [Unprepared(c) EXCEPT !["CAPTURE"] = "on"], p |-> Committed(p),
                  ok |-> TRUE, sent |-> TRUE]
          \/ Faulty /\ r = [c |-> c, p |-> p, ok |-> FALSE, sent |-> FALSE]
          \/ Faulty /\ r = [c |-> [Unprepared(c) EXCEPT !["CAPTURE"] = None],
                            p |-> Committed(p), ok |-> FALSE, sent |-> TRUE]
      BY <1>5 DEF TakePicture
    <2>2. CASE r = [c |-> [Unprepared(c) EXCEPT !["CAPTURE"] = "on"], p |-> Committed(p),
                    ok |-> TRUE, sent |-> TRUE]
      <3>1. /\ r.c = [Unprepared(c) EXCEPT !["CAPTURE"] = "on"] /\ r.p = Committed(p)
            /\ r.ok = TRUE /\ r.sent = TRUE
        BY <2>2
      <3> QED
        BY <3>1, <1>2, <1>3, <1>5
    <2>3. CASE Faulty /\ r = [c |-> c, p |-> p, ok |-> FALSE, sent |-> FALSE]
      BY <2>3, <1>5
    <2>4. CASE Faulty /\ r = [c |-> [Unprepared(c) EXCEPT !["CAPTURE"] = None],
                              p |-> Committed(p), ok |-> FALSE, sent |-> TRUE]
      <3>1. /\ r.c = [Unprepared(c) EXCEPT !["CAPTURE"] = None] /\ r.p = Committed(p)
            /\ r.ok = FALSE /\ r.sent = TRUE
        BY <2>4
      <3> QED
        BY <3>1, <2>4, <1>2, <1>3, <1>5
    <2> QED
      BY <2>1, <2>2, <2>3, <2>4
  <1> QED
    BY <1>4, <1>5 DEF ParameterSet

LEMMA RecordingStartedOutcome ==
    ASSUME NEW c \in ChannelSet, NEW r \in RecordingStarted(c)
    PROVE  /\ r.c \in ChannelSet /\ r.ok \in BOOLEAN
           /\ r.ok => Filming(r.c) /\ c["VIDEO"] # None
           /\ ~r.ok => r.c = c
           /\ PreviewOn(r.c) <=> PreviewOn(c)
  <1>1. MayFail \subseteq BOOLEAN
    BY DEF MayFail
  <1>2. PICK ok \in BOOLEAN : /\ r = [c |-> IF ok THEN [c EXCEPT !["VIDEO"] = "on"] ELSE c, ok |-> ok]
                              /\ ok => c["VIDEO"] # None
    BY <1>1 DEF RecordingStarted
  <1>3. r.c = (IF ok THEN [c EXCEPT !["VIDEO"] = "on"] ELSE c) /\ r.ok = ok
    BY <1>2
  <1>4. ok => r.c \in ChannelSet /\ r.c["VIDEO"] = "on" /\ r.c["ZSL"] = c["ZSL"] /\ r.c["PREVIEW"] = c["PREVIEW"]
    BY <1>3 DEF ChannelSet, Channels, None
  <1> QED
    BY <1>2, <1>3, <1>4 DEF Filming, PreviewOn

LEMMA RecordingStoppedOutcome ==
    ASSUME NEW c \in ChannelSet
    PROVE  /\ RecordingStopped(c) \in ChannelSet
           /\ ~Filming(RecordingStopped(c))
           /\ PreviewOn(RecordingStopped(c)) <=> PreviewOn(c)
  BY DEF RecordingStopped, ChannelSet, Filming, PreviewOn, Channels, None

LEMMA HintedType ==
    ASSUME NEW p \in ParameterSet, NEW v \in BOOLEAN, NEW q \in Hinted(p, v)
    PROVE  q \in ParameterSet /\ q.needRestart = p.needRestart
  <1>1. Committed(p) \in ParameterSet /\ Committed(p).needRestart = p.needRestart
    BY CommittedType
  <1>2. ASSUME NEW x \in ParameterSet
        PROVE  [x EXCEPT !.new.hint = v] \in ParameterSet /\ [x EXCEPT !.new.hint = v].needRestart = x.needRestart
    <2>1. [x.new EXCEPT !.hint = v] \in Modes
      BY DEF ParameterSet, Modes
    <2> QED
      BY <2>1 DEF ParameterSet
  <1>3. ASSUME NEW x \in ParameterSet
        PROVE  [x EXCEPT !.hint = v] \in ParameterSet /\ [x EXCEPT !.hint = v].needRestart = x.needRestart
    BY DEF ParameterSet
  <1>4. \/ q = [[Committed(p) EXCEPT !.hint = v] EXCEPT !.new.hint = v]
        \/ q = [p EXCEPT !.new.hint = v]
    BY DEF Hinted
  <1> QED
    BY <1>1, <1>2, <1>3, <1>4
-----------------------------------------------------------------------------
(* What every step keeps of the state machine and of what it drives.       *)

MessageSet == [delay : BOOLEAN, delayed : BOOLEAN]
ShotSet == [phase : {None, "wait", "encode", "done", "lost"},
            kind : {None, "ZSL", "CAPTURE", "SNAPSHOT"}]
CommandSet == {"START", "STOP", "JOB", "EMPTY_JOB"}

MachineTypes ==
    /\ m_state \in States /\ ch \in ChannelSet /\ prm \in ParameterSet
    /\ msg \in MessageSet /\ mPreviewWindow \in BOOLEAN
    /\ shot \in ShotSet /\ live \in {None, "take", "cancel"}
    /\ cbq \in Seq(CommandSet)

\* The states without a preview.
Stopped == {"PREVIEW_STOPPED", "PREVIEW_READY", "PIC_TAKING"}
Shown == {"PREVIEWING", "PREPARE_SNAPSHOT", "PREVIEW_PIC_TAKING"}

\* Of a camera that refuses nothing: there is no preview in the states without
\* one, and the video channel lives only beside a running preview.
Healthy ==
    /\ m_state \in Stopped => ~PreviewOn(ch)
    /\ ch["VIDEO"] # None /\ m_state # "PREVIEW_READY" => PreviewOn(ch)

MachineOK ==
    /\ MachineTypes
    /\ FilmsWhenItSays
    /\ msg.delayed => msg.delay
    /\ ~Faulty => Healthy

\* Of a camera that refuses nothing: a state that shows a preview gets to have
\* none by SET_PARAMS_STOP alone, and SET_PARAMS_RESTART brings it back unless
\* the flash is being prepared.
PreviewRule(e) ==
    /\ ~Faulty /\ m_state' \in Shown /\ ~PreviewOn(ch')
         => \/ e.api = "SET_PARAMS_STOP" /\ m_state' = m_state
            \/ /\ m_state \in Shown /\ ~PreviewOn(ch)
               /\ e.api = "SET_PARAMS_RESTART" => m_state = "PREPARE_SNAPSHOT"
    /\ e.api \notin {"SET_PARAMS", "SET_PARAMS_RESTART"} => prm'.needRestart = prm.needRestart

LEMMA AppliedType ==
    ASSUME NEW m \in MessageSet, m.delayed => m.delay
    PROVE  Applied(m) \in MessageSet /\ (Applied(m).delayed => Applied(m).delay)
  BY DEF Applied, MessageSet

LEMMA SetChannelsType ==
    ASSUME NEW c, SetChannels(c), shot \in ShotSet
    PROVE  ch' = c /\ shot' \in ShotSet
  BY DEF SetChannels, Lost, ShotSet, None

LEMMA TellType ==
    ASSUME NEW cmd \in CommandSet, Tell(cmd), cbq \in Seq(CommandSet)
    PROVE  cbq' \in Seq(CommandSet)
  BY DEF Tell

LEMMA UnmovedKeeps ==
    ASSUME MachineOK, NEW e \in EventSet, Unmoved,
           e.api = "SET_PARAMS_RESTART" => m_state \notin {"PREVIEWING", "PREVIEW_PIC_TAKING"}
    PROVE  MachineOK' /\ PreviewRule(e)
  <1>1. UNCHANGED <<m_state, ch, prm, msg, mPreviewWindow, shot, live, cbq>>
    BY DEF Unmoved, machine
  <1>2. MachineOK'
    BY <1>1 DEF MachineOK, MachineTypes, FilmsWhenItSays, Healthy
  <1>3. PreviewRule(e)
    BY <1>1 DEF PreviewRule, Shown
  <1> QED
    BY <1>2, <1>3

LEMMA ParametersOnly ==
    ASSUME MachineOK, NEW e \in EventSet, prm' \in ParameterSet,
           UNCHANGED <<m_state, ch, msg, mPreviewWindow, shot, live, cbq>>,
           e.api = "SET_PARAMS_RESTART" => m_state \notin {"PREVIEWING", "PREVIEW_PIC_TAKING"},
           e.api \notin {"SET_PARAMS", "SET_PARAMS_RESTART"} => prm'.needRestart = prm.needRestart
    PROVE  MachineOK' /\ PreviewRule(e)
  <1>1. MachineOK'
    BY DEF MachineOK, MachineTypes, FilmsWhenItSays, Healthy
  <1>2. PreviewRule(e)
    BY DEF PreviewRule, Shown
  <1> QED
    BY <1>1, <1>2

LEMMA UpdateParametersType ==
    ASSUME prm \in ParameterSet, NEW e \in EventSet
    PROVE  /\ UpdateParameters(e) \in ParameterSet
           /\ [UpdateParameters(e) EXCEPT !.needRestart = FALSE] \in ParameterSet
           /\ UpdateParameters(e).needRestart \in BOOLEAN
  <1> DEFINE n == e.arg.zsl # prm.new.zsl
  <1>1. e.arg.zsl \in BOOLEAN
    BY DEF EventSet, ArgSet
  <1>2. [prm EXCEPT !.new.zsl = e.arg.zsl] \in ParameterSet
    <2>1. [prm.new EXCEPT !.zsl = e.arg.zsl] \in Modes
      BY <1>1 DEF ParameterSet, Modes
    <2> QED
      BY <2>1 DEF ParameterSet
  <1>3. n \in BOOLEAN
    OBVIOUS
  <1>4. UpdateParameters(e) = [[prm EXCEPT !.new.zsl = e.arg.zsl] EXCEPT !.needRestart = n]
    BY DEF UpdateParameters
  <1> HIDE DEF n
  <1> QED
    BY <1>2, <1>3, <1>4 DEF ParameterSet

LEMMA CommitParamsKeeps ==
    ASSUME MachineOK, NEW e \in EventSet, CommitParams(e)
    PROVE  MachineOK' /\ PreviewRule(e)
  <1>1. prm \in ParameterSet
    BY DEF MachineOK, MachineTypes
  <1>2. /\ e.api = "SET_PARAMS_COMMIT"
        /\ prm' \in {prm, Committed(prm)}
        /\ UNCHANGED <<m_state, ch, msg, mPreviewWindow, shot, live, cbq>>
    BY DEF CommitParams
  <1>3. prm' \in ParameterSet /\ prm'.needRestart = prm.needRestart
    BY <1>1, <1>2, CommittedType
  <1> QED
    BY <1>2, <1>3, ParametersOnly

LEMMA SetParamsKeeps ==
    ASSUME MachineOK, NEW e \in EventSet, SetParams(e) \/ SetParamsRecording(e)
    PROVE  MachineOK' /\ PreviewRule(e)
  <1>1. CASE CommitParams(e)
    BY <1>1, CommitParamsKeeps
  <1>2. CASE /\ e.api = "SET_PARAMS"
             /\ prm' \in {UpdateParameters(e), [UpdateParameters(e) EXCEPT !.needRestart = FALSE]}
             /\ UNCHANGED <<m_state, ch, msg, mPreviewWindow, shot, live, cbq>>
    <2>1. prm \in ParameterSet
      BY DEF MachineOK, MachineTypes
    <2>2. prm' \in ParameterSet
      BY <1>2, <2>1, UpdateParametersType
    <2> QED
      BY <1>2, <2>2, ParametersOnly
  <1> QED
    BY <1>1, <1>2 DEF SetParams, SetParamsRecording

LEMMA NothingToRestartKeeps ==
    ASSUME MachineOK, NEW e \in EventSet, NothingToRestart(e),
           m_state \notin {"PREVIEWING", "PREVIEW_PIC_TAKING"}
    PROVE  MachineOK' /\ PreviewRule(e)
  <1>1. prm \in ParameterSet
    BY DEF MachineOK, MachineTypes
  <1>2. [prm EXCEPT !.needRestart = FALSE] \in ParameterSet
    BY <1>1 DEF ParameterSet
  <1>3. /\ prm' \in ParameterSet
        /\ e.api \notin {"SET_PARAMS", "SET_PARAMS_RESTART"} => prm'.needRestart = prm.needRestart
        /\ UNCHANGED <<m_state, ch, msg, mPreviewWindow, shot, live, cbq>>
    BY <1>1, <1>2 DEF NothingToRestart
  <1> QED
    BY <1>3, ParametersOnly

\* The shape of most handlers: a new state, new channels and parameters, and a
\* message delayed, applied or as it was.
LEMMA ChangedKeeps ==
    ASSUME MachineOK, NEW e \in EventSet,
           m_state' \in States, ch' \in ChannelSet, prm' \in ParameterSet,
           msg' \in MessageSet, msg'.delayed => msg'.delay,
           mPreviewWindow' \in BOOLEAN, shot' \in ShotSet,
           live' \in {None, "take", "cancel"}, cbq' \in Seq(CommandSet),
           Filming(ch') <=> m_state' \in {"RECORDING", "VIDEO_PIC_TAKING"},
           ~Faulty => Healthy', PreviewRule(e)
    PROVE  MachineOK' /\ PreviewRule(e)
  BY DEF MachineOK, MachineTypes, FilmsWhenItSays, Filming

LEMMA PreviewStoppedKeeps ==
    ASSUME MachineOK, NEW e \in EventSet, m_state = "PREVIEW_STOPPED", PreviewStopped(e)
    PROVE  MachineOK' /\ PreviewRule(e)
  <1> USE DEF MachineOK, MachineTypes
  <1>0. ~Filming(ch) /\ (~Faulty => ~PreviewOn(ch) /\ ch["VIDEO"] = None)
    BY DEF Filming, FilmsWhenItSays, Healthy, Stopped
  <1>1. CASE SetMsgType(e) \/ Unmoved
    BY <1>1, UnmovedKeeps DEF SetMsgType, Answer
  <1>2. CASE SetParams(e)
    BY <1>2, SetParamsKeeps
  <1>3. CASE NothingToRestart(e)
    BY <1>3, NothingToRestartKeeps
  <1>4. CASE e.api = "SET_PREVIEW_WINDOW" /\ mPreviewWindow' = e.arg.win
             /\ UNCHANGED <<m_state, ch, prm, msg, shot, live, cbq>>
    <2>1. e.arg.win \in BOOLEAN
      BY DEF EventSet, ArgSet
    <2>2. Healthy => Healthy'
      BY <1>4 DEF Healthy
    <2> QED
      BY <1>0, <1>4, <2>1, <2>2, ChangedKeeps DEF PreviewRule, Shown
  <1>5. CASE /\ e.api = "START_PREVIEW"
             /\ mPreviewWindow
             /\ MoveTo(e, Restarted(ch, prm, FALSE), "PREVIEWING", m_state, TRUE)
             /\ UNCHANGED <<mPreviewWindow, live, cbq>>
    <2>1. PICK r \in Restarted(ch, prm, FALSE) :
                 /\ m_state' = IF r.ok THEN "PREVIEWING" ELSE m_state
                 /\ SetChannels(r.c) /\ prm' = r.p
                 /\ msg' = IF r.prep THEN Applied(msg) ELSE msg
      BY <1>5 DEF MoveTo
    <2>2. /\ Outcome(ch, prm, r)
          /\ r.ok => PreviewOn(r.c)
          /\ ~Faulty => r.ok
      BY RestartedOutcome
    <2>3. ch' = r.c /\ shot' \in ShotSet
      BY <2>1, SetChannelsType
    <2>4. msg' \in MessageSet /\ (msg'.delayed => msg'.delay)
      BY <2>1, AppliedType
    <2>5. m_state' \in {"PREVIEWING", "PREVIEW_STOPPED"} /\ (~Faulty => m_state' = "PREVIEWING" /\ PreviewOn(ch'))
      BY <2>1, <2>2, <2>3
    <2>6. ~Faulty => Healthy'
      BY <2>5 DEF Healthy, Stopped
    <2>7. PreviewRule(e)
      BY <2>1, <2>2, <2>5 DEF PreviewRule, Outcome
    <2> QED
      BY <1>0, <1>5, <2>1, <2>2, <2>3, <2>4, <2>5, <2>6, <2>7, ChangedKeeps DEF Outcome, States
  <1>6. CASE /\ e.api = "START_PREVIEW"
             /\ MoveTo(e, Prepared(ch, prm), "PREVIEW_READY", m_state, FALSE)
             /\ UNCHANGED <<mPreviewWindow, live, cbq>>
    <2>1. PICK r \in Prepared(ch, prm) :
                 /\ m_state' = IF r.ok THEN "PREVIEW_READY" ELSE m_state
                 /\ SetChannels(r.c) /\ prm' = r.p /\ msg' = msg
      BY <1>6 DEF MoveTo
    <2>2. /\ Outcome(ch, prm, r)
          /\ PreviewOn(r.c) => PreviewOn(ch)
          /\ ~Faulty => r.ok
      BY PreparedOutcome
    <2>3. ch' = r.c /\ shot' \in ShotSet
      BY <2>1, SetChannelsType
    <2>5. /\ m_state' \in {"PREVIEW_READY", "PREVIEW_STOPPED"}
          /\ ~Faulty => m_state' = "PREVIEW_READY" /\ ~PreviewOn(ch')
      BY <1>0, <2>1, <2>2, <2>3
    <2>6. ~Faulty => Healthy'
      BY <2>5 DEF Healthy, Stopped
    <2>7. PreviewRule(e)
      BY <2>1, <2>2, <2>5 DEF PreviewRule, Outcome, Shown
    <2> QED
      BY <1>0, <1>6, <2>1, <2>2, <2>3, <2>5, <2>6, <2>7, ChangedKeeps DEF Outcome, States
  <1>7. CASE /\ e.api = "RELEASE" /\ SetChannels(Unset)
             /\ UNCHANGED <<m_state, prm, msg, mPreviewWindow, live, cbq>>
    <2>1. ch' = Unset /\ shot' \in ShotSet
      BY <1>7, SetChannelsType
    <2>2. Unset \in ChannelSet /\ ~Filming(Unset) /\ ~PreviewOn(Unset) /\ Unset["VIDEO"] = None
      BY DEF Unset, ChannelSet, Filming, PreviewOn, Channels, None
    <2>3. Healthy'
      BY <2>1, <2>2 DEF Healthy
    <2> QED
      BY <1>7, <2>1, <2>2, <2>3, ChangedKeeps DEF PreviewRule, Shown
  <1> QED
    BY <1>1, <1>2, <1>3, <1>4, <1>5, <1>6, <1>7 DEF PreviewStopped, Answer

LEMMA PreviewReadyKeeps ==
    ASSUME MachineOK, NEW e \in EventSet, m_state = "PREVIEW_READY", PreviewReady(e)
    PROVE  MachineOK' /\ PreviewRule(e)
  <1> USE DEF MachineOK, MachineTypes
  <1>0. ~Filming(ch) /\ (~Faulty => ~PreviewOn(ch))
    BY DEF Filming, FilmsWhenItSays, Healthy, Stopped
  <1>1. CASE SetMsgType(e) \/ Unmoved
    BY <1>1, UnmovedKeeps DEF SetMsgType, Answer
  <1>2. CASE SetParams(e)
    BY <1>2, SetParamsKeeps
  <1>3. CASE /\ e.api = "SET_PREVIEW_WINDOW"
             /\ mPreviewWindow' = e.arg.win
             /\ \E r \in Started(ch, prm) :
                     /\ m_state' = IF r.ok THEN "PREVIEWING" ELSE "PREVIEW_STOPPED"
                     /\ SetChannels(IF r.ok THEN r.c ELSE Unprepared(r.c))
             /\ msg' = Applied(msg)
             /\ UNCHANGED <<prm, live, cbq>>
    <2>1. PICK r \in Started(ch, prm) :
                     /\ m_state' = IF r.ok THEN "PREVIEWING" ELSE "PREVIEW_STOPPED"
                     /\ SetChannels(IF r.ok THEN r.c ELSE Unprepared(r.c))
      BY <1>3
    <2>2. Outcome(ch, prm, r) /\ (r.ok => PreviewOn(r.c))
      BY StartedOutcome
    <2>3. r.c \in ChannelSet /\ r.ok \in BOOLEAN /\ (Filming(r.c) => Filming(ch))
      BY <2>2 DEF Outcome
    <2>4. ch' = (IF r.ok THEN r.c ELSE Unprepared(r.c)) /\ shot' \in ShotSet
      BY <2>1, SetChannelsType
    <2>5. ch' \in ChannelSet /\ ~Filming(ch')
      BY <1>0, <2>3, <2>4, UnpreparedType DEF Filming, None
    <2>6. \/ m_state' = "PREVIEWING" /\ PreviewOn(ch')
          \/ m_state' = "PREVIEW_STOPPED" /\ ~PreviewOn(ch') /\ ch'["VIDEO"] = None
      BY <2>1, <2>2, <2>3, <2>4, UnpreparedType
    <2>7. Healthy'
      BY <2>6 DEF Healthy, Stopped
    <2>8. PreviewRule(e)
      BY <1>3, <2>6 DEF PreviewRule, Shown
    <2>9. msg' \in MessageSet /\ (msg'.delayed => msg'.delay)
      BY <1>3, AppliedType
    <2>10. e.arg.win \in BOOLEAN
      BY DEF EventSet, ArgSet
    <2> QED
      BY <1>3, <2>4, <2>5, <2>6, <2>7, <2>8, <2>9, <2>10, ChangedKeeps DEF States
  <1>4. CASE /\ e.api = "SET_PREVIEW_WINDOW" /\ mPreviewWindow' = e.arg.win
             /\ UNCHANGED <<m_state, ch, msg, shot, prm, live, cbq>>
    <2>1. e.arg.win \in BOOLEAN
      BY DEF EventSet, ArgSet
    <2>2. Healthy => Healthy'
      BY <1>4 DEF Healthy
    <2> QED
      BY <1>0, <1>4, <2>1, <2>2, ChangedKeeps DEF PreviewRule, Shown
  <1>5. CASE /\ e.api \in {"SET_PARAMS_STOP", "STOP_PREVIEW"}
             /\ m_state' \in {"PREVIEW_READY", "PREVIEW_STOPPED"}
             /\ SetChannels(Unprepared(ch))
             /\ UNCHANGED <<prm, msg, mPreviewWindow, live, cbq>>
    <2>1. ch' = Unprepared(ch) /\ shot' \in ShotSet
      BY <1>5, SetChannelsType
    <2>2. ch' \in ChannelSet /\ ~Filming(ch') /\ ~PreviewOn(ch') /\ ch'["VIDEO"] = None
      BY <2>1, UnpreparedType DEF Filming, None
    <2>3. Healthy'
      BY <2>2 DEF Healthy
    <2> QED
      BY <1>5, <2>1, <2>2, <2>3, ChangedKeeps DEF PreviewRule, Shown, States
  <1>6. CASE /\ e.api = "SET_PARAMS_RESTART"
             /\ \E r \in Prepared(ch, prm) :
                   /\ m_state' = IF r.ok THEN m_state ELSE "PREVIEW_STOPPED"
                   /\ SetChannels(r.c)
                   /\ prm' = [r.p EXCEPT !.needRestart = FALSE]
             /\ UNCHANGED <<msg, mPreviewWindow, live, cbq>>
    <2>1. PICK r \in Prepared(ch, prm) :
                   /\ m_state' = IF r.ok THEN m_state ELSE "PREVIEW_STOPPED"
                   /\ SetChannels(r.c)
                   /\ prm' = [r.p EXCEPT !.needRestart = FALSE]
      BY <1>6
    <2>2. Outcome(ch, prm, r) /\ (PreviewOn(r.c) => PreviewOn(ch)) /\ (~Faulty => r.ok)
      BY PreparedOutcome
    <2>3. r.p \in ParameterSet /\ r.c \in ChannelSet /\ (Filming(r.c) => Filming(ch)) /\ r.ok \in BOOLEAN
      BY <2>2 DEF Outcome
    <2>4. prm' \in ParameterSet
      BY <2>1, <2>3 DEF ParameterSet
    <2>5. ch' = r.c /\ shot' \in ShotSet
      BY <2>1, SetChannelsType
    <2>6. m_state' \in {"PREVIEW_READY", "PREVIEW_STOPPED"} /\ (~Faulty => m_state' = "PREVIEW_READY" /\ ~PreviewOn(ch'))
      BY <1>0, <2>1, <2>2, <2>5
    <2>7. ~Faulty => Healthy'
      BY <2>6 DEF Healthy
    <2> QED
      BY <1>0, <1>6, <2>3, <2>4, <2>5, <2>6, <2>7, ChangedKeeps DEF PreviewRule, Shown, States
  <1> QED
    BY <1>1, <1>2, <1>3, <1>4, <1>5, <1>6 DEF PreviewReady, Answer

\* The preview that preStartRecording and preTakePicture restart.
LEMMA HintedPreviewKeeps ==
    ASSUME MachineOK, NEW e \in EventSet, NEW v \in BOOLEAN, NEW keep \in BOOLEAN,
           HintedPreview(e, v, keep),
           m_state \in {"PREVIEWING", "PREVIEW_PIC_TAKING"}, e.api # "SET_PARAMS_RESTART"
    PROVE  MachineOK' /\ PreviewRule(e)
  <1> USE DEF MachineOK, MachineTypes
  <1>0. ~Filming(ch)
    BY DEF Filming, FilmsWhenItSays
  <1>1. CASE Unmoved
    BY <1>1, UnmovedKeeps
  <1>2. CASE /\ \E p \in Hinted(prm, v) : \E r \in Restarted(Unprepared(ch), p, keep) :
                   SetChannels(r.c) /\ prm' = r.p
             /\ UNCHANGED <<m_state, msg, mPreviewWindow, live, cbq>>
    <2>0. PICK p \in Hinted(prm, v) : \E r \in Restarted(Unprepared(ch), p, keep) :
              SetChannels(r.c) /\ prm' = r.p
      BY <1>2
    <2>1. PICK r \in Restarted(Unprepared(ch), p, keep) : SetChannels(r.c) /\ prm' = r.p
      BY <2>0
    <2>2. p \in ParameterSet /\ p.needRestart = prm.needRestart
      BY HintedType
    <2>3. Unprepared(ch) \in ChannelSet /\ ~Filming(Unprepared(ch))
      BY UnpreparedType DEF Filming, None
    <2>4. Outcome(Unprepared(ch), p, r) /\ (r.ok => PreviewOn(r.c)) /\ (~Faulty => r.ok)
      BY <2>2, <2>3, RestartedOutcome
    <2>5. ch' = r.c /\ shot' \in ShotSet
      BY <2>1, SetChannelsType
    <2>6. /\ ch' \in ChannelSet /\ prm' \in ParameterSet /\ ~Filming(ch')
          /\ prm'.needRestart = prm.needRestart
      BY <2>1, <2>2, <2>3, <2>4, <2>5 DEF Outcome
    <2>7. ~Faulty => PreviewOn(ch')
      BY <2>4, <2>5
    <2>8. ~Faulty => Healthy'
      BY <1>2, <2>7 DEF Healthy, Stopped
    <2>9. PreviewRule(e)
      BY <2>6, <2>7 DEF PreviewRule
    <2> QED
      BY <1>2, <2>5, <2>6, <2>8, <2>9, ChangedKeeps
  <1> QED
    BY <1>1, <1>2 DEF HintedPreview

LEMMA PreviewingRestartKeeps ==
    ASSUME MachineOK, NEW e \in EventSet, PreviewingRestart(e),
           m_state \in {"PREVIEWING", "PREVIEW_PIC_TAKING"}
    PROVE  MachineOK' /\ PreviewRule(e)
  <1> USE DEF MachineOK, MachineTypes
  <1>0. ~Filming(ch)
    BY DEF Filming, FilmsWhenItSays
  <1>1. CASE /\ e.api = "SET_PARAMS_STOP" /\ SetChannels(Unprepared(ch))
             /\ UNCHANGED <<m_state, prm, msg, mPreviewWindow, live, cbq>>
    <2>1. ch' = Unprepared(ch) /\ shot' \in ShotSet
      BY <1>1, SetChannelsType
    <2>2. ch' \in ChannelSet /\ ~Filming(ch') /\ ~PreviewOn(ch') /\ ch'["VIDEO"] = None
      BY <2>1, UnpreparedType DEF Filming, None
    <2>3. Healthy'
      BY <2>2 DEF Healthy
    <2> QED
      BY <1>1, <2>1, <2>2, <2>3, ChangedKeeps DEF PreviewRule
  <1>2. CASE /\ e.api = "SET_PARAMS_RESTART"
             /\ \E r \in Restarted(ch, prm, FALSE) :
                   /\ m_state' = CASE m_state = "PREVIEWING" /\ r.prep /\ ~r.ok -> "PREVIEW_STOPPED"
                                   [] m_state = "PREVIEW_PIC_TAKING" /\ ~r.ok -> "PIC_TAKING"
                                   [] OTHER -> m_state
                   /\ SetChannels(r.c)
                   /\ prm' = [r.p EXCEPT !.needRestart = FALSE]
                   /\ msg' = IF r.prep THEN Applied(msg) ELSE msg
             /\ UNCHANGED <<mPreviewWindow, live, cbq>>
    <2>1. PICK r \in Restarted(ch, prm, FALSE) :
              /\ m_state' = CASE m_state = "PREVIEWING" /\ r.prep /\ ~r.ok -> "PREVIEW_STOPPED"
                              [] m_state = "PREVIEW_PIC_TAKING" /\ ~r.ok -> "PIC_TAKING"
                              [] OTHER -> m_state
              /\ SetChannels(r.c)
              /\ prm' = [r.p EXCEPT !.needRestart = FALSE]
              /\ msg' = IF r.prep THEN Applied(msg) ELSE msg
      BY <1>2
    <2>2. Outcome(ch, prm, r) /\ (r.ok => PreviewOn(r.c)) /\ (~Faulty => r.ok)
      BY RestartedOutcome
    <2>3. /\ r.p \in ParameterSet /\ r.c \in ChannelSet /\ (Filming(r.c) => Filming(ch))
          /\ r.ok \in BOOLEAN /\ r.prep \in BOOLEAN
      BY <2>2 DEF Outcome
    <2>4. prm' \in ParameterSet
      BY <2>1, <2>3 DEF ParameterSet
    <2>5. ch' = r.c /\ shot' \in ShotSet
      BY <2>1, SetChannelsType
    <2>6. /\ m_state' \in {"PREVIEWING", "PREVIEW_PIC_TAKING", "PREVIEW_STOPPED", "PIC_TAKING"}
          /\ ~Faulty => m_state' = m_state
      BY <2>1, <2>2, <2>3
    <2>7. ~Faulty => PreviewOn(ch')
      BY <2>2, <2>5
    <2>8. ~Faulty => Healthy'
      BY <2>6, <2>7 DEF Healthy, Stopped
    <2>9. msg' \in MessageSet /\ (msg'.delayed => msg'.delay)
      BY <2>1, AppliedType
    <2>10. PreviewRule(e)
      BY <1>2, <2>7 DEF PreviewRule
    <2> QED
      BY <1>0, <1>2, <2>3, <2>4, <2>5, <2>6, <2>8, <2>9, <2>10, ChangedKeeps DEF States
  <1> QED
    BY <1>1, <1>2 DEF PreviewingRestart

LEMMA PreviewingTakePictureKeeps ==
    ASSUME MachineOK, NEW e \in EventSet, m_state = "PREVIEWING", PreviewingTakePicture(e)
    PROVE  MachineOK' /\ PreviewRule(e)
  <1> USE DEF MachineOK, MachineTypes
  <1> DEFINE B == IF prm.hint
                  THEN UNION {Restarted(Unprepared(ch), p, FALSE) : p \in Hinted(prm, FALSE)}
                  ELSE {[c |-> ch, p |-> prm]}
             Chosen(b, r) ==
                /\ IF r.sent THEN Tell("START") ELSE UNCHANGED cbq
                /\ \/ /\ b.p.zsl
                      /\ m_state' = IF r.ok THEN "PREVIEW_PIC_TAKING" ELSE "PREVIEWING"
                      /\ msg' = [msg EXCEPT !.delay = TRUE]
                      /\ ch' = r.c
                      /\ prm' = r.p
                      /\ shot' = IF r.ok THEN [phase |-> "wait", kind |-> "ZSL"] ELSE shot
                   \/ /\ ~b.p.zsl
                      /\ r.ok
                      /\ m_state' = "PIC_TAKING"
                      /\ ch' = r.c
                      /\ prm' = r.p
                      /\ shot' = [phase |-> "wait", kind |-> "CAPTURE"]
                      /\ UNCHANGED msg
                   \/ /\ ~b.p.zsl
                      /\ ~r.ok
                      /\ \E q \in Restarted(Unprepared(r.c), r.p, FALSE) :
                            /\ m_state' = IF q.ok THEN "PREVIEWING" ELSE "PREVIEW_STOPPED"
                            /\ SetChannels(q.c)
                            /\ prm' = q.p
                      /\ UNCHANGED msg
  <1>0. ~Filming(ch)
    BY DEF Filming, FilmsWhenItSays
  <1>1. /\ e.api = "TAKE_PICTURE"
        /\ \E b \in B : \E r \in TakePicture(b.c, b.p) : Chosen(b, r)
        /\ UNCHANGED <<mPreviewWindow, live>>
    BY Zenon DEF PreviewingTakePicture
  <1>2. PICK b \in B : \E r \in TakePicture(b.c, b.p) : Chosen(b, r)
    BY <1>1
  <1>3. PICK r \in TakePicture(b.c, b.p) : Chosen(b, r)
    BY <1>2
  <1>4. /\ b.c \in ChannelSet /\ b.p \in ParameterSet /\ b.p.needRestart = prm.needRestart
        /\ ~Filming(b.c)
        /\ ~Faulty => b.c = ch \/ PreviewOn(b.c)
    <2>1. CASE prm.hint
      <3>1. PICK p \in Hinted(prm, FALSE) : b \in Restarted(Unprepared(ch), p, FALSE)
        BY <2>1, <1>2
      <3>2. p \in ParameterSet /\ p.needRestart = prm.needRestart
        BY HintedType
      <3>3. Unprepared(ch) \in ChannelSet /\ ~Filming(Unprepared(ch))
        BY UnpreparedType DEF Filming, None
      <3>4. Outcome(Unprepared(ch), p, b) /\ (b.ok => PreviewOn(b.c)) /\ (~Faulty => b.ok)
        BY <3>1, <3>2, <3>3, RestartedOutcome
      <3> QED
        BY <3>2, <3>3, <3>4 DEF Outcome
    <2>2. CASE ~prm.hint
      <3>1. b = [c |-> ch, p |-> prm]
        BY <2>2, <1>2
      <3> QED
        BY <3>1, <1>0
    <2> QED
      BY <2>1, <2>2
  <1>5. /\ r.c \in ChannelSet /\ r.p \in ParameterSet /\ r.ok \in BOOLEAN /\ r.sent \in BOOLEAN
        /\ r.p.needRestart = prm.needRestart /\ ~Filming(r.c)
        /\ b.p.zsl => r.c = b.c
        /\ ~b.p.zsl /\ r.ok => ~PreviewOn(r.c)
        /\ ~b.p.zsl /\ ~Faulty => r.ok
    BY <1>4, TakePictureOutcome
  <1>6. cbq' \in Seq(CommandSet)
    <2>1. "START" \in CommandSet
      BY DEF CommandSet
    <2> QED
      BY <1>3, <1>5, <2>1, TellType
  <1>7. CASE /\ b.p.zsl
             /\ m_state' = IF r.ok THEN "PREVIEW_PIC_TAKING" ELSE "PREVIEWING"
             /\ msg' = [msg EXCEPT !.delay = TRUE]
             /\ ch' = r.c
             /\ prm' = r.p
             /\ shot' = IF r.ok THEN [phase |-> "wait", kind |-> "ZSL"] ELSE shot
    <2>1. msg' \in MessageSet /\ (msg'.delayed => msg'.delay)
      BY <1>7 DEF MessageSet
    <2>2. shot' \in ShotSet
      BY <1>7 DEF ShotSet
    <2>3. m_state' \in {"PREVIEWING", "PREVIEW_PIC_TAKING"}
      BY <1>7, <1>5
    <2>4. ~Faulty => ch' = ch \/ PreviewOn(ch')
      BY <1>7, <1>4, <1>5
    <2>5. ~Faulty => Healthy'
      BY <2>3, <2>4 DEF Healthy, Stopped
    <2>6. PreviewRule(e)
      BY <1>1, <1>5, <1>7, <2>4 DEF PreviewRule, Shown
    <2> QED
      BY <1>1, <1>5, <1>6, <1>7, <2>1, <2>2, <2>3, <2>5, <2>6, ChangedKeeps DEF States
  <1>8. CASE /\ ~b.p.zsl
             /\ r.ok
             /\ m_state' = "PIC_TAKING"
             /\ ch' = r.c
             /\ prm' = r.p
             /\ shot' = [phase |-> "wait", kind |-> "CAPTURE"]
             /\ UNCHANGED msg
    <2>1. shot' \in ShotSet
      BY <1>8 DEF ShotSet
    <2>2. ~PreviewOn(ch') /\ ch'["VIDEO"] = None
      <3>1. r.c["VIDEO"] = None
        BY <1>8, <1>3, <1>4, UnpreparedType DEF TakePicture, ChannelSet, Channels
      <3> QED
        BY <1>8, <1>5, <3>1
    <2>3. Healthy'
      BY <2>2 DEF Healthy
    <2>4. PreviewRule(e)
      BY <1>1, <1>5, <1>8 DEF PreviewRule, Shown
    <2> QED
      BY <1>1, <1>5, <1>6, <1>8, <2>1, <2>3, <2>4, ChangedKeeps DEF States
  <1>9. CASE /\ ~b.p.zsl
             /\ ~r.ok
             /\ \E q \in Restarted(Unprepared(r.c), r.p, FALSE) :
                   /\ m_state' = IF q.ok THEN "PREVIEWING" ELSE "PREVIEW_STOPPED"
                   /\ SetChannels(q.c)
                   /\ prm' = q.p
             /\ UNCHANGED msg
    <2>1. PICK q \in Restarted(Unprepared(r.c), r.p, FALSE) :
                   /\ m_state' = IF q.ok THEN "PREVIEWING" ELSE "PREVIEW_STOPPED"
                   /\ SetChannels(q.c)
                   /\ prm' = q.p
      BY <1>9
    <2>2. Unprepared(r.c) \in ChannelSet /\ ~Filming(Unprepared(r.c))
      BY <1>5, UnpreparedType DEF Filming, None
    <2>3. Outcome(Unprepared(r.c), r.p, q)
      BY <1>5, <2>2, RestartedOutcome
    <2>4. ch' = q.c /\ shot' \in ShotSet
      BY <2>1, SetChannelsType
    <2>5. /\ ch' \in ChannelSet /\ ~Filming(ch') /\ prm' \in ParameterSet
          /\ m_state' \in {"PREVIEWING", "PREVIEW_STOPPED"}
          /\ prm'.needRestart = prm.needRestart
      BY <1>5, <2>1, <2>2, <2>3, <2>4 DEF Outcome
    <2>6. Faulty
      BY <1>9, <1>5
    <2>7. PreviewRule(e)
      BY <2>5, <2>6 DEF PreviewRule
    <2> QED
      BY <1>1, <1>6, <1>9, <2>4, <2>5, <2>6, <2>7, ChangedKeeps DEF States
  <1> QED
    BY <1>3, <1>7, <1>8, <1>9

LEMMA PreviewingKeeps ==
    ASSUME MachineOK, NEW e \in EventSet, m_state = "PREVIEWING", Previewing(e)
    PROVE  MachineOK' /\ PreviewRule(e)
  <1> USE DEF MachineOK, MachineTypes
  <1>0. ~Filming(ch)
    BY DEF Filming, FilmsWhenItSays
  <1>1. CASE e.api # "SET_PARAMS_RESTART" /\ Unmoved
    BY <1>1, UnmovedKeeps
  <1>2. CASE SetParams(e)
    BY <1>2, SetParamsKeeps
  <1>3. CASE PreviewingRestart(e)
    BY <1>3, PreviewingRestartKeeps
  <1>4. CASE PreviewingTakePicture(e)
    BY <1>4, PreviewingTakePictureKeeps
  <1>5. CASE e.api \in {"PRE_START_RECORDING", "PRE_TAKE_PICTURE"} /\ (PreStartRecording(e) \/ PreTakePicture(e))
    BY <1>5, HintedPreviewKeeps DEF PreStartRecording, PreTakePicture
  <1>6. CASE /\ e.api \notin {"SET_PARAMS_RESTART", "SET_PARAMS_STOP"}
             /\ m_state' \in {"PREVIEWING", "PREPARE_SNAPSHOT"}
             /\ msg' \in {Applied(msg), [msg EXCEPT !.delayed = @ \/ msg.delay],
                          [delay |-> msg.delay /\ ~msg.delayed, delayed |-> FALSE]}
             /\ UNCHANGED <<ch, prm, mPreviewWindow, shot, live, cbq>>
    <2>1. msg' \in MessageSet /\ (msg'.delayed => msg'.delay)
      <3>1. CASE msg' = Applied(msg)
        BY <3>1, AppliedType
      <3>2. CASE msg' = [msg EXCEPT !.delayed = @ \/ msg.delay]
        BY <3>2 DEF MessageSet
      <3>3. CASE msg' = [delay |-> msg.delay /\ ~msg.delayed, delayed |-> FALSE]
        BY <3>3 DEF MessageSet
      <3> QED
        BY <1>6, <3>1, <3>2, <3>3
    <2>2. ~Faulty => Healthy'
      BY <1>6 DEF Healthy, Stopped
    <2>3. PreviewRule(e)
      BY <1>6 DEF PreviewRule, Shown
    <2> QED
      BY <1>0, <1>6, <2>1, <2>2, <2>3, ChangedKeeps DEF States
  <1>7. CASE /\ e.api = "STOP_PREVIEW" /\ m_state' = "PREVIEW_STOPPED"
             /\ SetChannels(Unprepared(ch)) /\ msg' = Applied(msg)
             /\ UNCHANGED <<prm, mPreviewWindow, live, cbq>>
    <2>1. ch' = Unprepared(ch) /\ shot' \in ShotSet
      BY <1>7, SetChannelsType
    <2>2. ch' \in ChannelSet /\ ~Filming(ch') /\ ~PreviewOn(ch') /\ ch'["VIDEO"] = None
      BY <2>1, UnpreparedType DEF Filming, None
    <2>3. Healthy'
      BY <2>2 DEF Healthy
    <2>4. msg' \in MessageSet /\ (msg'.delayed => msg'.delay)
      BY <1>7, AppliedType
    <2> QED
      BY <1>7, <2>1, <2>2, <2>3, <2>4, ChangedKeeps DEF PreviewRule, Shown, States
  <1>8. CASE /\ e.api = "START_RECORDING"
             /\ \E r \in RecordingStarted(ch) :
                   /\ m_state' = IF r.ok THEN "RECORDING" ELSE m_state
                   /\ msg' = IF r.ok THEN Applied(msg) ELSE msg
                   /\ SetChannels(r.c)
             /\ UNCHANGED <<prm, mPreviewWindow, live, cbq>>
    <2>1. PICK r \in RecordingStarted(ch) :
                   /\ m_state' = IF r.ok THEN "RECORDING" ELSE m_state
                   /\ msg' = IF r.ok THEN Applied(msg) ELSE msg
                   /\ SetChannels(r.c)
      BY <1>8
    <2>2. /\ r.c \in ChannelSet /\ r.ok \in BOOLEAN
          /\ r.ok => Filming(r.c) /\ ch["VIDEO"] # None
          /\ ~r.ok => r.c = ch
          /\ PreviewOn(r.c) <=> PreviewOn(ch)
      BY RecordingStartedOutcome
    <2>3. ch' = r.c /\ shot' \in ShotSet
      BY <2>1, SetChannelsType
    <2>4. msg' \in MessageSet /\ (msg'.delayed => msg'.delay)
      BY <2>1, AppliedType
    <2>5. m_state' \in {"RECORDING", "PREVIEWING"} /\ (Filming(ch') <=> m_state' = "RECORDING")
      BY <1>0, <2>1, <2>2, <2>3
    <2>6. ~Faulty => Healthy'
      BY <2>2, <2>3, <2>5 DEF Healthy, Stopped, Filming
    <2>7. PreviewRule(e)
      BY <1>8, <2>2, <2>3 DEF PreviewRule, Shown
    <2> QED
      BY <1>8, <2>2, <2>3, <2>4, <2>5, <2>6, <2>7, ChangedKeeps DEF States
  <1> QED
    BY <1>1, <1>2, <1>3, <1>4, <1>5, <1>6, <1>7, <1>8 DEF Previewing, PreviewingMsgType, Answer

\* cancelPicture ends in PREVIEW_STOPPED.
LEMMA CancelPictureKeeps ==
    ASSUME MachineOK, NEW e \in EventSet, m_state = "PIC_TAKING", CancelPicture,
           m_state' = "PREVIEW_STOPPED", UNCHANGED <<prm, msg, mPreviewWindow>>
    PROVE  MachineOK' /\ PreviewRule(e)
  <1> USE DEF MachineOK, MachineTypes
  <1>0. ~Filming(ch)
    BY DEF Filming, FilmsWhenItSays
  <1>1. /\ ch' \in ChannelSet
        /\ \A k \in {"ZSL", "PREVIEW", "VIDEO"} : ch'[k] = ch[k]
    BY DEF CancelPicture, ChannelSet, Channels
  <1>2. ~Filming(ch') /\ (PreviewOn(ch') <=> PreviewOn(ch))
    BY <1>0, <1>1 DEF Filming, PreviewOn
  <1>3. ~Faulty => Healthy'
    BY <1>1, <1>2 DEF Healthy, Stopped
  <1>4. shot' \in ShotSet /\ live' = live /\ cbq' \in Seq(CommandSet)
    <2>1. "STOP" \in CommandSet
      BY DEF CommandSet
    <2> QED
      BY <2>1, TellType DEF CancelPicture, ShotSet, NoShot
  <1> QED
    BY <1>1, <1>2, <1>3, <1>4, ChangedKeeps DEF PreviewRule, Shown, States

LEMMA PicTakingKeeps ==
    ASSUME MachineOK, NEW e \in EventSet, m_state = "PIC_TAKING", PicTaking(e)
    PROVE  MachineOK' /\ PreviewRule(e)
  <1> USE DEF MachineOK, MachineTypes
  <1>1. CASE SetMsgType(e) \/ Unmoved
    BY <1>1, UnmovedKeeps DEF SetMsgType, Answer
  <1>2. CASE SetParams(e)
    BY <1>2, SetParamsKeeps
  <1>3. CASE NothingToRestart(e)
    BY <1>3, NothingToRestartKeeps
  <1>4. CASE CancelPicture /\ m_state' = "PREVIEW_STOPPED" /\ UNCHANGED <<prm, msg, mPreviewWindow>>
    BY <1>4, CancelPictureKeeps
  <1>5. CASE /\ e.api = "STOP_CAPTURE_CHANNEL"
             /\ SetChannels(IF ch["CAPTURE"] = "on" THEN [ch EXCEPT !["CAPTURE"] = "idle"] ELSE ch)
             /\ UNCHANGED <<m_state, prm, msg, mPreviewWindow, live, cbq>>
    <2>1. shot' \in ShotSet /\ ch' = IF ch["CAPTURE"] = "on" THEN [ch EXCEPT !["CAPTURE"] = "idle"] ELSE ch
      BY <1>5, SetChannelsType
    <2>2. ch' \in ChannelSet /\ \A k \in {"ZSL", "PREVIEW", "VIDEO"} : ch'[k] = ch[k]
      BY <2>1 DEF ChannelSet, Channels
    <2>3. ~Filming(ch') /\ (PreviewOn(ch') <=> PreviewOn(ch))
      BY <2>2 DEF Filming, PreviewOn, FilmsWhenItSays
    <2>4. ~Faulty => Healthy'
      BY <1>5, <2>2, <2>3 DEF Healthy, Stopped
    <2> QED
      BY <1>5, <2>1, <2>2, <2>3, <2>4, ChangedKeeps DEF PreviewRule, Shown
  <1> QED
    BY <1>1, <1>2, <1>3, <1>4, <1>5 DEF PicTaking, Answer

\* cancelLiveSnapshot, with the channels that the handler leaves.
LEMMA CancelLiveSnapshotType ==
    ASSUME MachineTypes, NEW c \in ChannelSet, CancelLiveSnapshot(c)
    PROVE  ch' = c /\ shot' \in ShotSet /\ live' \in {None, "take", "cancel"} /\ cbq' \in Seq(CommandSet)
  BY SetChannelsType DEF CancelLiveSnapshot, MachineTypes

LEMMA RecordingKeeps ==
    ASSUME MachineOK, NEW e \in EventSet, m_state = "RECORDING", Recording(e)
    PROVE  MachineOK' /\ PreviewRule(e)
  <1> USE DEF MachineOK, MachineTypes
  <1>0. Filming(ch) /\ (~Faulty => PreviewOn(ch))
    BY DEF Filming, FilmsWhenItSays, Healthy, None
  <1>1. CASE SetMsgType(e) \/ Unmoved
    BY <1>1, UnmovedKeeps DEF SetMsgType, Answer
  <1>2. CASE SetParamsRecording(e)
    BY <1>2, SetParamsKeeps
  <1>3. CASE /\ e.api = "TAKE_PICTURE"
             /\ m_state' = "VIDEO_PIC_TAKING"
             /\ live' = "take"
             /\ UNCHANGED <<ch, prm, msg, mPreviewWindow, shot, cbq>>
    <2>1. ~Faulty => Healthy'
      BY <1>0, <1>3 DEF Healthy, Stopped
    <2> QED
      BY <1>0, <1>3, <2>1, ChangedKeeps DEF PreviewRule, Shown, States
  <1>4. CASE /\ e.api = "STOP_RECORDING"
             /\ m_state' = "PREVIEWING"
             /\ SetChannels(RecordingStopped(ch))
             /\ UNCHANGED <<prm, msg, mPreviewWindow, live, cbq>>
    <2>1. ch' = RecordingStopped(ch) /\ shot' \in ShotSet
      BY <1>4, SetChannelsType
    <2>2. ch' \in ChannelSet /\ ~Filming(ch') /\ (PreviewOn(ch') <=> PreviewOn(ch))
      BY <2>1, RecordingStoppedOutcome
    <2>3. ~Faulty => Healthy'
      BY <1>0, <1>4, <2>2 DEF Healthy, Stopped
    <2> QED
      BY <1>0, <1>4, <2>1, <2>2, <2>3, ChangedKeeps DEF PreviewRule, States
  <1>5. CASE /\ e.api = "STOP_PREVIEW"
             /\ m_state' = "PREVIEW_STOPPED"
             /\ SetChannels(Unprepared(ch))
             /\ UNCHANGED <<prm, msg, mPreviewWindow, live, cbq>>
    <2>1. ch' = Unprepared(ch) /\ shot' \in ShotSet
      BY <1>5, SetChannelsType
    <2>2. ch' \in ChannelSet /\ ~Filming(ch') /\ ~PreviewOn(ch') /\ ch'["VIDEO"] = None
      BY <2>1, UnpreparedType DEF Filming, None
    <2>3. Healthy'
      BY <2>2 DEF Healthy
    <2> QED
      BY <1>5, <2>1, <2>2, <2>3, ChangedKeeps DEF PreviewRule, Shown, States
  <1> QED
    BY <1>1, <1>2, <1>3, <1>4, <1>5 DEF Recording, Answer

\* The live snapshot is cancelled, the camera goes on filming.
LEMMA LiveSnapshotCancelled ==
    ASSUME MachineOK, NEW e \in EventSet, m_state = "VIDEO_PIC_TAKING",
           m_state' = "RECORDING", CancelLiveSnapshot(ch), UNCHANGED <<prm, msg, mPreviewWindow>>
    PROVE  MachineOK' /\ PreviewRule(e)
  <1> USE DEF MachineOK, MachineTypes
  <1>0. Filming(ch) /\ (~Faulty => PreviewOn(ch))
    BY DEF Filming, FilmsWhenItSays, Healthy, None
  <1>1. ch' = ch /\ shot' \in ShotSet /\ live' \in {None, "take", "cancel"} /\ cbq' \in Seq(CommandSet)
    BY CancelLiveSnapshotType
  <1>2. ~Faulty => Healthy'
    BY <1>0, <1>1 DEF Healthy, Stopped
  <1> QED
    BY <1>0, <1>1, <1>2, ChangedKeeps DEF PreviewRule, Shown, States

LEMMA VideoPicTakingKeeps ==
    ASSUME MachineOK, NEW e \in EventSet, m_state = "VIDEO_PIC_TAKING", VideoPicTaking(e)
    PROVE  MachineOK' /\ PreviewRule(e)
  <1> USE DEF MachineOK, MachineTypes
  <1>0. Filming(ch) /\ (~Faulty => PreviewOn(ch))
    BY DEF Filming, FilmsWhenItSays, Healthy, None
  <1>1. CASE SetMsgType(e) \/ Unmoved
    BY <1>1, UnmovedKeeps DEF SetMsgType, Answer
  <1>2. CASE SetParamsRecording(e)
    BY <1>2, SetParamsKeeps
  <1>3. CASE /\ m_state' = "PREVIEWING"
             /\ CancelLiveSnapshot(RecordingStopped(ch))
             /\ UNCHANGED <<prm, msg, mPreviewWindow>>
    <2>1. /\ RecordingStopped(ch) \in ChannelSet /\ ~Filming(RecordingStopped(ch))
          /\ PreviewOn(RecordingStopped(ch)) <=> PreviewOn(ch)
      BY RecordingStoppedOutcome
    <2>2. /\ ch' = RecordingStopped(ch) /\ shot' \in ShotSet
          /\ live' \in {None, "take", "cancel"} /\ cbq' \in Seq(CommandSet)
      BY <1>3, <2>1, CancelLiveSnapshotType
    <2>3. ~Faulty => Healthy'
      BY <1>0, <1>3, <2>1, <2>2 DEF Healthy, Stopped
    <2> QED
      BY <1>0, <1>3, <2>1, <2>2, <2>3, ChangedKeeps DEF PreviewRule, States
  <1>4. CASE m_state' = "RECORDING" /\ CancelLiveSnapshot(ch) /\ UNCHANGED <<prm, msg, mPreviewWindow>>
    BY <1>4, LiveSnapshotCancelled
  <1>5. CASE /\ m_state' = "PREVIEW_STOPPED"
             /\ CancelLiveSnapshot(Unprepared(ch))
             /\ UNCHANGED <<prm, msg, mPreviewWindow>>
    <2>1. /\ Unprepared(ch) \in ChannelSet /\ ~Filming(Unprepared(ch)) /\ ~PreviewOn(Unprepared(ch))
          /\ Unprepared(ch)["VIDEO"] = None
      BY UnpreparedType DEF Filming, None
    <2>2. /\ ch' = Unprepared(ch) /\ shot' \in ShotSet
          /\ live' \in {None, "take", "cancel"} /\ cbq' \in Seq(CommandSet)
      BY <1>5, <2>1, CancelLiveSnapshotType
    <2>3. Healthy'
      BY <2>1, <2>2 DEF Healthy
    <2> QED
      BY <1>5, <2>1, <2>2, <2>3, ChangedKeeps DEF PreviewRule, Shown, States
  <1> QED
    BY <1>1, <1>2, <1>3, <1>4, <1>5 DEF VideoPicTaking, Answer

\* A picture of the preview is cancelled, whichever mode tells its kind; the
\* channels are the preview's own or those that stopPreview leaves.
LEMMA CancelPreviewPictureType ==
    ASSUME MachineTypes, NEW c \in ChannelSet, CancelPreviewPicture(c)
    PROVE  ch' = c /\ shot' \in ShotSet /\ live' \in {None, "take", "cancel"} /\ cbq' \in Seq(CommandSet)
  <1>1. CASE prm.zsl
    <2>1. "STOP" \in CommandSet
      BY DEF CommandSet
    <2> QED
      BY <1>1, <2>1, TellType DEF CancelPreviewPicture, MachineTypes, NoShot, ShotSet
  <1>2. CASE ~prm.zsl
    BY <1>2, CancelLiveSnapshotType DEF CancelPreviewPicture
  <1> QED
    BY <1>1, <1>2

LEMMA PreviewPictureCancelled ==
    ASSUME MachineOK, NEW e \in EventSet, m_state = "PREVIEW_PIC_TAKING", e.api # "SET_PARAMS_RESTART",
           m_state' = "PREVIEWING", CancelPreviewPicture(ch), UNCHANGED <<prm, msg, mPreviewWindow>>
    PROVE  MachineOK' /\ PreviewRule(e)
  <1> USE DEF MachineOK, MachineTypes
  <1>1. ch' = ch /\ shot' \in ShotSet /\ live' \in {None, "take", "cancel"} /\ cbq' \in Seq(CommandSet)
    BY CancelPreviewPictureType
  <1>2. ~Faulty => Healthy'
    BY <1>1 DEF Healthy, Stopped
  <1>3. ~Filming(ch')
    BY <1>1 DEF Filming, FilmsWhenItSays
  <1> QED
    BY <1>1, <1>2, <1>3, ChangedKeeps DEF PreviewRule, Shown, States

LEMMA PreviewPicTakingKeeps ==
    ASSUME MachineOK, NEW e \in EventSet, m_state = "PREVIEW_PIC_TAKING", PreviewPicTaking(e)
    PROVE  MachineOK' /\ PreviewRule(e)
  <1> USE DEF MachineOK, MachineTypes
  <1>0. ~Filming(ch)
    BY DEF Filming, FilmsWhenItSays
  <1>1. CASE e.api # "SET_PARAMS_RESTART" /\ Unmoved
    BY <1>1, UnmovedKeeps
  <1>2. CASE SetParams(e)
    BY <1>2, SetParamsKeeps
  <1>3. CASE PreviewingRestart(e)
    BY <1>3, PreviewingRestartKeeps
  <1>4. CASE e.api = "PRE_START_RECORDING" /\ PreStartRecording(e)
    BY <1>4, HintedPreviewKeeps DEF PreStartRecording
  <1>5. CASE /\ e.api # "SET_PARAMS_RESTART" /\ m_state' = "PREVIEWING"
             /\ CancelPreviewPicture(ch) /\ UNCHANGED <<prm, msg, mPreviewWindow>>
    BY <1>5, PreviewPictureCancelled
  <1>6. CASE /\ m_state' = "PREVIEW_STOPPED"
             /\ CancelPreviewPicture(Unprepared(ch))
             /\ UNCHANGED <<prm, msg, mPreviewWindow>>
    <2>1. /\ Unprepared(ch) \in ChannelSet /\ ~Filming(Unprepared(ch)) /\ ~PreviewOn(Unprepared(ch))
          /\ Unprepared(ch)["VIDEO"] = None
      BY UnpreparedType DEF Filming, None
    <2>2. /\ ch' = Unprepared(ch) /\ shot' \in ShotSet
          /\ live' \in {None, "take", "cancel"} /\ cbq' \in Seq(CommandSet)
      BY <1>6, <2>1, CancelPreviewPictureType
    <2>3. Healthy'
      BY <2>1, <2>2 DEF Healthy
    <2> QED
      BY <1>6, <2>1, <2>2, <2>3, ChangedKeeps DEF PreviewRule, Shown, States
  <1>7. CASE /\ e.api = "START_RECORDING"
             /\ \E r \in RecordingStarted(ch) :
                   /\ m_state' = IF r.ok THEN "VIDEO_PIC_TAKING" ELSE m_state
                   /\ SetChannels(r.c)
             /\ UNCHANGED <<prm, msg, mPreviewWindow, live, cbq>>
    <2>1. PICK r \in RecordingStarted(ch) :
                   /\ m_state' = IF r.ok THEN "VIDEO_PIC_TAKING" ELSE m_state
                   /\ SetChannels(r.c)
      BY <1>7
    <2>2. /\ r.c \in ChannelSet /\ r.ok \in BOOLEAN
          /\ r.ok => Filming(r.c) /\ ch["VIDEO"] # None
          /\ ~r.ok => r.c = ch
          /\ PreviewOn(r.c) <=> PreviewOn(ch)
      BY RecordingStartedOutcome
    <2>3. ch' = r.c /\ shot' \in ShotSet
      BY <2>1, SetChannelsType
    <2>4. m_state' \in {"VIDEO_PIC_TAKING", "PREVIEW_PIC_TAKING"} /\ (Filming(ch') <=> m_state' = "VIDEO_PIC_TAKING")
      BY <1>0, <2>1, <2>2, <2>3
    <2>5. ~Faulty => Healthy'
      BY <2>2, <2>3, <2>4 DEF Healthy, Stopped
    <2>6. PreviewRule(e)
      BY <1>7, <2>2, <2>3 DEF PreviewRule, Shown
    <2> QED
      BY <1>7, <2>2, <2>3, <2>4, <2>5, <2>6, ChangedKeeps DEF States
  <1>8. CASE SetMsgType(e)
    BY <1>8, UnmovedKeeps DEF SetMsgType, Answer
  <1> QED
    BY <1>1, <1>2, <1>3, <1>4, <1>5, <1>6, <1>7, <1>8 DEF PreviewPicTaking, Answer

\* Every handler keeps the machine as it must be.
LEMMA HandleKeeps ==
    ASSUME MachineOK, NEW e \in EventSet, Handle(e)
    PROVE  MachineOK' /\ PreviewRule(e)
  <1>1. CASE m_state = "PREPARE_SNAPSHOT" /\ PrepareSnapshot(e)
    BY <1>1, UnmovedKeeps DEF PrepareSnapshot
  <1>2. CASE e.api = "STOP_CAPTURE_CHANNEL" /\ Unmoved
    BY <1>2, UnmovedKeeps
  <1> QED
    BY <1>1, <1>2, PreviewStoppedKeeps, PreviewReadyKeeps, PreviewingKeeps, PicTakingKeeps,
       RecordingKeeps, VideoPicTakingKeeps, PreviewPicTakingKeeps DEF Handle
-----------------------------------------------------------------------------
(* Every event is answered once, whatever the state.                       *)

\* The two events that nobody answers at once: the preparation for the flash
\* is answered by PREP_SNAPSHOT_DONE.
LeftSilent(e) ==
    \/ /\ e.api \in {"STOP_CAPTURE_CHANNEL", "RELEASE_RECORDING_FRAME"}
       /\ m_state' = "PREPARE_SNAPSHOT" <=> m_state = "PREPARE_SNAPSHOT"
    \/ e.api = "PREPARE_SNAPSHOT" /\ m_state = "PREVIEWING" /\ m_state' = "PREPARE_SNAPSHOT"

\* What an answer says. Of a camera that refuses nothing, a commit succeeds
\* outside PREPARE_SNAPSHOT; a running preview is stopped for a restart.
AnswerIs(e, ok) ==
    /\ Reply(e, ok)
    /\ m_state' = "PREPARE_SNAPSHOT" <=> m_state = "PREPARE_SNAPSHOT"
    /\ e.api = "SET_PARAMS_COMMIT" /\ ~Faulty /\ m_state # "PREPARE_SNAPSHOT" => ok
    /\ e.api = "SET_PARAMS_STOP" /\ m_state \in {"PREVIEWING", "PREVIEW_PIC_TAKING"} => ok

AnsweredOnce(e) == (Silent /\ LeftSilent(e)) \/ \E ok \in BOOLEAN : AnswerIs(e, ok)

LEMMA SetParamsAnswers ==
    ASSUME MachineOK, NEW e \in EventSet, SetParams(e) \/ SetParamsRecording(e)
    PROVE  AnsweredOnce(e)
  <1>1. MayFail \subseteq BOOLEAN /\ (~Faulty => MayFail = {TRUE}) /\ m_state' = m_state
    BY DEF MayFail, SetParams, SetParamsRecording, CommitParams
  <1>2. CASE e.api = "SET_PARAMS"
    <2>1. UpdateParameters(e).needRestart \in BOOLEAN
      BY UpdateParametersType DEF MachineOK, MachineTypes
    <2>2. \E ok \in BOOLEAN : Reply(e, ok)
      BY <1>2, <2>1 DEF SetParams, SetParamsRecording, CommitParams
    <2> QED
      BY <1>1, <1>2, <2>2 DEF AnsweredOnce, AnswerIs
  <1>3. CASE CommitParams(e)
    <2>1. PICK ok \in MayFail : Reply(e, ok) /\ e.api = "SET_PARAMS_COMMIT"
      BY <1>3 DEF CommitParams
    <2> QED
      BY <1>1, <2>1 DEF AnsweredOnce, AnswerIs
  <1> QED
    BY <1>2, <1>3 DEF SetParams, SetParamsRecording

\* The rest of the handlers answer with an ok of their own, and no handler but
\* that of PREPARE_SNAPSHOT in PREVIEWING enters PREPARE_SNAPSHOT.
LEMMA PlainAnswer ==
    ASSUME NEW e \in EventSet, \E ok \in BOOLEAN : Reply(e, ok),
           m_state # "PREPARE_SNAPSHOT", m_state' # "PREPARE_SNAPSHOT",
           e.api \notin {"SET_PARAMS_COMMIT", "SET_PARAMS_STOP"}
    PROVE  AnsweredOnce(e)
  BY DEF AnsweredOnce, AnswerIs

LEMMA StopAnswer ==
    ASSUME NEW e \in EventSet, \E ok \in BOOLEAN : Reply(e, ok) /\ (ok \/ m_state \notin Shown),
           m_state # "PREPARE_SNAPSHOT", m_state' = m_state, e.api = "SET_PARAMS_STOP"
    PROVE  AnsweredOnce(e)
  BY DEF AnsweredOnce, AnswerIs, Shown

LEMMA PreviewStoppedAnswers ==
    ASSUME MachineOK, NEW e \in EventSet, m_state = "PREVIEW_STOPPED", PreviewStopped(e)
    PROVE  AnsweredOnce(e)
  <1> USE DEF MachineOK, MachineTypes
  <1>1. CASE SetParams(e)
    BY <1>1, SetParamsAnswers
  <1>2. CASE /\ e.api = "START_PREVIEW"
             /\ IF mPreviewWindow
                THEN MoveTo(e, Restarted(ch, prm, FALSE), "PREVIEWING", m_state, TRUE)
                ELSE MoveTo(e, Prepared(ch, prm), "PREVIEW_READY", m_state, FALSE)
    <2>1. \A r \in Restarted(ch, prm, FALSE) \cup Prepared(ch, prm) : r.ok \in BOOLEAN
      BY RestartedOutcome, PreparedOutcome DEF Outcome
    <2>2. \E ok \in BOOLEAN : Reply(e, ok)
      BY <1>2, <2>1 DEF MoveTo
    <2>3. m_state' # "PREPARE_SNAPSHOT"
      BY <1>2 DEF MoveTo
    <2> QED
      BY <1>2, <2>2, <2>3, PlainAnswer
  <1>3. CASE e.api = "RELEASE_RECORDING_FRAME" /\ Silent /\ Unmoved
    BY <1>3 DEF AnsweredOnce, LeftSilent, Unmoved, machine
  <1>4. CASE /\ \E ok \in BOOLEAN : Reply(e, ok)
             /\ m_state' = m_state
             /\ e.api \notin {"SET_PARAMS_COMMIT", "SET_PARAMS_STOP"}
    BY <1>4, PlainAnswer
  <1>5. CASE e.api = "SET_PARAMS_STOP" /\ Reply(e, TRUE) /\ m_state' = m_state
    BY <1>5, StopAnswer
  <1> QED
    BY <1>1, <1>2, <1>3, <1>4, <1>5
       DEF PreviewStopped, SetMsgType, Answer, NothingToRestart, Unmoved, machine

LEMMA PreviewReadyAnswers ==
    ASSUME MachineOK, NEW e \in EventSet, m_state = "PREVIEW_READY", PreviewReady(e)
    PROVE  AnsweredOnce(e)
  <1> USE DEF MachineOK, MachineTypes
  <1>1. CASE SetParams(e)
    BY <1>1, SetParamsAnswers
  <1>2. \A r \in Started(ch, prm) \cup Prepared(ch, prm) : r.ok \in BOOLEAN
    BY StartedOutcome, PreparedOutcome DEF Outcome
  <1>3. CASE e.api = "RELEASE_RECORDING_FRAME" /\ Silent /\ Unmoved
    BY <1>3 DEF AnsweredOnce, LeftSilent, Unmoved, machine
  <1>4. CASE /\ \E ok \in BOOLEAN : Reply(e, ok)
             /\ m_state' # "PREPARE_SNAPSHOT"
             /\ e.api \notin {"SET_PARAMS_COMMIT", "SET_PARAMS_STOP"}
    BY <1>4, PlainAnswer
  <1>5. CASE e.api = "SET_PARAMS_STOP" /\ Reply(e, TRUE) /\ m_state' = m_state
    BY <1>5, StopAnswer
  <1> QED
    BY <1>1, <1>2, <1>3, <1>4, <1>5 DEF PreviewReady, SetMsgType, Answer, Unmoved, machine

LEMMA HintedPreviewAnswers ==
    ASSUME MachineOK, NEW e \in EventSet, NEW v \in BOOLEAN, NEW keep \in BOOLEAN,
           HintedPreview(e, v, keep), m_state # "PREPARE_SNAPSHOT",
           e.api \notin {"SET_PARAMS_COMMIT", "SET_PARAMS_STOP"}
    PROVE  AnsweredOnce(e)
  <1> USE DEF MachineOK, MachineTypes
  <1>1. m_state' = m_state
    BY DEF HintedPreview, Unmoved, machine
  <1>2. \E ok \in BOOLEAN : Reply(e, ok)
    <2>1. CASE Reply(e, TRUE)
      BY <2>1
    <2>2. CASE \E p \in Hinted(prm, v) : \E r \in Restarted(Unprepared(ch), p, keep) : Reply(e, r.ok)
      <3>1. PICK p \in Hinted(prm, v) : \E r \in Restarted(Unprepared(ch), p, keep) : Reply(e, r.ok)
        BY <2>2
      <3>2. PICK r \in Restarted(Unprepared(ch), p, keep) : Reply(e, r.ok)
        BY <3>1
      <3>3. r.ok \in BOOLEAN
        BY HintedType, UnpreparedType, RestartedOutcome DEF Outcome
      <3> QED
        BY <3>2, <3>3
    <2> QED
      BY <2>1, <2>2 DEF HintedPreview
  <1> QED
    BY <1>1, <1>2, PlainAnswer

LEMMA PreviewingRestartAnswers ==
    ASSUME MachineOK, NEW e \in EventSet, PreviewingRestart(e),
           m_state \in {"PREVIEWING", "PREVIEW_PIC_TAKING"}
    PROVE  AnsweredOnce(e)
  <1> USE DEF MachineOK, MachineTypes
  <1>1. CASE e.api = "SET_PARAMS_STOP" /\ Reply(e, TRUE) /\ m_state' = m_state
    BY <1>1, StopAnswer
  <1>2. CASE /\ e.api = "SET_PARAMS_RESTART"
             /\ \E r \in Restarted(ch, prm, FALSE) : Reply(e, r.ok) /\ m_state' # "PREPARE_SNAPSHOT"
    <2>1. \A r \in Restarted(ch, prm, FALSE) : r.ok \in BOOLEAN
      BY RestartedOutcome DEF Outcome
    <2> QED
      BY <1>2, <2>1, PlainAnswer
  <1> QED
    BY <1>1, <1>2 DEF PreviewingRestart

LEMMA PreviewingTakePictureAnswers ==
    ASSUME MachineOK, NEW e \in EventSet, m_state = "PREVIEWING", PreviewingTakePicture(e)
    PROVE  AnsweredOnce(e)
  <1> USE DEF MachineOK, MachineTypes
  <1> DEFINE B == IF prm.hint
                  THEN UNION {Restarted(Unprepared(ch), p, FALSE) : p \in Hinted(prm, FALSE)}
                  ELSE {[c |-> ch, p |-> prm]}
  <1>1. /\ e.api = "TAKE_PICTURE" /\ m_state' # "PREPARE_SNAPSHOT"
        /\ \E b \in B : \E r \in TakePicture(b.c, b.p) : Reply(e, r.ok)
    BY DEF PreviewingTakePicture
  <1>2. PICK b \in B : \E r \in TakePicture(b.c, b.p) : Reply(e, r.ok)
    BY <1>1
  <1>3. PICK r \in TakePicture(b.c, b.p) : Reply(e, r.ok)
    BY <1>2
  <1>4. b.c \in ChannelSet /\ b.p \in ParameterSet
    <2>1. CASE prm.hint
      <3>1. PICK p \in Hinted(prm, FALSE) : b \in Restarted(Unprepared(ch), p, FALSE)
        BY <2>1, <1>2
      <3> QED
        BY <3>1, HintedType, UnpreparedType, RestartedOutcome DEF Outcome
    <2>2. CASE ~prm.hint
      BY <2>2, <1>2
    <2> QED
      BY <2>1, <2>2
  <1>5. r.ok \in BOOLEAN
    BY <1>4, TakePictureOutcome
  <1> HIDE DEF B
  <1> QED
    BY <1>1, <1>3, <1>5, PlainAnswer

LEMMA PreviewingAnswers ==
    ASSUME MachineOK, NEW e \in EventSet, m_state = "PREVIEWING", Previewing(e)
    PROVE  AnsweredOnce(e)
  <1> USE DEF MachineOK, MachineTypes
  <1>1. CASE SetParams(e)
    BY <1>1, SetParamsAnswers
  <1>2. CASE PreviewingRestart(e)
    BY <1>2, PreviewingRestartAnswers
  <1>3. CASE PreviewingTakePicture(e)
    BY <1>3, PreviewingTakePictureAnswers
  <1>4. CASE e.api \in {"PRE_START_RECORDING", "PRE_TAKE_PICTURE"} /\ (PreStartRecording(e) \/ PreTakePicture(e))
    BY <1>4, HintedPreviewAnswers DEF PreStartRecording, PreTakePicture
  <1>5. CASE e.api = "RELEASE_RECORDING_FRAME" /\ Silent /\ Unmoved
    BY <1>5 DEF AnsweredOnce, LeftSilent, Unmoved, machine
  <1>6. CASE e.api = "PREPARE_SNAPSHOT" /\ m_state' = "PREPARE_SNAPSHOT" /\ Silent
    BY <1>6 DEF AnsweredOnce, LeftSilent
  <1>7. \A r \in RecordingStarted(ch) : r.ok \in BOOLEAN
    BY RecordingStartedOutcome
  <1>8. CASE /\ \E ok \in BOOLEAN : Reply(e, ok)
             /\ m_state' # "PREPARE_SNAPSHOT"
             /\ e.api \notin {"SET_PARAMS_COMMIT", "SET_PARAMS_STOP"}
    BY <1>8, PlainAnswer
  <1> QED
    BY <1>1, <1>2, <1>3, <1>4, <1>5, <1>6, <1>7, <1>8
       DEF Previewing, PreviewingMsgType, Answer, Unmoved, machine

LEMMA PicTakingAnswers ==
    ASSUME MachineOK, NEW e \in EventSet, m_state = "PIC_TAKING", PicTaking(e)
    PROVE  AnsweredOnce(e)
  <1>1. CASE SetParams(e)
    BY <1>1, SetParamsAnswers
  <1>2. CASE /\ \E ok \in BOOLEAN : Reply(e, ok)
             /\ m_state' # "PREPARE_SNAPSHOT"
             /\ e.api \notin {"SET_PARAMS_COMMIT", "SET_PARAMS_STOP"}
    BY <1>2, PlainAnswer
  <1>3. CASE e.api = "SET_PARAMS_STOP" /\ Reply(e, TRUE) /\ m_state' = m_state
    BY <1>3, StopAnswer
  <1> QED
    BY <1>1, <1>2, <1>3 DEF PicTaking, SetMsgType, Answer, NothingToRestart, Unmoved, machine

LEMMA RecordingAnswers ==
    ASSUME MachineOK, NEW e \in EventSet, m_state = "RECORDING", Recording(e)
    PROVE  AnsweredOnce(e)
  <1>1. CASE SetParamsRecording(e)
    BY <1>1, SetParamsAnswers
  <1>2. CASE /\ \E ok \in BOOLEAN : Reply(e, ok)
             /\ m_state' # "PREPARE_SNAPSHOT"
             /\ e.api \notin {"SET_PARAMS_COMMIT", "SET_PARAMS_STOP"}
    BY <1>2, PlainAnswer
  <1>3. CASE /\ e.api = "SET_PARAMS_STOP" /\ m_state' = m_state
             /\ \E ok \in BOOLEAN : Reply(e, ok)
    BY <1>3, StopAnswer DEF Shown
  <1> QED
    BY <1>1, <1>2, <1>3 DEF Recording, SetMsgType, Answer, Unmoved, machine

LEMMA VideoPicTakingAnswers ==
    ASSUME MachineOK, NEW e \in EventSet, m_state = "VIDEO_PIC_TAKING", VideoPicTaking(e)
    PROVE  AnsweredOnce(e)
  <1>1. CASE SetParamsRecording(e)
    BY <1>1, SetParamsAnswers
  <1>2. CASE /\ \E ok \in BOOLEAN : Reply(e, ok)
             /\ m_state' # "PREPARE_SNAPSHOT"
             /\ e.api \notin {"SET_PARAMS_COMMIT", "SET_PARAMS_STOP"}
    BY <1>2, PlainAnswer
  <1>3. CASE /\ e.api = "SET_PARAMS_STOP" /\ m_state' = m_state
             /\ \E ok \in BOOLEAN : Reply(e, ok)
    BY <1>3, StopAnswer DEF Shown
  <1> QED
    BY <1>1, <1>2, <1>3 DEF VideoPicTaking, SetMsgType, Answer, Unmoved, machine

LEMMA PreviewPicTakingAnswers ==
    ASSUME MachineOK, NEW e \in EventSet, m_state = "PREVIEW_PIC_TAKING", PreviewPicTaking(e)
    PROVE  AnsweredOnce(e)
  <1>1. CASE SetParams(e)
    BY <1>1, SetParamsAnswers
  <1>2. CASE PreviewingRestart(e)
    BY <1>2, PreviewingRestartAnswers
  <1>3. CASE e.api = "PRE_START_RECORDING" /\ PreStartRecording(e)
    BY <1>3, HintedPreviewAnswers DEF PreStartRecording
  <1>4. \A r \in RecordingStarted(ch) : r.ok \in BOOLEAN
    BY RecordingStartedOutcome DEF MachineOK, MachineTypes
  <1>5. CASE /\ \E ok \in BOOLEAN : Reply(e, ok)
             /\ m_state' # "PREPARE_SNAPSHOT"
             /\ e.api \notin {"SET_PARAMS_COMMIT", "SET_PARAMS_STOP"}
    BY <1>5, PlainAnswer
  <1> QED
    BY <1>1, <1>2, <1>3, <1>4, <1>5 DEF PreviewPicTaking, SetMsgType, Answer, Unmoved, machine

LEMMA HandleAnswers ==
    ASSUME MachineOK, NEW e \in EventSet, Handle(e)
    PROVE  AnsweredOnce(e)
  <1>1. CASE m_state = "PREPARE_SNAPSHOT" /\ PrepareSnapshot(e)
    BY <1>1 DEF PrepareSnapshot, Unmoved, machine, AnsweredOnce, AnswerIs
  <1>2. CASE e.api = "STOP_CAPTURE_CHANNEL" /\ Silent /\ Unmoved
    BY <1>2 DEF AnsweredOnce, LeftSilent, Unmoved, machine
  <1> QED
    BY <1>1, <1>2, PreviewStoppedAnswers, PreviewReadyAnswers, PreviewingAnswers, PicTakingAnswers,
       RecordingAnswers, VideoPicTakingAnswers, PreviewPicTakingAnswers DEF Handle
-----------------------------------------------------------------------------
(* Sequences: what is taken from the middle, from the front, or appended.  *)

LEMMA SeqRemoveAt ==
    ASSUME NEW T, NEW s \in Seq(T), NEW i \in DOMAIN s
    PROVE  /\ RemoveAt(s, i) \in Seq(T)
           /\ DOMAIN RemoveAt(s, i) = 1 .. (Len(s) - 1)
           /\ \A k \in 1 .. (Len(s) - 1) : RemoveAt(s, i)[k] = IF k < i THEN s[k] ELSE s[k + 1]
  <1> DEFINE a == SubSeq(s, 1, i - 1)
             b == SubSeq(s, i + 1, Len(s))
  <1>1. Len(s) \in Nat /\ i \in 1 .. Len(s)
    OBVIOUS
  <1>2. /\ a \in Seq(T) /\ Len(a) = i - 1
        /\ \A k \in 1 .. (i - 1) : a[k] = s[k]
    BY <1>1
  <1>3. /\ b \in Seq(T) /\ Len(b) = Len(s) - i
        /\ \A k \in 1 .. (Len(s) - i) : b[k] = s[i + k]
    BY <1>1
  <1> HIDE DEF a, b
  <1>4. /\ a \o b \in Seq(T) /\ Len(a \o b) = Len(s) - 1
        /\ \A k \in 1 .. (Len(s) - 1) : (a \o b)[k] = IF k <= i - 1 THEN a[k] ELSE b[k - (i - 1)]
    BY <1>1, <1>2, <1>3
  <1>5. \A k \in 1 .. (Len(s) - 1) : (a \o b)[k] = IF k < i THEN s[k] ELSE s[k + 1]
    <2> TAKE k \in 1 .. (Len(s) - 1)
    <2>1. CASE k < i
      <3>1. k \in 1 .. (i - 1)
        BY <1>1, <2>1
      <3> QED
        BY <1>1, <1>2, <1>4, <2>1, <3>1
    <2>2. CASE ~(k < i)
      <3>1. k - (i - 1) \in 1 .. (Len(s) - i) /\ i + (k - (i - 1)) = k + 1 /\ ~(k <= i - 1)
        BY <1>1, <2>2
      <3> QED
        BY <1>1, <1>3, <1>4, <2>2, <3>1
    <2> QED
      BY <2>1, <2>2
  <1>6. RemoveAt(s, i) = a \o b
    BY DEF RemoveAt, a, b
  <1> QED
    BY <1>4, <1>5, <1>6

\* What is left after a removal was there, and what else was there is left.
LEMMA SeqRemoveAtElements ==
    ASSUME NEW T, NEW s \in Seq(T), NEW i \in DOMAIN s
    PROVE  /\ \A k \in DOMAIN RemoveAt(s, i) : \E j \in DOMAIN s \ {i} : RemoveAt(s, i)[k] = s[j]
           /\ \A j \in DOMAIN s \ {i} : \E k \in DOMAIN RemoveAt(s, i) : RemoveAt(s, i)[k] = s[j]
           /\ \A k, l \in DOMAIN RemoveAt(s, i) : k # l =>
                  \E j, m \in DOMAIN s \ {i} :
                      j # m /\ RemoveAt(s, i)[k] = s[j] /\ RemoveAt(s, i)[l] = s[m]
  <1> DEFINE r == RemoveAt(s, i)
             back(k) == IF k < i THEN k ELSE k + 1
  <1>1. Len(s) \in Nat /\ i \in 1 .. Len(s) /\ DOMAIN s = 1 .. Len(s)
    OBVIOUS
  <1>2. DOMAIN r = 1 .. (Len(s) - 1) /\ \A k \in 1 .. (Len(s) - 1) : r[k] = IF k < i THEN s[k] ELSE s[k + 1]
    BY SeqRemoveAt
  <1> HIDE DEF r
  <1>3. \A k \in DOMAIN r : back(k) \in DOMAIN s \ {i} /\ r[k] = s[back(k)]
    BY <1>1, <1>2
  <1>4. \A k, l \in DOMAIN r : k # l => back(k) # back(l)
    BY <1>1, <1>2
  <1>5. \A j \in DOMAIN s \ {i} : \E k \in DOMAIN r : r[k] = s[j]
    <2> TAKE j \in DOMAIN s \ {i}
    <2>1. CASE j < i
      <3>1. j \in DOMAIN r /\ r[j] = s[j]
        BY <1>1, <1>2, <2>1
      <3> QED
        BY <3>1
    <2>2. CASE j > i
      <3>1. j - 1 \in 1 .. (Len(s) - 1) /\ ~(j - 1 < i) /\ (j - 1) + 1 = j
        BY <1>1, <2>2
      <3>2. j - 1 \in DOMAIN r /\ r[j - 1] = s[j]
        BY <1>2, <3>1
      <3> QED
        BY <3>2
    <2> QED
      BY <1>1, <2>1, <2>2
  <1>6. \A k \in DOMAIN r : \E j \in DOMAIN s \ {i} : r[k] = s[j]
    BY <1>3
  <1>7. \A k, l \in DOMAIN r : k # l => \E j, m \in DOMAIN s \ {i} : j # m /\ r[k] = s[j] /\ r[l] = s[m]
    <2> TAKE k, l \in DOMAIN r
    <2> HAVE k # l
    <2>1. back(k) \in DOMAIN s \ {i} /\ back(l) \in DOMAIN s \ {i} /\ back(k) # back(l)
      BY <1>3, <1>4
    <2>2. r[k] = s[back(k)] /\ r[l] = s[back(l)]
      BY <1>3
    <2> HIDE DEF back
    <2> QED
      BY <2>1, <2>2
  <1> QED
    BY <1>5, <1>6, <1>7 DEF r

LEMMA SeqAppend ==
    ASSUME NEW T, NEW s \in Seq(T), NEW x \in T
    PROVE  /\ Append(s, x) \in Seq(T)
           /\ DOMAIN Append(s, x) = DOMAIN s \cup {Len(s) + 1}
           /\ Len(s) + 1 \notin DOMAIN s
           /\ Append(s, x)[Len(s) + 1] = x
           /\ \A i \in DOMAIN s : Append(s, x)[i] = s[i]
  OBVIOUS

\* What is behind the head of a queue.
LEMMA SeqTail ==
    ASSUME NEW T, NEW s \in Seq(T), s # <<>>
    PROVE  /\ Head(s) \in T /\ Head(s) = s[1] /\ 1 \in DOMAIN s
           /\ Tail(s) \in Seq(T)
           /\ \A k \in DOMAIN Tail(s) : k + 1 \in DOMAIN s /\ k + 1 # 1 /\ Tail(s)[k] = s[k + 1]
           /\ \A j \in DOMAIN s : j = 1 \/ (j - 1 \in DOMAIN Tail(s) /\ Tail(s)[j - 1] = s[j])
           /\ \A k, l \in DOMAIN Tail(s) : k + 1 = l + 1 => k = l
  OBVIOUS
-----------------------------------------------------------------------------
(* The inductive invariant of every camera, also of one that refuses.      *)

EvtSet == {"SNAPSHOT_DONE", "JPEG_EVT_NOTIFY", "PREP_SNAPSHOT_DONE"}
ResultSet == [api : Events, from : Posters, ok : BOOLEAN]
CallerSet == [call : DOMAIN FirstEvents \cup {None}, api : Events \cup {None}, woken : BOOLEAN]

QueueTypes ==
    /\ api_queue \in Seq(EventSet)
    /\ m_apiResultList \in Seq(ResultSet)
    /\ caller \in [Threads -> CallerSet]

\* The notifier sleeps for one SNAPSHOT_DONE, and nobody else posts one.
NotifierOK ==
    /\ evt_queue \in Seq(EvtSet)
    /\ notifier \in {"idle", "active", "wait", "told"}
    /\ notifier = "wait" <=> \E i \in DOMAIN evt_queue : evt_queue[i] = "SNAPSHOT_DONE"
    /\ \A i, j \in DOMAIN evt_queue :
          evt_queue[i] = "SNAPSHOT_DONE" /\ evt_queue[j] = "SNAPSHOT_DONE" => i = j

\* The call that an event belongs to.
CallOf(api) ==
    CASE api = "SET_PREVIEW_WINDOW" -> "set_preview_window"
      [] api = "START_PREVIEW" -> "start_preview"
      [] api = "STOP_PREVIEW" -> "stop_preview"
      [] api = "PREVIEW_ENABLED" -> "preview_enabled"
      [] api = "ENABLE_MSG_TYPE" -> "enable_msg_type"
      [] api = "DISABLE_MSG_TYPE" -> "disable_msg_type"
      [] api \in {"SET_PARAMS", "SET_PARAMS_STOP", "SET_PARAMS_COMMIT", "SET_PARAMS_RESTART"}
            -> "set_parameters"
      [] api \in {"PRE_START_RECORDING", "START_RECORDING"} -> "start_recording"
      [] api = "STOP_RECORDING" -> "stop_recording"
      [] api = "RELEASE_RECORDING_FRAME" -> "release_recording_frame"
      [] api \in {"PREPARE_SNAPSHOT", "PRE_TAKE_PICTURE", "TAKE_PICTURE"} -> "take_picture"
      [] api = "CANCEL_PICTURE" -> "cancel_picture"
      [] api = "RELEASE" -> "release"
      [] OTHER -> None

\* The callers are in different calls, each waits for an event of its call, and
\* one that was woken has its result in the list.
CallersOK ==
    /\ \A t \in Threads : IF caller[t].api = None
                          THEN caller[t].call = None /\ ~caller[t].woken
                          ELSE caller[t].call # None /\ caller[t].call = CallOf(caller[t].api)
    /\ \A t, u \in Threads : caller[t].call # None /\ caller[t].call = caller[u].call => t = u
    /\ \A t \in Threads : caller[t].woken =>
          \E i \in DOMAIN m_apiResultList : m_apiResultList[i].api = caller[t].api

CoreInv == MachineOK /\ QueueTypes /\ NotifierOK /\ CallersOK

LEMMA TypesGiveTypeOK ==
    ASSUME MachineOK, QueueTypes, NotifierOK
    PROVE  TypeOK
  BY DEF MachineOK, MachineTypes, QueueTypes, NotifierOK, TypeOK, ChannelSet, ParameterSet,
         MessageSet, ShotSet, CommandSet, EventSet, ResultSet, CallerSet, EvtSet

LEMMA FirstEventsFact ==
    /\ DOMAIN FirstEvents =
          {"set_preview_window", "start_preview", "stop_preview", "preview_enabled",
           "enable_msg_type", "disable_msg_type", "set_parameters", "start_recording",
           "stop_recording", "release_recording_frame", "take_picture", "cancel_picture",
           "release"}
    /\ \A k \in DOMAIN FirstEvents : \A api \in FirstEvents[k] :
          api \in Events /\ api # None /\ k # None /\ CallOf(api) = k
  <1>1. DOMAIN FirstEvents =
          {"set_preview_window", "start_preview", "stop_preview", "preview_enabled",
           "enable_msg_type", "disable_msg_type", "set_parameters", "start_recording",
           "stop_recording", "release_recording_frame", "take_picture", "cancel_picture",
           "release"}
    BY DEF FirstEvents
  <1>2. ASSUME NEW k \in DOMAIN FirstEvents, NEW api \in FirstEvents[k]
        PROVE  api \in Events /\ api # None /\ k # None /\ CallOf(api) = k
    <2>1. api \in Events
      BY DEF Events
    <2>2. /\ k = "set_preview_window" => api = "SET_PREVIEW_WINDOW"
          /\ k = "start_preview" => api = "START_PREVIEW"
          /\ k = "stop_preview" => api = "STOP_PREVIEW"
          /\ k = "preview_enabled" => api = "PREVIEW_ENABLED"
          /\ k = "enable_msg_type" => api = "ENABLE_MSG_TYPE"
          /\ k = "disable_msg_type" => api = "DISABLE_MSG_TYPE"
          /\ k = "set_parameters" => api = "SET_PARAMS"
          /\ k = "start_recording" => api = "PRE_START_RECORDING"
          /\ k = "stop_recording" => api = "STOP_RECORDING"
          /\ k = "release_recording_frame" => api = "RELEASE_RECORDING_FRAME"
          /\ k = "take_picture" => api \in {"PRE_TAKE_PICTURE", "PREPARE_SNAPSHOT"}
          /\ k = "cancel_picture" => api = "CANCEL_PICTURE"
          /\ k = "release" => api = "RELEASE"
      BY DEF FirstEvents
    <2>3. CallOf(api) = k /\ api # None
      BY <1>1, <2>2 DEF CallOf, None
    <2> QED
      BY <1>1, <2>1, <2>3 DEF None
  <1> QED
    BY <1>1, <1>2

LEMMA EventsFact ==
    {"SET_PREVIEW_WINDOW", "START_PREVIEW", "STOP_PREVIEW", "PREVIEW_ENABLED", "ENABLE_MSG_TYPE",
     "DISABLE_MSG_TYPE", "SET_PARAMS", "PRE_START_RECORDING", "STOP_RECORDING",
     "RELEASE_RECORDING_FRAME", "PRE_TAKE_PICTURE", "CANCEL_PICTURE", "RELEASE",
     "SET_PARAMS_STOP", "SET_PARAMS_COMMIT", "SET_PARAMS_RESTART", "START_RECORDING",
     "TAKE_PICTURE", "STOP_CAPTURE_CHANNEL"} \subseteq Events
  <1>1. /\ "SET_PREVIEW_WINDOW" \in FirstEvents["set_preview_window"]
        /\ "START_PREVIEW" \in FirstEvents["start_preview"]
        /\ "STOP_PREVIEW" \in FirstEvents["stop_preview"]
        /\ "PREVIEW_ENABLED" \in FirstEvents["preview_enabled"]
        /\ "ENABLE_MSG_TYPE" \in FirstEvents["enable_msg_type"]
        /\ "DISABLE_MSG_TYPE" \in FirstEvents["disable_msg_type"]
        /\ "SET_PARAMS" \in FirstEvents["set_parameters"]
        /\ "PRE_START_RECORDING" \in FirstEvents["start_recording"]
        /\ "STOP_RECORDING" \in FirstEvents["stop_recording"]
        /\ "RELEASE_RECORDING_FRAME" \in FirstEvents["release_recording_frame"]
        /\ "PRE_TAKE_PICTURE" \in FirstEvents["take_picture"]
        /\ "CANCEL_PICTURE" \in FirstEvents["cancel_picture"]
        /\ "RELEASE" \in FirstEvents["release"]
    BY DEF FirstEvents
  <1>2. UNION {FirstEvents[k] : k \in DOMAIN FirstEvents} \subseteq Events
    BY DEF Events
  <1>3. \A k \in DOMAIN FirstEvents : FirstEvents[k] \subseteq Events
    BY <1>2
  <1>4. {"SET_PARAMS_STOP", "SET_PARAMS_COMMIT", "SET_PARAMS_RESTART", "START_RECORDING",
         "TAKE_PICTURE", "STOP_CAPTURE_CHANNEL"} \subseteq Events
    BY DEF Events
  <1>5. DOMAIN FirstEvents =
          {"set_preview_window", "start_preview", "stop_preview", "preview_enabled",
           "enable_msg_type", "disable_msg_type", "set_parameters", "start_recording",
           "stop_recording", "release_recording_frame", "take_picture", "cancel_picture",
           "release"}
    BY FirstEventsFact
  <1>6. /\ FirstEvents["set_preview_window"] \subseteq Events /\ FirstEvents["start_preview"] \subseteq Events
        /\ FirstEvents["stop_preview"] \subseteq Events /\ FirstEvents["preview_enabled"] \subseteq Events
        /\ FirstEvents["enable_msg_type"] \subseteq Events /\ FirstEvents["disable_msg_type"] \subseteq Events
        /\ FirstEvents["set_parameters"] \subseteq Events /\ FirstEvents["start_recording"] \subseteq Events
        /\ FirstEvents["stop_recording"] \subseteq Events /\ FirstEvents["take_picture"] \subseteq Events
        /\ FirstEvents["release_recording_frame"] \subseteq Events
        /\ FirstEvents["cancel_picture"] \subseteq Events /\ FirstEvents["release"] \subseteq Events
    BY <1>3, <1>5
  <1> QED
    BY <1>1, <1>4, <1>6

\* An event that is answered: the list grows by its result, the callers keep
\* their calls, and who was woken finds a result.
LEMMA ReplyKeeps ==
    ASSUME QueueTypes, CallersOK, NEW e, e.api \in Events, e.from \in Posters,
           NEW ok \in BOOLEAN, Reply(e, ok)
    PROVE  /\ m_apiResultList' \in Seq(ResultSet)
           /\ caller' \in [Threads -> CallerSet]
           /\ CallersOK'
           /\ \A t \in Threads : caller'[t].call = caller[t].call /\ caller'[t].api = caller[t].api
           /\ m_apiResultList' = Append(m_apiResultList, [api |-> e.api, from |-> e.from, ok |-> ok])
  <1> DEFINE x == [api |-> e.api, from |-> e.from, ok |-> ok]
  <1>1. x \in ResultSet /\ m_apiResultList' = Append(m_apiResultList, x)
    BY DEF ResultSet, Reply
  <1> HIDE DEF x
  <1>2. m_apiResultList \in Seq(ResultSet) /\ caller \in [Threads -> CallerSet]
    BY DEF QueueTypes
  <1>3. /\ m_apiResultList' \in Seq(ResultSet)
        /\ DOMAIN m_apiResultList \subseteq DOMAIN m_apiResultList'
        /\ \A i \in DOMAIN m_apiResultList : m_apiResultList'[i] = m_apiResultList[i]
    BY <1>1, <1>2, SeqAppend
  <1>4. caller' = [t \in Threads |->
                     IF Waiting(t) /\ \E i \in DOMAIN m_apiResultList' :
                                          m_apiResultList'[i].api = caller[t].api
                     THEN [caller[t] EXCEPT !.woken = TRUE] ELSE caller[t]]
    BY DEF Reply
  <1>5. ASSUME NEW t \in Threads
        PROVE  /\ caller'[t] \in CallerSet
               /\ caller'[t].call = caller[t].call /\ caller'[t].api = caller[t].api
               /\ \/ caller'[t].woken = caller[t].woken
                  \/ /\ caller[t].api # None
                     /\ \E i \in DOMAIN m_apiResultList' : m_apiResultList'[i].api = caller[t].api
    <2>1. caller[t] \in CallerSet
      BY <1>2
    <2>2. CASE Waiting(t) /\ \E i \in DOMAIN m_apiResultList' : m_apiResultList'[i].api = caller[t].api
      <3>1. caller'[t] = [caller[t] EXCEPT !.woken = TRUE]
        BY <1>4, <2>2
      <3> QED
        BY <2>1, <2>2, <3>1 DEF CallerSet, Waiting
    <2>3. CASE ~(Waiting(t) /\ \E i \in DOMAIN m_apiResultList' : m_apiResultList'[i].api = caller[t].api)
      <3>1. caller'[t] = caller[t]
        BY <1>4, <2>3
      <3> QED
        BY <2>1, <3>1
    <2> QED
      BY <2>2, <2>3
  <1>6. caller' \in [Threads -> CallerSet]
    BY <1>4, <1>5
  <1>7. CallersOK'
    <2>1. ASSUME NEW t \in Threads
          PROVE  /\ IF caller'[t].api = None
                    THEN caller'[t].call = None /\ ~caller'[t].woken
                    ELSE caller'[t].call # None /\ caller'[t].call = CallOf(caller'[t].api)
                 /\ caller'[t].woken =>
                       \E i \in DOMAIN m_apiResultList' : m_apiResultList'[i].api = caller'[t].api
      BY <1>3, <1>5 DEF CallersOK
    <2>2. \A t, u \in Threads : caller'[t].call # None /\ caller'[t].call = caller'[u].call => t = u
      BY <1>5 DEF CallersOK
    <2> QED
      BY <2>1, <2>2 DEF CallersOK
  <1> QED
    BY <1>1, <1>3, <1>5, <1>6, <1>7 DEF x

LEMMA SilentKeeps ==
    ASSUME QueueTypes, CallersOK, Silent
    PROVE  /\ m_apiResultList' \in Seq(ResultSet)
           /\ caller' \in [Threads -> CallerSet]
           /\ CallersOK'
  BY DEF Silent, QueueTypes, CallersOK
-----------------------------------------------------------------------------
(* Every step keeps it.                                                    *)

Dummy == [api |-> "START_PREVIEW", from |-> "internal", arg |-> NoArg]

LEMMA DummyType == Dummy \in EventSet /\ NoArg \in ArgSet
  BY EventsFact DEF Dummy, EventSet, Posters, NoArg, ArgSet

\* A step that leaves the state machine's variables alone.
LEMMA MachineAside ==
    ASSUME MachineOK, UNCHANGED machine, shot' \in ShotSet,
           live' \in {None, "take", "cancel"}, cbq' \in Seq(CommandSet)
    PROVE  MachineOK'
  BY DEF MachineOK, MachineTypes, FilmsWhenItSays, Healthy, machine

\* Only the channel of the pictures is touched.
LEMMA SnapshotChannelOnly ==
    ASSUME MachineOK, NEW v \in {"idle", "on"}, ch' \in {ch, [ch EXCEPT !["SNAPSHOT"] = v]},
           UNCHANGED <<m_state, prm, msg, mPreviewWindow>>, shot' \in ShotSet,
           live' \in {None, "take", "cancel"}, cbq' \in Seq(CommandSet)
    PROVE  MachineOK'
  <1>1. ch' \in ChannelSet /\ \A k \in {"ZSL", "PREVIEW", "VIDEO"} : ch'[k] = ch[k]
    BY DEF MachineOK, MachineTypes, ChannelSet, Channels
  <1>2. PreviewOn(ch') <=> PreviewOn(ch)
    BY <1>1 DEF PreviewOn
  <1>3. Healthy => Healthy'
    BY <1>1, <1>2 DEF Healthy
  <1> QED
    BY <1>1, <1>3 DEF MachineOK, MachineTypes, FilmsWhenItSays

\* An event that is not SNAPSHOT_DONE is appended or taken.
LEMMA OtherEvent ==
    ASSUME NotifierOK, notifier' = notifier,
           \/ \E x \in EvtSet \ {"SNAPSHOT_DONE"} : evt_queue' = Append(evt_queue, x)
           \/ evt_queue # <<>> /\ Head(evt_queue) # "SNAPSHOT_DONE" /\ evt_queue' = Tail(evt_queue)
    PROVE  NotifierOK'
  <1>1. evt_queue \in Seq(EvtSet)
    BY DEF NotifierOK
  <1>2. CASE \E x \in EvtSet \ {"SNAPSHOT_DONE"} : evt_queue' = Append(evt_queue, x)
    <2>1. PICK x \in EvtSet \ {"SNAPSHOT_DONE"} : evt_queue' = Append(evt_queue, x)
      BY <1>2
    <2>2. /\ evt_queue' \in Seq(EvtSet)
          /\ DOMAIN evt_queue' = DOMAIN evt_queue \cup {Len(evt_queue) + 1}
          /\ evt_queue'[Len(evt_queue) + 1] # "SNAPSHOT_DONE"
          /\ \A i \in DOMAIN evt_queue : evt_queue'[i] = evt_queue[i]
      BY <1>1, <2>1, SeqAppend
    <2> QED
      BY <2>2 DEF NotifierOK
  <1>3. CASE evt_queue # <<>> /\ Head(evt_queue) # "SNAPSHOT_DONE" /\ evt_queue' = Tail(evt_queue)
    <2>1. /\ Head(evt_queue) = evt_queue[1]
          /\ evt_queue' \in Seq(EvtSet)
          /\ \A k \in DOMAIN evt_queue' : k + 1 \in DOMAIN evt_queue /\ evt_queue'[k] = evt_queue[k + 1]
          /\ \A j \in DOMAIN evt_queue : j = 1 \/ (j - 1 \in DOMAIN evt_queue' /\ evt_queue'[j - 1] = evt_queue[j])
          /\ \A k, l \in DOMAIN evt_queue' : k + 1 = l + 1 => k = l
      BY <1>1, <1>3, SeqTail
    <2>2. (\E i \in DOMAIN evt_queue' : evt_queue'[i] = "SNAPSHOT_DONE")
                <=> \E i \in DOMAIN evt_queue : evt_queue[i] = "SNAPSHOT_DONE"
      <3>1. evt_queue[1] # "SNAPSHOT_DONE"
        BY <1>3, <2>1
      <3>2. ASSUME NEW i \in DOMAIN evt_queue, evt_queue[i] = "SNAPSHOT_DONE"
            PROVE  \E k \in DOMAIN evt_queue' : evt_queue'[k] = "SNAPSHOT_DONE"
        <4>1. i - 1 \in DOMAIN evt_queue' /\ evt_queue'[i - 1] = evt_queue[i]
          BY <2>1, <3>1, <3>2
        <4> QED
          BY <3>2, <4>1
      <3>3. ASSUME NEW i \in DOMAIN evt_queue', evt_queue'[i] = "SNAPSHOT_DONE"
            PROVE  \E k \in DOMAIN evt_queue : evt_queue[k] = "SNAPSHOT_DONE"
        BY <2>1, <3>3
      <3> QED
        BY <3>2, <3>3
    <2>3. \A i, j \in DOMAIN evt_queue' :
             evt_queue'[i] = "SNAPSHOT_DONE" /\ evt_queue'[j] = "SNAPSHOT_DONE" => i = j
      BY <2>1 DEF NotifierOK
    <2> QED
      BY <2>1, <2>2, <2>3 DEF NotifierOK
  <1> QED
    BY <1>2, <1>3

\* The queue of API calls grows by an event, is shortened, or is left alone.
LEMMA PostInternalType ==
    ASSUME api_queue \in Seq(EventSet), NEW api \in Events, PostInternal(api)
    PROVE  api_queue' \in Seq(EventSet)
  <1>1. [api |-> api, from |-> "internal", arg |-> NoArg] \in EventSet
    BY DummyType DEF EventSet, Posters
  <1> QED
    BY <1>1, SeqAppend DEF PostInternal

LEMMA SmApiCore ==
    ASSUME CoreInv, SmApi
    PROVE  CoreInv'
  <1> DEFINE e == Head(api_queue)
  <1>1. api_queue # <<>> /\ Handle(e) /\ api_queue' = Tail(api_queue) /\ UNCHANGED <<evt_queue, notifier>>
    BY DEF SmApi
  <1>2. MachineOK /\ QueueTypes /\ CallersOK /\ api_queue \in Seq(EventSet)
    BY DEF CoreInv, QueueTypes
  <1>3. e \in EventSet /\ api_queue' \in Seq(EventSet)
    BY <1>1, <1>2, SeqTail
  <1> HIDE DEF e
  <1>4. e.api \in Events /\ e.from \in Posters
    BY <1>3 DEF EventSet
  <1>5. MachineOK'
    BY <1>1, <1>2, <1>3, HandleKeeps
  <1>6. (\E ok \in BOOLEAN : Reply(e, ok)) \/ Silent
    BY <1>1, <1>2, <1>3, HandleAnswers DEF AnsweredOnce, AnswerIs
  <1>7. m_apiResultList' \in Seq(ResultSet) /\ caller' \in [Threads -> CallerSet] /\ CallersOK'
    BY <1>2, <1>4, <1>6, ReplyKeeps, SilentKeeps
  <1> QED
    BY <1>1, <1>3, <1>5, <1>7 DEF CoreInv, QueueTypes, NotifierOK

LEMMA SnapshotDoneCore ==
    ASSUME CoreInv, SnapshotDone, evt_queue # <<>>, Head(evt_queue) = "SNAPSHOT_DONE",
           evt_queue' = Tail(evt_queue), UNCHANGED api_queue
    PROVE  CoreInv'
  <1>1. MachineOK /\ QueueTypes /\ CallersOK /\ evt_queue \in Seq(EvtSet)
    BY DEF CoreInv, NotifierOK
  <1>2. MachineOK'
    <2>1. CASE m_state = "PIC_TAKING" /\ m_state' = "PREVIEW_STOPPED" /\ CancelPicture
      BY <1>1, <2>1, DummyType, CancelPictureKeeps DEF SnapshotDone
    <2>2. CASE m_state = "VIDEO_PIC_TAKING" /\ m_state' = "RECORDING" /\ CancelLiveSnapshot(ch)
      BY <1>1, <2>2, DummyType, LiveSnapshotCancelled DEF SnapshotDone
    <2>3. CASE m_state = "PREVIEW_PIC_TAKING" /\ m_state' = "PREVIEWING" /\ CancelPreviewPicture(ch)
      <3>1. Dummy.api # "SET_PARAMS_RESTART"
        BY DEF Dummy
      <3> QED
        BY <1>1, <2>3, <3>1, DummyType, PreviewPictureCancelled DEF SnapshotDone
    <2>4. CASE UNCHANGED <<m_state, ch, shot, live, cbq>>
      BY <1>1, <2>4, MachineAside DEF SnapshotDone, machine, MachineOK, MachineTypes
    <2> QED
      BY <2>1, <2>2, <2>3, <2>4 DEF SnapshotDone
  <1>3. m_apiResultList' \in Seq(ResultSet) /\ caller' \in [Threads -> CallerSet] /\ CallersOK'
    BY <1>1, SilentKeeps DEF SnapshotDone
  <1>4. NotifierOK'
    <2>1. /\ Head(evt_queue) = evt_queue[1] /\ 1 \in DOMAIN evt_queue
          /\ evt_queue' \in Seq(EvtSet)
          /\ \A k \in DOMAIN evt_queue' : k + 1 \in DOMAIN evt_queue /\ k + 1 # 1 /\ evt_queue'[k] = evt_queue[k + 1]
      BY <1>1, SeqTail
    <2>2. \A k \in DOMAIN evt_queue' : evt_queue'[k] # "SNAPSHOT_DONE"
      BY <2>1 DEF CoreInv, NotifierOK
    <2>3. notifier' = "told"
      BY DEF SnapshotDone
    <2> QED
      BY <2>1, <2>2, <2>3 DEF NotifierOK
  <1> QED
    BY <1>1, <1>2, <1>3, <1>4 DEF CoreInv, QueueTypes

LEMMA JpegEvtNotifyCore ==
    ASSUME CoreInv, JpegEvtNotify, evt_queue # <<>>, Head(evt_queue) = "JPEG_EVT_NOTIFY",
           evt_queue' = Tail(evt_queue), UNCHANGED api_queue
    PROVE  CoreInv'
  <1>1. "JOB" \in CommandSet /\ cbq \in Seq(CommandSet)
    BY DEF CommandSet, CoreInv, MachineOK, MachineTypes
  <1>2. cbq' \in Seq(CommandSet)
    BY <1>1, SeqAppend DEF JpegEvtNotify
  <1>3. MachineOK'
    BY <1>2, MachineAside DEF JpegEvtNotify, CoreInv, MachineOK, MachineTypes
  <1>4. m_apiResultList' \in Seq(ResultSet) /\ caller' \in [Threads -> CallerSet] /\ CallersOK'
    BY SilentKeeps DEF JpegEvtNotify, CoreInv
  <1>5. NotifierOK'
    BY OtherEvent DEF JpegEvtNotify, CoreInv
  <1> QED
    BY <1>3, <1>4, <1>5 DEF CoreInv, QueueTypes

LEMMA PrepSnapshotDoneCore ==
    ASSUME CoreInv, PrepSnapshotDone, evt_queue # <<>>, Head(evt_queue) = "PREP_SNAPSHOT_DONE",
           evt_queue' = Tail(evt_queue), UNCHANGED api_queue
    PROVE  CoreInv'
  <1>1. PICK t \in Threads : Reply([api |-> "PREPARE_SNAPSHOT", from |-> t], TRUE)
    BY DEF PrepSnapshotDone
  <1>2. "PREPARE_SNAPSHOT" \in Events
    <2>1. caller \in [Threads -> CallerSet] /\ CallersOK
      BY DEF CoreInv, QueueTypes
    <2>2. PICK u \in Threads : caller[u].api = "PREPARE_SNAPSHOT"
      BY DEF PrepSnapshotDone
    <2>3. caller[u] \in CallerSet
      BY <2>1
    <2> QED
      BY <2>2, <2>3 DEF CallerSet, None
  <1>3. m_apiResultList' \in Seq(ResultSet) /\ caller' \in [Threads -> CallerSet] /\ CallersOK'
    BY <1>1, <1>2, ReplyKeeps DEF CoreInv, Posters
  <1>4. MachineOK'
    BY DEF PrepSnapshotDone, CoreInv, MachineOK, MachineTypes, FilmsWhenItSays, Healthy, Stopped, States
  <1>5. NotifierOK'
    BY OtherEvent DEF PrepSnapshotDone, CoreInv
  <1> QED
    BY <1>3, <1>4, <1>5 DEF CoreInv, QueueTypes

\* What a caller posts is an event of its call.
LEMMA PostCore ==
    ASSUME CoreInv, NEW t \in Threads, NEW k \in DOMAIN FirstEvents, NEW api \in Events,
           NEW arg \in ArgSet, Post(t, k, api, arg),
           api # None, k # None, CallOf(api) = k,
           \A u \in Threads : u # t => caller[u].call # k,
           m_apiResultList' \in Seq(ResultSet),
           \A u \in Threads : u # t /\ caller[u].woken =>
               \E i \in DOMAIN m_apiResultList' : m_apiResultList'[i].api = caller[u].api
    PROVE  QueueTypes' /\ CallersOK'
  <1>1. [api |-> api, from |-> t, arg |-> arg] \in EventSet
    BY DEF EventSet, Posters
  <1>2. api_queue' \in Seq(EventSet)
    BY <1>1, SeqAppend DEF Post, CoreInv, QueueTypes
  <1>3. /\ caller \in [Threads -> CallerSet]
        /\ caller' = [caller EXCEPT ![t] = [call |-> k, api |-> api, woken |-> FALSE]]
    BY DEF Post, CoreInv, QueueTypes
  <1>4. [call |-> k, api |-> api, woken |-> FALSE] \in CallerSet
    BY DEF CallerSet
  <1>5. caller' \in [Threads -> CallerSet]
    BY <1>3, <1>4
  <1>6. /\ caller'[t].call = k /\ caller'[t].api = api /\ caller'[t].woken = FALSE
        /\ \A u \in Threads : u # t => caller'[u] = caller[u]
    BY <1>3
  <1>7. CallersOK'
    <2>1. ASSUME NEW u \in Threads
          PROVE  /\ IF caller'[u].api = None
                    THEN caller'[u].call = None /\ ~caller'[u].woken
                    ELSE caller'[u].call # None /\ caller'[u].call = CallOf(caller'[u].api)
                 /\ caller'[u].woken =>
                       \E i \in DOMAIN m_apiResultList' : m_apiResultList'[i].api = caller'[u].api
      BY <1>6 DEF CoreInv, CallersOK
    <2>2. \A u, v \in Threads : caller'[u].call # None /\ caller'[u].call = caller'[v].call => u = v
      BY <1>6 DEF CoreInv, CallersOK
    <2> QED
      BY <2>1, <2>2 DEF CallersOK
  <1> QED
    BY <1>2, <1>5, <1>7 DEF QueueTypes

LEMMA ArgsType ==
    ASSUME NEW k \in DOMAIN FirstEvents, NEW arg \in Args(k)
    PROVE  arg \in ArgSet
  <1>1. CASE k = "set_parameters"
    <2>1. arg \in [zsl : BOOLEAN, win : {FALSE}]
      BY <1>1 DEF Args
    <2> QED
      BY <2>1 DEF ArgSet
  <1>2. CASE k = "set_preview_window"
    <2>1. arg \in [zsl : {FALSE}, win : BOOLEAN]
      BY <1>2 DEF Args
    <2> QED
      BY <2>1 DEF ArgSet
  <1>3. CASE k \notin {"set_parameters", "set_preview_window"}
    BY <1>3, DummyType DEF Args
  <1> QED
    BY <1>1, <1>2, <1>3

LEMMA CallCore ==
    ASSUME CoreInv, NEW t \in Threads, NEW k \in Calls[t], Call(t, k)
    PROVE  CoreInv'
  <1>1. k \in DOMAIN FirstEvents
    BY CameraConstants
  <1>2. PICK api \in FirstEvents[k], arg \in Args(k) : Post(t, k, api, arg)
    BY DEF Call
  <1>3. api \in Events /\ api # None /\ k # None /\ CallOf(api) = k
    BY <1>1, FirstEventsFact
  <1>4. arg \in ArgSet
    BY <1>1, ArgsType
  <1>5. QueueTypes' /\ CallersOK'
    <2>1. m_apiResultList' = m_apiResultList /\ \A u \in Threads : caller[u].call # k
      BY DEF Call
    <2>2. \A u \in Threads : caller[u].woken =>
             \E i \in DOMAIN m_apiResultList' : m_apiResultList'[i].api = caller[u].api
      BY <2>1 DEF CoreInv, CallersOK
    <2> QED
      BY <1>1, <1>2, <1>3, <1>4, <2>1, <2>2, PostCore DEF CoreInv, QueueTypes
  <1>6. MachineOK'
    BY MachineAside DEF Call, picture, CoreInv, MachineOK, MachineTypes
  <1>7. NotifierOK'
    BY DEF Call, picture, CoreInv, NotifierOK
  <1> QED
    BY <1>5, <1>6, <1>7 DEF CoreInv

\* The result that a woken caller takes is of the event it waits for.
LEMMA WakeTakes ==
    ASSUME CoreInv, NEW t \in Threads, Wake(t)
    PROVE  /\ caller[t].api # None
           /\ \E i \in DOMAIN m_apiResultList :
                 /\ m_apiResultList[i].api = caller[t].api
                 /\ m_apiResultList' = RemoveAt(m_apiResultList, i)
                 /\ \/ /\ NextEvents(caller[t].api, m_apiResultList[i].ok) = {}
                       /\ caller' = [caller EXCEPT ![t] = Idle]
                       /\ UNCHANGED api_queue
                    \/ \E api \in NextEvents(caller[t].api, m_apiResultList[i].ok) :
                          Post(t, caller[t].call, api, NoArg)
  <1> DEFINE mine == {n \in DOMAIN m_apiResultList : m_apiResultList[n].api = caller[t].api}
             i == CHOOSE n \in mine : \A k \in mine : n <= k
  <1>1. m_apiResultList \in Seq(ResultSet) /\ caller[t].woken /\ CallersOK
    BY DEF Wake, CoreInv, QueueTypes
  <1>2. caller[t].api # None /\ mine # {}
    BY <1>1 DEF CallersOK
  <1>3. mine \subseteq Nat
    BY <1>1
  <1>4. \E n \in mine : \A k \in mine : n <= k
    <2> DEFINE R == {ss \in Nat \X Nat : ss[1] < ss[2]}
    <2>1. IsWellFoundedOn(R, Nat)
      BY NatLessThanWellFounded DEF OpToRel
    <2>2. \A m, n \in Nat : m < n => <<m, n>> \in R
      OBVIOUS
    <2> HIDE DEF R, mine
    <2>3. \E n \in mine : \A k \in mine : ~(<<k, n>> \in R)
      BY <1>2, <1>3, <2>1, WFMin
    <2>4. PICK n \in mine : \A k \in mine : ~(<<k, n>> \in R)
      BY <2>3
    <2>5. \A k \in mine : n <= k
      <3> TAKE k \in mine
      <3>1. k \in Nat /\ n \in Nat /\ ~(k < n)
        BY <1>3, <2>2, <2>4
      <3> QED
        BY <3>1
    <2> QED
      BY <2>5
  <1>5. i \in mine
    BY <1>4
  <1>6. /\ m_apiResultList' = RemoveAt(m_apiResultList, i)
        /\ \/ /\ NextEvents(caller[t].api, m_apiResultList[i].ok) = {}
              /\ caller' = [caller EXCEPT ![t] = Idle]
              /\ UNCHANGED api_queue
           \/ \E api \in NextEvents(caller[t].api, m_apiResultList[i].ok) :
                 Post(t, caller[t].call, api, NoArg)
    BY Zenon DEF Wake
  <1> HIDE DEF i
  <1> QED
    BY <1>2, <1>5, <1>6

LEMMA NextEventsFact ==
    ASSUME NEW a, a # None, NEW ok, NEW api \in NextEvents(a, ok)
    PROVE  api \in Events /\ api # None /\ CallOf(api) = CallOf(a)
  <1>1. \/ a = "SET_PARAMS" /\ api \in {"SET_PARAMS_STOP", "SET_PARAMS_COMMIT"}
        \/ a = "SET_PARAMS_STOP" /\ api = "SET_PARAMS_COMMIT"
        \/ a = "SET_PARAMS_COMMIT" /\ api = "SET_PARAMS_RESTART"
        \/ a = "PRE_START_RECORDING" /\ api = "START_RECORDING"
        \/ a = "PREPARE_SNAPSHOT" /\ api = "PRE_TAKE_PICTURE"
        \/ a = "PRE_TAKE_PICTURE" /\ api = "TAKE_PICTURE"
    BY DEF NextEvents
  <1>2. api \in Events
    BY <1>1, EventsFact
  <1>3. api # None /\ CallOf(api) = CallOf(a)
    BY <1>1 DEF CallOf, None
  <1> QED
    BY <1>2, <1>3

\* Two callers never wait for the same event.
LEMMA EventsDiffer ==
    ASSUME CallersOK, NEW t \in Threads, NEW u \in Threads, caller[t].api # None,
           caller[t].api = caller[u].api
    PROVE  t = u
  BY DEF CallersOK

LEMMA WakeCore ==
    ASSUME CoreInv, NEW t \in Threads, Wake(t)
    PROVE  CoreInv'
  <1>1. PICK i \in DOMAIN m_apiResultList :
           /\ m_apiResultList[i].api = caller[t].api
           /\ m_apiResultList' = RemoveAt(m_apiResultList, i)
           /\ \/ caller' = [caller EXCEPT ![t] = Idle] /\ UNCHANGED api_queue
              \/ \E api \in NextEvents(caller[t].api, m_apiResultList[i].ok) :
                    Post(t, caller[t].call, api, NoArg)
    BY WakeTakes
  <1>2. /\ m_apiResultList \in Seq(ResultSet) /\ CallersOK
        /\ caller \in [Threads -> CallerSet] /\ caller[t].api # None
    BY WakeTakes DEF CoreInv, QueueTypes
  <1>3. /\ m_apiResultList' \in Seq(ResultSet)
        /\ \A j \in DOMAIN m_apiResultList \ {i} :
              \E k \in DOMAIN m_apiResultList' : m_apiResultList'[k] = m_apiResultList[j]
    BY <1>1, <1>2, SeqRemoveAt, SeqRemoveAtElements
  <1>4. \A u \in Threads : u # t /\ caller[u].woken =>
           \E k \in DOMAIN m_apiResultList' : m_apiResultList'[k].api = caller[u].api
    <2> TAKE u \in Threads
    <2> HAVE u # t /\ caller[u].woken
    <2>1. PICK j \in DOMAIN m_apiResultList : m_apiResultList[j].api = caller[u].api
      BY <1>2 DEF CallersOK
    <2>2. caller[u].api # caller[t].api
      BY <1>2, EventsDiffer
    <2> QED
      BY <1>1, <1>3, <2>1, <2>2
  <1>5. QueueTypes' /\ CallersOK'
    <2>1. CASE caller' = [caller EXCEPT ![t] = Idle] /\ UNCHANGED api_queue
      <3>1. Idle \in CallerSet /\ Idle.call = None /\ Idle.api = None /\ Idle.woken = FALSE
        BY DEF Idle, CallerSet
      <3>2. /\ caller' \in [Threads -> CallerSet] /\ caller'[t] = Idle
            /\ \A u \in Threads : u # t => caller'[u] = caller[u]
        BY <1>2, <2>1, <3>1
      <3>3. ASSUME NEW u \in Threads
            PROVE  /\ IF caller'[u].api = None
                      THEN caller'[u].call = None /\ ~caller'[u].woken
                      ELSE caller'[u].call # None /\ caller'[u].call = CallOf(caller'[u].api)
                   /\ caller'[u].woken =>
                         \E k \in DOMAIN m_apiResultList' : m_apiResultList'[k].api = caller'[u].api
        BY <1>2, <1>4, <3>1, <3>2 DEF CallersOK
      <3>4. \A u, v \in Threads : caller'[u].call # None /\ caller'[u].call = caller'[v].call => u = v
        BY <1>2, <3>1, <3>2 DEF CallersOK
      <3>5. CallersOK'
        BY <3>3, <3>4 DEF CallersOK
      <3> QED
        BY <1>3, <2>1, <3>2, <3>5 DEF QueueTypes, CoreInv
    <2>2. CASE \E api \in NextEvents(caller[t].api, m_apiResultList[i].ok) :
                  Post(t, caller[t].call, api, NoArg)
      <3>1. PICK api \in NextEvents(caller[t].api, m_apiResultList[i].ok) :
               Post(t, caller[t].call, api, NoArg)
        BY <2>2
      <3>2. api \in Events /\ api # None /\ CallOf(api) = CallOf(caller[t].api)
        BY <1>2, NextEventsFact
      <3>3. caller[t] \in CallerSet
        BY <1>2
      <3>4. caller[t].call \in DOMAIN FirstEvents /\ caller[t].call # None /\ CallOf(api) = caller[t].call
        BY <1>2, <3>2, <3>3 DEF CallersOK, CallerSet
      <3>5. \A u \in Threads : u # t => caller[u].call # caller[t].call
        BY <1>2, <3>4 DEF CallersOK
      <3> QED
        BY <1>3, <1>4, <3>1, <3>2, <3>4, <3>5, DummyType, PostCore
    <2> QED
      BY <1>1, <2>1, <2>2
  <1>6. MachineOK'
    BY MachineAside DEF Wake, picture, CoreInv, MachineOK, MachineTypes
  <1>7. NotifierOK'
    BY DEF Wake, picture, CoreInv, NotifierOK
  <1> QED
    BY <1>5, <1>6, <1>7 DEF CoreInv

\* The steps that touch no caller and no result.
LEMMA CallersAside ==
    ASSUME QueueTypes, CallersOK, UNCHANGED <<m_apiResultList, caller>>, api_queue' \in Seq(EventSet)
    PROVE  QueueTypes' /\ CallersOK'
  BY DEF QueueTypes, CallersOK

LEMMA NotifyCore ==
    ASSUME CoreInv, Notify
    PROVE  CoreInv'
  <1>1. cbq \in Seq(CommandSet) /\ cbq # <<>> /\ notifier # "wait" /\ evt_queue \in Seq(EvtSet)
    BY DEF Notify, CoreInv, MachineOK, MachineTypes, NotifierOK
  <1>2. Tail(cbq) \in Seq(CommandSet)
    BY <1>1, SeqTail
  <1>3. Flushed(Tail(cbq)) \in Seq(CommandSet)
    BY <1>2 DEF Flushed, CommandSet
  <1>4. cbq' \in Seq(CommandSet)
    BY <1>2, <1>3 DEF Notify
  <1>5. MachineOK'
    BY <1>4, MachineAside DEF Notify, CoreInv, MachineOK, MachineTypes
  <1>6. NotifierOK'
    <2>1. \A i \in DOMAIN evt_queue : evt_queue[i] # "SNAPSHOT_DONE"
      BY <1>1 DEF CoreInv, NotifierOK
    <2>2. CASE notifier' = "wait" /\ evt_queue' = Append(evt_queue, "SNAPSHOT_DONE")
      <3>1. /\ evt_queue' \in Seq(EvtSet)
            /\ DOMAIN evt_queue' = DOMAIN evt_queue \cup {Len(evt_queue) + 1}
            /\ evt_queue'[Len(evt_queue) + 1] = "SNAPSHOT_DONE"
            /\ \A i \in DOMAIN evt_queue : evt_queue'[i] = evt_queue[i]
        BY <1>1, <2>2, SeqAppend DEF EvtSet
      <3> QED
        BY <2>1, <2>2, <3>1 DEF NotifierOK
    <2>3. CASE notifier' \in {"active", "idle", notifier} /\ UNCHANGED evt_queue
      BY <1>1, <2>1, <2>3 DEF CoreInv, NotifierOK
    <2> QED
      BY <2>2, <2>3 DEF Notify
  <1>7. QueueTypes' /\ CallersOK'
    BY CallersAside DEF Notify, CoreInv, QueueTypes
  <1> QED
    BY <1>5, <1>6, <1>7 DEF CoreInv

LEMMA LiveTakeCore ==
    ASSUME CoreInv, LiveTake
    PROVE  CoreInv'
  <1>1. cbq' \in Seq(CommandSet)
    <2>1. "START" \in CommandSet
      BY DEF CommandSet
    <2> QED
      BY <2>1, TellType DEF LiveTake, CoreInv, MachineOK, MachineTypes
  <1>2. shot' \in ShotSet /\ live' = None
    BY DEF LiveTake, ShotSet, CoreInv, MachineOK, MachineTypes
  <1>3. MachineOK'
    BY <1>1, <1>2, SnapshotChannelOnly DEF LiveTake, CoreInv
  <1>4. api_queue' \in Seq(EventSet)
    BY PostInternalType, EventsFact DEF LiveTake, CoreInv, QueueTypes
  <1>5. QueueTypes' /\ CallersOK'
    BY <1>4, CallersAside DEF LiveTake, CoreInv
  <1> QED
    BY <1>3, <1>5 DEF LiveTake, CoreInv, NotifierOK

LEMMA LiveCancelCore ==
    ASSUME CoreInv, LiveCancel
    PROVE  CoreInv'
  <1>1. cbq' \in Seq(CommandSet)
    <2>1. "STOP" \in CommandSet
      BY DEF CommandSet
    <2> QED
      BY <2>1, TellType DEF LiveCancel, CoreInv, MachineOK, MachineTypes
  <1>2. shot' \in ShotSet /\ live' = None
    BY DEF LiveCancel, ShotSet, NoShot, CoreInv, MachineOK, MachineTypes
  <1>3. MachineOK'
    BY <1>1, <1>2, SnapshotChannelOnly DEF LiveCancel, CoreInv
  <1>4. QueueTypes' /\ CallersOK'
    BY CallersAside DEF LiveCancel, queues, CoreInv, QueueTypes
  <1> QED
    BY <1>3, <1>4 DEF LiveCancel, queues, CoreInv, NotifierOK

LEMMA CameraCore ==
    ASSUME CoreInv, FrameArrives \/ JpegDone \/ PrepDone
    PROVE  CoreInv'
  <1>1. shot' \in ShotSet /\ UNCHANGED <<machine, live, cbq>>
    BY DEF FrameArrives, JpegDone, PrepDone, picture, ShotSet, CoreInv, MachineOK, MachineTypes
  <1>2. MachineOK'
    BY <1>1, MachineAside DEF CoreInv, MachineOK, MachineTypes
  <1>3. api_queue' \in Seq(EventSet) /\ UNCHANGED <<m_apiResultList, caller>>
    BY PostInternalType, EventsFact DEF FrameArrives, JpegDone, PrepDone, CoreInv, QueueTypes
  <1>4. QueueTypes' /\ CallersOK'
    BY <1>3, CallersAside DEF CoreInv
  <1>5. NotifierOK'
    <2>1. /\ notifier' = notifier
          /\ UNCHANGED evt_queue \/ \E x \in EvtSet \ {"SNAPSHOT_DONE"} : evt_queue' = Append(evt_queue, x)
      BY DEF FrameArrives, JpegDone, PrepDone, picture, EvtSet
    <2> QED
      BY <2>1, OtherEvent DEF CoreInv, NotifierOK
  <1> QED
    BY <1>2, <1>4, <1>5 DEF CoreInv

LEMMA CoreInit ==
    ASSUME Init
    PROVE  CoreInv
  <1>1. Unset \in ChannelSet /\ ~Filming(Unset) /\ ~PreviewOn(Unset) /\ Unset["VIDEO"] = None
    BY DEF Unset, ChannelSet, Filming, PreviewOn, Channels, None
  <1>2. prm \in ParameterSet
    <2>1. PICK z \in BOOLEAN : prm = [zsl |-> z, hint |-> FALSE, new |-> [zsl |-> z, hint |-> FALSE],
                                      needRestart |-> FALSE]
      BY DEF Init
    <2> QED
      BY <2>1 DEF ParameterSet, Modes
  <1>3. msg \in MessageSet /\ shot \in ShotSet /\ msg.delayed = FALSE
    BY DEF Init, MessageSet, ShotSet, NoShot
  <1>4. MachineOK
    BY <1>1, <1>2, <1>3 DEF Init, MachineOK, MachineTypes, States, FilmsWhenItSays, Filming, Healthy
  <1>5. Idle \in CallerSet /\ Idle.call = None /\ Idle.api = None /\ Idle.woken = FALSE
    BY DEF Idle, CallerSet
  <1>6. QueueTypes /\ CallersOK
    BY <1>5 DEF Init, QueueTypes, CallersOK
  <1>7. NotifierOK
    BY DEF Init, NotifierOK
  <1> QED
    BY <1>4, <1>6, <1>7 DEF CoreInv

LEMMA CoreNext ==
    ASSUME CoreInv, [Next]_vars
    PROVE  CoreInv'
  <1>1. CASE SmApi
    BY <1>1, SmApiCore
  <1>2. CASE SmEvt
    BY <1>2, SnapshotDoneCore, JpegEvtNotifyCore, PrepSnapshotDoneCore DEF SmEvt
  <1>3. CASE \E t \in Threads : (\E k \in Calls[t] : Call(t, k)) \/ Wake(t)
    BY <1>3, CallCore, WakeCore
  <1>4. CASE Notify \/ LiveTake \/ LiveCancel \/ FrameArrives \/ JpegDone \/ PrepDone
    BY <1>4, NotifyCore, LiveTakeCore, LiveCancelCore, CameraCore
  <1>5. CASE UNCHANGED vars
    BY <1>5 DEF vars, machine, queues, picture, CoreInv, MachineOK, MachineTypes, FilmsWhenItSays,
                Healthy, QueueTypes, CallersOK, NotifierOK
  <1> QED
    BY <1>1, <1>2, <1>3, <1>4, <1>5 DEF Next

LEMMA CoreInvariance == Spec => []CoreInv
  BY CoreInit, CoreNext, PTL DEF Spec

-----------------------------------------------------------------------------
(* What holds of every camera.                                             *)

\* Every variable keeps its type.
THEOREM TypeCorrect == Spec => []TypeOK
  <1>1. CoreInv => TypeOK
    BY TypesGiveTypeOK DEF CoreInv
  <1> QED
    BY <1>1, CoreInvariance, PTL

\* No delayed message outlives its delay, and the notifier never sleeps without
\* its SNAPSHOT_DONE in the queue, whatever the camera refuses and whoever calls.
THEOREM NothingForgotten == Spec => []NothingIsForgotten
  <1>1. CoreInv => NothingIsForgotten
    BY DEF CoreInv, MachineOK, NotifierOK, NothingIsForgotten
  <1> QED
    BY <1>1, CoreInvariance, PTL

\* The video channel runs exactly in the states that film.
THEOREM FilmsTruly == Spec => []FilmsWhenItSays
  <1>1. CoreInv => FilmsWhenItSays
    BY DEF CoreInv, MachineOK
  <1> QED
    BY <1>1, CoreInvariance, PTL

\* With a camera that refuses nothing, a stopped preview has no channel left
\* that runs, however many callers interleave.
THEOREM ChannelsFollow ==
    ASSUME ~Faulty
    PROVE  Spec => []ChannelsFollowState
  <1>1. CoreInv => ChannelsFollowState
    BY DEF CoreInv, MachineOK, Healthy, Stopped, ChannelsFollowState, StoppedMeansOff
  <1> QED
    BY <1>1, CoreInvariance, PTL
-----------------------------------------------------------------------------
(* One answer for each call, for a camera that refuses nothing and callers *)
(* that release no recording frame. A refusing camera posts an internal    *)
(* CANCEL_PICTURE, whose result a caller may take for its own, and the     *)
(* release of a frame is not answered outside the states that film.        *)

\* What a queue of events or a list of results, s, holds from one poster.
Has(s, t) == \E i \in DOMAIN s : s[i].from = t
Once(s, t) == \A i, j \in DOMAIN s : s[i].from = t /\ s[j].from = t => i = j
Only(s, t, a) == \A i \in DOMAIN s : s[i].from = t => s[i].api = a

LEMMA AppendedFrom ==
    ASSUME NEW T, NEW s \in Seq(T), NEW x \in T, NEW t, NEW a
    PROVE  /\ Has(Append(s, x), t) <=> Has(s, t) \/ x.from = t
           /\ Once(s, t) /\ (x.from = t => ~Has(s, t)) => Once(Append(s, x), t)
           /\ Only(s, t, a) /\ (x.from = t => x.api = a) => Only(Append(s, x), t, a)
  <1> DEFINE r == Append(s, x)
             n == Len(s) + 1
  <1>1. /\ DOMAIN r = DOMAIN s \cup {n} /\ n \notin DOMAIN s
        /\ r[n] = x /\ \A i \in DOMAIN s : r[i] = s[i]
    BY SeqAppend
  <1> HIDE DEF r, n
  <1>2. Has(r, t) <=> Has(s, t) \/ x.from = t
    BY <1>1 DEF Has
  <1>3. Once(s, t) /\ (x.from = t => ~Has(s, t)) => Once(r, t)
    BY <1>1 DEF Has, Once
  <1>4. Only(s, t, a) /\ (x.from = t => x.api = a) => Only(r, t, a)
    BY <1>1 DEF Only
  <1> QED
    BY <1>2, <1>3, <1>4 DEF r

LEMMA TailFrom ==
    ASSUME NEW T, NEW s \in Seq(T), s # <<>>, NEW t, NEW a
    PROVE  /\ Has(Tail(s), t) => Has(s, t)
           /\ Has(s, t) => Has(Tail(s), t) \/ Head(s).from = t
           /\ Head(s).from = t => Has(s, t)
           /\ Once(s, t) => Once(Tail(s), t)
           /\ Once(s, t) /\ Head(s).from = t => ~Has(Tail(s), t)
           /\ Only(s, t, a) => Only(Tail(s), t, a) /\ (Head(s).from = t => Head(s).api = a)
  <1> DEFINE r == Tail(s)
             h == Head(s)
  <1>1. /\ h = s[1] /\ 1 \in DOMAIN s
        /\ \A k \in DOMAIN r : k + 1 \in DOMAIN s /\ k + 1 # 1 /\ r[k] = s[k + 1]
        /\ \A j \in DOMAIN s : j = 1 \/ (j - 1 \in DOMAIN r /\ r[j - 1] = s[j])
        /\ \A k, l \in DOMAIN r : k + 1 = l + 1 => k = l
    BY SeqTail
  <1> HIDE DEF r, h
  <1>2. Has(r, t) => Has(s, t)
    BY <1>1 DEF Has
  <1>3. Has(s, t) => Has(r, t) \/ h.from = t
    <2>1. ASSUME NEW j \in DOMAIN s, s[j].from = t
          PROVE  Has(r, t) \/ h.from = t
      <3>1. CASE j = 1
        BY <1>1, <2>1, <3>1
      <3>2. CASE j - 1 \in DOMAIN r /\ r[j - 1] = s[j]
        BY <2>1, <3>2 DEF Has
      <3> QED
        BY <1>1, <3>1, <3>2
    <2> QED
      BY <2>1 DEF Has
  <1>4. h.from = t => Has(s, t)
    BY <1>1 DEF Has
  <1>5. Once(s, t) => Once(r, t)
    BY <1>1 DEF Once
  <1>6. Once(s, t) /\ h.from = t => ~Has(r, t)
    BY <1>1 DEF Once, Has
  <1>7. Only(s, t, a) => Only(r, t, a) /\ (h.from = t => h.api = a)
    BY <1>1 DEF Only
  <1> QED
    BY <1>2, <1>3, <1>4, <1>5, <1>6, <1>7 DEF r, h

LEMMA RemovedFrom ==
    ASSUME NEW T, NEW s \in Seq(T), NEW i \in DOMAIN s, NEW t, NEW a
    PROVE  /\ Has(RemoveAt(s, i), t) => Has(s, t)
           /\ Has(s, t) => Has(RemoveAt(s, i), t) \/ s[i].from = t
           /\ Once(s, t) => Once(RemoveAt(s, i), t)
           /\ Once(s, t) /\ s[i].from = t => ~Has(RemoveAt(s, i), t)
           /\ Only(s, t, a) => Only(RemoveAt(s, i), t, a)
  <1> DEFINE r == RemoveAt(s, i)
  <1>1. /\ \A k \in DOMAIN r : \E j \in DOMAIN s \ {i} : r[k] = s[j]
        /\ \A j \in DOMAIN s \ {i} : \E k \in DOMAIN r : r[k] = s[j]
        /\ \A k, l \in DOMAIN r : k # l =>
               \E j, m \in DOMAIN s \ {i} : j # m /\ r[k] = s[j] /\ r[l] = s[m]
    BY SeqRemoveAtElements
  <1> HIDE DEF r
  <1>2. Has(r, t) => Has(s, t)
    BY <1>1 DEF Has
  <1>3. Has(s, t) => Has(r, t) \/ s[i].from = t
    BY <1>1 DEF Has
  <1>4. ASSUME Once(s, t)
        PROVE  Once(r, t)
    <2> SUFFICES ASSUME NEW k \in DOMAIN r, NEW l \in DOMAIN r, r[k].from = t, r[l].from = t, k # l
                 PROVE  FALSE
      BY DEF Once
    <2>1. \E j, m \in DOMAIN s \ {i} : j # m /\ r[k] = s[j] /\ r[l] = s[m]
      BY <1>1
    <2> QED
      BY <1>4, <2>1 DEF Once
  <1>5. ASSUME Once(s, t), s[i].from = t
        PROVE  ~Has(r, t)
    BY <1>1, <1>5 DEF Once, Has
  <1>6. Only(s, t, a) => Only(r, t, a)
    BY <1>1 DEF Only
  <1> QED
    BY <1>2, <1>3, <1>4, <1>5, <1>6 DEF r

NoFrameReleased == \A t \in Threads : "release_recording_frame" \notin Calls[t]

\* A caller that waits has its event in the queue, its result in the list, or
\* waits for the flash.
CallerAnswered(t) ==
    /\ Only(api_queue, t, caller[t].api) /\ Only(m_apiResultList, t, caller[t].api)
    /\ Once(api_queue, t) /\ Once(m_apiResultList, t)
    /\ ~(Has(api_queue, t) /\ Has(m_apiResultList, t))
    /\ caller[t].api # None =>
          \/ Has(api_queue, t) \/ Has(m_apiResultList, t)
          \/ m_state = "PREPARE_SNAPSHOT" /\ caller[t].api = "PREPARE_SNAPSHOT"
    /\ caller[t].call # "release_recording_frame"

\* The flash is prepared for one caller, whose event was taken.
FlashHasCaller ==
    m_state = "PREPARE_SNAPSHOT" =>
        \E t \in Threads : /\ caller[t].api = "PREPARE_SNAPSHOT"
                           /\ ~Has(api_queue, t) /\ ~Has(m_apiResultList, t)

InternalsOK == /\ Only(api_queue, "internal", "STOP_CAPTURE_CHANNEL")
               /\ Only(m_apiResultList, "internal", "STOP_CAPTURE_CHANNEL")

AnswersOK == (\A t \in Threads : CallerAnswered(t)) /\ FlashHasCaller /\ InternalsOK

LEMMA NoneIsNoEvent == None \notin Events
  <1>1. \A k \in DOMAIN FirstEvents : \A api \in FirstEvents[k] : api # None
    BY FirstEventsFact
  <1> QED
    BY <1>1 DEF Events, None

\* What the callers wait for is never an internal event nor a frame's release.
LEMMA CallersWaitForAnswers ==
    ASSUME CallersOK, AnswersOK, NEW t \in Threads
    PROVE  caller[t].api \notin {"STOP_CAPTURE_CHANNEL", "RELEASE_RECORDING_FRAME"}
  <1>1. CallOf("STOP_CAPTURE_CHANNEL") = None /\ CallOf("RELEASE_RECORDING_FRAME") = "release_recording_frame"
    BY DEF CallOf
  <1>2. "STOP_CAPTURE_CHANNEL" # None /\ "RELEASE_RECORDING_FRAME" # None
    BY DEF None
  <1> QED
    BY <1>1, <1>2 DEF CallersOK, AnswersOK, CallerAnswered

\* Steps that touch no queue of the callers and no state of the flash.
LEMMA AnswersAside ==
    ASSUME AnswersOK, UNCHANGED <<api_queue, m_apiResultList, caller>>,
           m_state' = "PREPARE_SNAPSHOT" <=> m_state = "PREPARE_SNAPSHOT"
    PROVE  AnswersOK'
  BY DEF AnswersOK, CallerAnswered, FlashHasCaller, InternalsOK, Has, Once, Only

LEMMA SmApiAnswers ==
    ASSUME CoreInv, AnswersOK, SmApi
    PROVE  AnswersOK'
  <1> DEFINE e == Head(api_queue)
  <1>1. api_queue # <<>> /\ Handle(e) /\ api_queue' = Tail(api_queue)
    BY DEF SmApi
  <1>2. MachineOK /\ QueueTypes /\ CallersOK /\ api_queue \in Seq(EventSet) /\ m_apiResultList \in Seq(ResultSet)
    BY DEF CoreInv, QueueTypes
  <1>3. e \in EventSet
    BY <1>1, <1>2, SeqTail
  <1>4. \A t, a :
           /\ Has(api_queue', t) => Has(api_queue, t)
           /\ Has(api_queue, t) => Has(api_queue', t) \/ e.from = t
           /\ e.from = t => Has(api_queue, t)
           /\ Once(api_queue, t) => Once(api_queue', t)
           /\ Once(api_queue, t) /\ e.from = t => ~Has(api_queue', t)
           /\ Only(api_queue, t, a) => Only(api_queue', t, a) /\ (e.from = t => e.api = a)
    BY <1>1, <1>2, TailFrom
  <1> HIDE DEF e
  <1>5. e.api \in Events /\ e.from \in Posters /\ e.from \in Threads \cup {"internal"}
    BY <1>3 DEF EventSet, Posters
  <1>6. /\ \A t \in Threads : e.from = t => e.api = caller[t].api
        /\ e.from = "internal" => e.api = "STOP_CAPTURE_CHANNEL"
    BY <1>4 DEF AnswersOK, CallerAnswered, InternalsOK
  <1>7. AnsweredOnce(e)
    BY <1>1, <1>2, <1>3, HandleAnswers
  <1>8. CASE \E ok \in BOOLEAN : AnswerIs(e, ok)
    <2>1. PICK ok \in BOOLEAN : AnswerIs(e, ok)
      BY <1>8
    <2> DEFINE x == [api |-> e.api, from |-> e.from, ok |-> ok]
    <2>2. /\ m_apiResultList' = Append(m_apiResultList, x)
          /\ \A t \in Threads : caller'[t].call = caller[t].call /\ caller'[t].api = caller[t].api
          /\ m_state' = "PREPARE_SNAPSHOT" <=> m_state = "PREPARE_SNAPSHOT"
      BY <1>2, <1>5, <2>1, ReplyKeeps DEF AnswerIs
    <2>3. x \in ResultSet /\ x.from = e.from /\ x.api = e.api
      BY <1>5 DEF ResultSet
    <2> HIDE DEF x
    <2>4. \A t, a :
             /\ Has(m_apiResultList', t) <=> Has(m_apiResultList, t) \/ e.from = t
             /\ Once(m_apiResultList, t) /\ (e.from = t => ~Has(m_apiResultList, t)) => Once(m_apiResultList', t)
             /\ Only(m_apiResultList, t, a) /\ (e.from = t => e.api = a) => Only(m_apiResultList', t, a)
      BY <1>2, <2>2, <2>3, AppendedFrom
    <2>5. ASSUME NEW t \in Threads
          PROVE  CallerAnswered(t)'
      <3>1. CallerAnswered(t)
        BY DEF AnswersOK
      <3> QED
        BY <1>4, <1>6, <2>2, <2>4, <3>1 DEF CallerAnswered
    <2>6. FlashHasCaller'
      BY <1>4, <2>2, <2>4 DEF AnswersOK, FlashHasCaller
    <2>7. InternalsOK'
      BY <1>4, <1>6, <2>4 DEF AnswersOK, InternalsOK
    <2> QED
      BY <2>5, <2>6, <2>7 DEF AnswersOK
  <1>9. CASE Silent /\ LeftSilent(e)
    <2>1. /\ UNCHANGED <<m_apiResultList, caller>>
          /\ \A t, a : /\ Has(m_apiResultList', t) <=> Has(m_apiResultList, t)
                       /\ Once(m_apiResultList', t) <=> Once(m_apiResultList, t)
                       /\ Only(m_apiResultList', t, a) <=> Only(m_apiResultList, t, a)
      BY <1>9 DEF Silent
    <2>2. CASE e.from \notin Threads
      <3>1. e.api = "STOP_CAPTURE_CHANNEL" /\ (m_state' = "PREPARE_SNAPSHOT" <=> m_state = "PREPARE_SNAPSHOT")
        BY <1>5, <1>6, <1>9, <2>2 DEF LeftSilent
      <3>2. ASSUME NEW t \in Threads
            PROVE  CallerAnswered(t)'
        <4>1. CallerAnswered(t) /\ e.from # t
          BY <2>2 DEF AnswersOK
        <4> QED
          BY <1>4, <2>1, <3>1, <4>1 DEF CallerAnswered
      <3>3. FlashHasCaller'
        BY <1>4, <2>1, <3>1 DEF AnswersOK, FlashHasCaller
      <3>4. InternalsOK'
        BY <1>4, <2>1 DEF AnswersOK, InternalsOK
      <3> QED
        BY <3>2, <3>3, <3>4 DEF AnswersOK
    <2>3. CASE e.from \in Threads
      <3>1. e.api = caller[e.from].api
        BY <1>6, <2>3
      <3>2. e.api \notin {"STOP_CAPTURE_CHANNEL", "RELEASE_RECORDING_FRAME"}
        BY <1>2, <2>3, <3>1, CallersWaitForAnswers
      <3>3. e.api = "PREPARE_SNAPSHOT" /\ m_state = "PREVIEWING" /\ m_state' = "PREPARE_SNAPSHOT"
        BY <1>9, <3>2 DEF LeftSilent
      <3>4. ~Has(api_queue', e.from) /\ ~Has(m_apiResultList', e.from)
        BY <1>4, <2>1, <2>3 DEF AnswersOK, CallerAnswered
      <3>5. ASSUME NEW t \in Threads
            PROVE  CallerAnswered(t)'
        <4>1. CallerAnswered(t) /\ (e.from = t => caller[t].api = "PREPARE_SNAPSHOT")
          BY <3>1, <3>3 DEF AnswersOK
        <4> QED
          BY <1>4, <2>1, <3>3, <4>1 DEF CallerAnswered
      <3>6. FlashHasCaller'
        BY <2>1, <2>3, <3>1, <3>3, <3>4 DEF FlashHasCaller
      <3>7. InternalsOK'
        BY <1>4, <2>1 DEF AnswersOK, InternalsOK
      <3> QED
        BY <3>5, <3>6, <3>7 DEF AnswersOK
    <2> QED
      BY <2>2, <2>3
  <1> QED
    BY <1>7, <1>8, <1>9 DEF AnsweredOnce

LEMMA QueuedAreEvents ==
    ASSUME QueueTypes
    PROVE  /\ \A i \in DOMAIN api_queue : api_queue[i].api # None
           /\ \A i \in DOMAIN m_apiResultList : m_apiResultList[i].api # None
  <1>1. /\ \A i \in DOMAIN api_queue : api_queue[i] \in EventSet
        /\ \A i \in DOMAIN m_apiResultList : m_apiResultList[i] \in ResultSet
    BY DEF QueueTypes
  <1> QED
    BY <1>1, NoneIsNoEvent DEF EventSet, ResultSet

LEMMA SmEvtAnswers ==
    ASSUME CoreInv, AnswersOK, SmEvt
    PROVE  AnswersOK'
  <1>1. CASE SnapshotDone \/ JpegEvtNotify
    <2>1. m_state' = "PREPARE_SNAPSHOT" <=> m_state = "PREPARE_SNAPSHOT"
      BY <1>1 DEF SnapshotDone, JpegEvtNotify, machine
    <2>2. UNCHANGED <<api_queue, m_apiResultList, caller>>
      BY <1>1 DEF SmEvt, SnapshotDone, JpegEvtNotify, Silent
    <2> QED
      BY <2>1, <2>2, AnswersAside
  <1>2. CASE PrepSnapshotDone
    <2>1. PICK t \in Threads : /\ caller[t].api = "PREPARE_SNAPSHOT"
                               /\ Reply([api |-> "PREPARE_SNAPSHOT", from |-> t], TRUE)
      BY <1>2 DEF PrepSnapshotDone
    <2> DEFINE x == [api |-> "PREPARE_SNAPSHOT", from |-> t]
               r == [api |-> "PREPARE_SNAPSHOT", from |-> t, ok |-> TRUE]
    <2>2. QueueTypes /\ CallersOK /\ caller \in [Threads -> CallerSet] /\ m_apiResultList \in Seq(ResultSet)
      BY DEF CoreInv, QueueTypes
    <2>3. "PREPARE_SNAPSHOT" \in Events
      <3>1. caller[t] \in CallerSet
        BY <2>2
      <3> QED
        BY <2>1, <3>1 DEF CallerSet, None
    <2>4. /\ m_apiResultList' = Append(m_apiResultList, r)
          /\ \A u \in Threads : caller'[u].call = caller[u].call /\ caller'[u].api = caller[u].api
      <3>1. x.api = "PREPARE_SNAPSHOT" /\ x.from = t /\ Reply(x, TRUE)
        BY <2>1
      <3> HIDE DEF x
      <3>2. x.api \in Events /\ x.from \in Posters
        BY <2>3, <3>1 DEF Posters
      <3>3. /\ m_apiResultList' = Append(m_apiResultList, [api |-> x.api, from |-> x.from, ok |-> TRUE])
            /\ \A u \in Threads : caller'[u].call = caller[u].call /\ caller'[u].api = caller[u].api
        BY <2>2, <3>1, <3>2, ReplyKeeps
      <3> QED
        BY <3>1, <3>3
    <2>5. r \in ResultSet /\ r.from = t /\ r.api = "PREPARE_SNAPSHOT"
      BY <2>3 DEF ResultSet, Posters
    <2> HIDE DEF r, x
    <2>6. \A u, a :
             /\ Has(m_apiResultList', u) <=> Has(m_apiResultList, u) \/ t = u
             /\ Once(m_apiResultList, u) /\ (t = u => ~Has(m_apiResultList, u)) => Once(m_apiResultList', u)
             /\ Only(m_apiResultList, u, a) /\ (t = u => "PREPARE_SNAPSHOT" = a) => Only(m_apiResultList', u, a)
      BY <2>2, <2>4, <2>5, AppendedFrom
    <2>7. ~Has(api_queue, t) /\ ~Has(m_apiResultList, t)
      <3>1. PICK w \in Threads : /\ caller[w].api = "PREPARE_SNAPSHOT"
                                 /\ ~Has(api_queue, w) /\ ~Has(m_apiResultList, w)
        BY <1>2 DEF PrepSnapshotDone, AnswersOK, FlashHasCaller
      <3>2. "PREPARE_SNAPSHOT" # None
        BY DEF None
      <3>3. w = t
        BY <2>1, <2>2, <3>1, <3>2, EventsDiffer
      <3> QED
        BY <3>1, <3>3
    <2>8. api_queue' = api_queue /\ m_state' # "PREPARE_SNAPSHOT" /\ t # "internal"
      BY <1>2, CameraConstants DEF SmEvt, PrepSnapshotDone
    <2>9. ASSUME NEW u \in Threads
          PROVE  CallerAnswered(u)'
      <3>1. CallerAnswered(u)
        BY DEF AnswersOK
      <3>2. caller[u].api = "PREPARE_SNAPSHOT" => u = t
        <4>1. "PREPARE_SNAPSHOT" # None
          BY DEF None
        <4> QED
          BY <2>1, <2>2, <4>1, EventsDiffer
      <3> QED
        BY <2>1, <2>4, <2>6, <2>7, <2>8, <3>1, <3>2 DEF CallerAnswered
    <2>10. FlashHasCaller' /\ InternalsOK'
      BY <2>6, <2>8 DEF AnswersOK, FlashHasCaller, InternalsOK
    <2> QED
      BY <2>9, <2>10 DEF AnswersOK
  <1> QED
    BY <1>1, <1>2 DEF SmEvt

\* A caller without an answer in sight posts an event of its own.
LEMMA PostAnswers ==
    ASSUME CoreInv, AnswersOK, NEW t \in Threads, NEW k, k # "release_recording_frame",
           NEW api \in Events, NEW arg \in ArgSet, Post(t, k, api, arg),
           ~Has(api_queue, t), ~Has(m_apiResultList', t), m_state' = m_state,
           \A u : /\ u # t => (Has(m_apiResultList', u) <=> Has(m_apiResultList, u))
                  /\ Once(m_apiResultList, u) => Once(m_apiResultList', u)
                  /\ \A a : Only(m_apiResultList, u, a) => Only(m_apiResultList', u, a),
           m_state = "PREPARE_SNAPSHOT" => caller[t].api # "PREPARE_SNAPSHOT" \/ Has(m_apiResultList, t)
    PROVE  AnswersOK'
  <1> DEFINE x == [api |-> api, from |-> t, arg |-> arg]
  <1>1. x \in EventSet /\ x.from = t /\ x.api = api /\ api_queue' = Append(api_queue, x)
    BY DEF EventSet, Posters, Post
  <1> HIDE DEF x
  <1>2. /\ api_queue \in Seq(EventSet) /\ caller \in [Threads -> CallerSet] /\ t # "internal"
        /\ caller' = [caller EXCEPT ![t] = [call |-> k, api |-> api, woken |-> FALSE]]
    BY CameraConstants DEF CoreInv, QueueTypes, Post
  <1>3. \A u, a :
           /\ Has(api_queue', u) <=> Has(api_queue, u) \/ t = u
           /\ Once(api_queue, u) /\ (t = u => ~Has(api_queue, u)) => Once(api_queue', u)
           /\ Only(api_queue, u, a) /\ (t = u => api = a) => Only(api_queue', u, a)
    BY <1>1, <1>2, AppendedFrom
  <1>4. /\ caller'[t].call = k /\ caller'[t].api = api
        /\ \A u \in Threads : u # t => caller'[u] = caller[u]
    BY <1>2
  <1>5. \A a : Only(api_queue, t, a) /\ Only(m_apiResultList', t, a)
    <2>1. ~Has(api_queue, t) /\ ~Has(m_apiResultList', t)
      OBVIOUS
    <2> QED
      BY <2>1 DEF Only, Has
  <1>6. ASSUME NEW u \in Threads
        PROVE  CallerAnswered(u)'
    <2>1. CallerAnswered(u)
      BY DEF AnswersOK
    <2>2. CASE u = t
      BY <1>3, <1>4, <1>5, <2>1, <2>2 DEF CallerAnswered
    <2>3. CASE u # t
      BY <1>3, <1>4, <2>1, <2>3 DEF CallerAnswered
    <2> QED
      BY <2>2, <2>3
  <1>7. FlashHasCaller'
    <2> SUFFICES ASSUME m_state = "PREPARE_SNAPSHOT"
                 PROVE  \E w \in Threads : /\ caller'[w].api = "PREPARE_SNAPSHOT"
                                           /\ ~Has(api_queue', w) /\ ~Has(m_apiResultList', w)
      BY DEF FlashHasCaller
    <2>1. PICK w \in Threads : /\ caller[w].api = "PREPARE_SNAPSHOT"
                               /\ ~Has(api_queue, w) /\ ~Has(m_apiResultList, w)
      BY DEF AnswersOK, FlashHasCaller
    <2>2. w # t
      BY <2>1
    <2> QED
      BY <1>3, <1>4, <2>1, <2>2
  <1>8. InternalsOK'
    BY <1>2, <1>3 DEF AnswersOK, InternalsOK
  <1> QED
    BY <1>6, <1>7, <1>8 DEF AnswersOK

LEMMA CallAnswers ==
    ASSUME CoreInv, AnswersOK, NoFrameReleased, NEW t \in Threads, NEW k \in Calls[t], Call(t, k)
    PROVE  AnswersOK'
  <1>1. k \in DOMAIN FirstEvents /\ k # "release_recording_frame"
    BY CameraConstants DEF NoFrameReleased
  <1>2. PICK api \in FirstEvents[k], arg \in Args(k) : Post(t, k, api, arg)
    BY DEF Call
  <1>3. api \in Events /\ arg \in ArgSet
    BY <1>1, FirstEventsFact, ArgsType
  <1>4. caller[t].api = None /\ UNCHANGED <<m_apiResultList, m_state>>
    BY DEF Call, Idle, machine
  <1>5. ~Has(api_queue, t) /\ ~Has(m_apiResultList, t)
    <2>1. /\ \A i \in DOMAIN api_queue : api_queue[i].api # None
          /\ \A i \in DOMAIN m_apiResultList : m_apiResultList[i].api # None
      BY QueuedAreEvents DEF CoreInv
    <2> QED
      BY <1>4, <2>1 DEF AnswersOK, CallerAnswered, Only, Has
  <1>6. caller[t].api # "PREPARE_SNAPSHOT"
    BY <1>4 DEF None
  <1>7. m_apiResultList' = m_apiResultList
    BY <1>4
  <1> QED
    BY <1>1, <1>2, <1>3, <1>4, <1>5, <1>6, <1>7, PostAnswers DEF Has, Once, Only

\* A woken caller takes its own result.
LEMMA WakeTakesItsOwn ==
    ASSUME CoreInv, AnswersOK, NEW t \in Threads, Wake(t)
    PROVE  \E i \in DOMAIN m_apiResultList :
              /\ m_apiResultList[i].from = t
              /\ m_apiResultList' = RemoveAt(m_apiResultList, i)
              /\ \/ /\ NextEvents(caller[t].api, m_apiResultList[i].ok) = {}
                    /\ caller' = [caller EXCEPT ![t] = Idle]
                    /\ UNCHANGED api_queue
                 \/ \E api \in NextEvents(caller[t].api, m_apiResultList[i].ok) :
                       Post(t, caller[t].call, api, NoArg)
  <1>1. CallersOK /\ m_apiResultList \in Seq(ResultSet)
    BY DEF CoreInv, QueueTypes
  <1>2. PICK i \in DOMAIN m_apiResultList :
           /\ m_apiResultList[i].api = caller[t].api
           /\ m_apiResultList' = RemoveAt(m_apiResultList, i)
           /\ \/ /\ NextEvents(caller[t].api, m_apiResultList[i].ok) = {}
                 /\ caller' = [caller EXCEPT ![t] = Idle]
                 /\ UNCHANGED api_queue
              \/ \E api \in NextEvents(caller[t].api, m_apiResultList[i].ok) :
                    Post(t, caller[t].call, api, NoArg)
    BY WakeTakes
  <1>3. caller[t].api # None
    BY WakeTakes
  <1>4. m_apiResultList[i].from = t
    <2>1. m_apiResultList[i] \in ResultSet
      BY <1>1
    <2>2. m_apiResultList[i].from \in Threads \cup {"internal"}
      BY <2>1 DEF ResultSet, Posters
    <2>3. m_apiResultList[i].from # "internal"
      BY <1>1, <1>2, CallersWaitForAnswers DEF AnswersOK, InternalsOK, Only
    <2>4. ASSUME NEW u \in Threads, m_apiResultList[i].from = u
          PROVE  u = t
      <3>1. m_apiResultList[i].api = caller[u].api
        BY <2>4 DEF AnswersOK, CallerAnswered, Only
      <3> QED
        BY <1>1, <1>2, <1>3, <3>1, EventsDiffer
    <2> QED
      BY <2>2, <2>3, <2>4
  <1> QED
    BY <1>2, <1>4

LEMMA WakeAnswers ==
    ASSUME CoreInv, AnswersOK, NEW t \in Threads, Wake(t)
    PROVE  AnswersOK'
  <1>1. /\ QueueTypes /\ CallersOK /\ caller \in [Threads -> CallerSet]
        /\ m_apiResultList \in Seq(ResultSet) /\ api_queue \in Seq(EventSet)
    BY DEF CoreInv, QueueTypes
  <1>2. PICK i \in DOMAIN m_apiResultList :
           /\ m_apiResultList[i].from = t
           /\ m_apiResultList' = RemoveAt(m_apiResultList, i)
           /\ \/ /\ caller' = [caller EXCEPT ![t] = Idle]
                 /\ UNCHANGED api_queue
              \/ \E api \in NextEvents(caller[t].api, m_apiResultList[i].ok) :
                    Post(t, caller[t].call, api, NoArg)
    BY WakeTakesItsOwn
  <1>3. caller[t].api # None /\ m_state' = m_state
    BY WakeTakes DEF Wake, machine
  <1>5. \A u, a :
           /\ Has(m_apiResultList', u) => Has(m_apiResultList, u)
           /\ Has(m_apiResultList, u) => Has(m_apiResultList', u) \/ t = u
           /\ Once(m_apiResultList, u) => Once(m_apiResultList', u)
           /\ Once(m_apiResultList, u) /\ t = u => ~Has(m_apiResultList', u)
           /\ Only(m_apiResultList, u, a) => Only(m_apiResultList', u, a)
    BY <1>1, <1>2, RemovedFrom
  <1>6. Has(m_apiResultList, t) /\ ~Has(m_apiResultList', t) /\ ~Has(api_queue, t)
    <2>1. Has(m_apiResultList, t)
      BY <1>2 DEF Has
    <2> QED
      BY <1>5, <2>1 DEF AnswersOK, CallerAnswered
  <1>7. CASE caller' = [caller EXCEPT ![t] = Idle] /\ UNCHANGED api_queue
    <2>1. /\ caller'[t].api = None /\ caller'[t].call = None
          /\ \A u \in Threads : u # t => caller'[u] = caller[u]
      BY <1>1, <1>7 DEF Idle
    <2>2. api_queue' = api_queue
      BY <1>7
    <2>3. ASSUME NEW u \in Threads
          PROVE  CallerAnswered(u)'
      <3>1. CallerAnswered(u)
        BY DEF AnswersOK
      <3>2. CASE u = t
        <4>1. Only(api_queue, t, None) /\ Only(m_apiResultList', t, None)
          BY <1>6 DEF Only, Has
        <4> QED
          BY <1>5, <1>6, <2>1, <2>2, <3>1, <3>2, <4>1 DEF CallerAnswered, None
      <3>3. CASE u # t
        BY <1>3, <1>5, <2>1, <2>2, <3>1, <3>3 DEF CallerAnswered
      <3> QED
        BY <3>2, <3>3
    <2>4. FlashHasCaller'
      <3> SUFFICES ASSUME m_state = "PREPARE_SNAPSHOT"
                   PROVE  \E w \in Threads : /\ caller'[w].api = "PREPARE_SNAPSHOT"
                                             /\ ~Has(api_queue', w) /\ ~Has(m_apiResultList', w)
        BY <1>3 DEF FlashHasCaller
      <3>1. PICK w \in Threads : /\ caller[w].api = "PREPARE_SNAPSHOT"
                                 /\ ~Has(api_queue, w) /\ ~Has(m_apiResultList, w)
        BY DEF AnswersOK, FlashHasCaller
      <3>2. w # t
        BY <1>6, <3>1
      <3> QED
        BY <1>5, <2>1, <2>2, <3>1, <3>2
    <2>5. InternalsOK'
      BY <1>5, <2>2 DEF AnswersOK, InternalsOK
    <2> QED
      BY <2>3, <2>4, <2>5 DEF AnswersOK
  <1>8. CASE \E api \in NextEvents(caller[t].api, m_apiResultList[i].ok) :
                Post(t, caller[t].call, api, NoArg)
    <2>1. PICK api \in NextEvents(caller[t].api, m_apiResultList[i].ok) : Post(t, caller[t].call, api, NoArg)
      BY <1>8
    <2>2. api \in Events
      BY <1>3, NextEventsFact
    <2>3. caller[t].call # "release_recording_frame"
      BY DEF AnswersOK, CallerAnswered
    <2> QED
      BY <1>3, <1>5, <1>6, <2>1, <2>2, <2>3, DummyType, PostAnswers
  <1> QED
    BY <1>2, <1>7, <1>8

\* An event of the HAL's own thread: the capture channel has done its work.
LEMMA PostInternalAnswers ==
    ASSUME CoreInv, AnswersOK, PostInternal("STOP_CAPTURE_CHANNEL"),
           UNCHANGED <<m_apiResultList, caller, m_state>>
    PROVE  AnswersOK'
  <1> DEFINE x == [api |-> "STOP_CAPTURE_CHANNEL", from |-> "internal", arg |-> NoArg]
  <1>1. x \in EventSet /\ x.from = "internal" /\ x.api = "STOP_CAPTURE_CHANNEL" /\ api_queue' = Append(api_queue, x)
    BY DummyType, EventsFact DEF EventSet, Posters, PostInternal
  <1> HIDE DEF x
  <1>2. api_queue \in Seq(EventSet)
    BY DEF CoreInv, QueueTypes
  <1>3. \A u, a :
           /\ Has(api_queue', u) <=> Has(api_queue, u) \/ "internal" = u
           /\ Once(api_queue, u) /\ ("internal" = u => ~Has(api_queue, u)) => Once(api_queue', u)
           /\ Only(api_queue, u, a) /\ ("internal" = u => "STOP_CAPTURE_CHANNEL" = a) => Only(api_queue', u, a)
    BY <1>1, <1>2, AppendedFrom
  <1>4. /\ m_apiResultList' = m_apiResultList /\ caller' = caller /\ m_state' = m_state
    OBVIOUS
  <1>5. ASSUME NEW u \in Threads
        PROVE  CallerAnswered(u)'
    <2>1. CallerAnswered(u) /\ u # "internal"
      BY CameraConstants DEF AnswersOK
    <2> QED
      BY <1>3, <1>4, <2>1 DEF CallerAnswered
  <1>6. FlashHasCaller'
    <2>1. \A u \in Threads : u # "internal"
      BY CameraConstants
    <2> QED
      BY <1>3, <1>4, <2>1 DEF AnswersOK, FlashHasCaller
  <1>7. InternalsOK'
    BY <1>3, <1>4 DEF AnswersOK, InternalsOK
  <1> QED
    BY <1>5, <1>6, <1>7 DEF AnswersOK

LEMMA AnswersInit ==
    ASSUME Init, NoFrameReleased
    PROVE  AnswersOK
  BY DEF Init, AnswersOK, CallerAnswered, FlashHasCaller, InternalsOK, Has, Once, Only, Idle, None

LEMMA AnswersNext ==
    ASSUME CoreInv, AnswersOK, NoFrameReleased, ~Faulty, [Next]_vars
    PROVE  AnswersOK'
  <1>1. CASE SmApi
    BY <1>1, SmApiAnswers
  <1>2. CASE SmEvt
    BY <1>2, SmEvtAnswers
  <1>3. CASE \E t \in Threads : (\E k \in Calls[t] : Call(t, k)) \/ Wake(t)
    BY <1>3, CallAnswers, WakeAnswers
  <1>4. CASE Notify \/ LiveTake \/ LiveCancel \/ JpegDone \/ PrepDone \/ UNCHANGED vars
    <2>1. UNCHANGED <<api_queue, m_apiResultList, caller, m_state>>
      BY <1>4 DEF Notify, LiveTake, LiveCancel, JpegDone, PrepDone, vars, machine, queues, picture
    <2> QED
      BY <2>1, AnswersAside
  <1>5. CASE FrameArrives
    <2>1. UNCHANGED <<m_apiResultList, caller, m_state>>
      BY <1>5 DEF FrameArrives, machine
    <2>2. CASE UNCHANGED api_queue
      BY <2>1, <2>2, AnswersAside
    <2>3. CASE PostInternal("STOP_CAPTURE_CHANNEL")
      BY <2>1, <2>3, PostInternalAnswers
    <2> QED
      BY <1>5, <2>2, <2>3 DEF FrameArrives
  <1> QED
    BY <1>1, <1>2, <1>3, <1>4, <1>5 DEF Next

LEMMA AnswersInvariance ==
    ASSUME ~Faulty, NoFrameReleased
    PROVE  Spec => []AnswersOK
  <1>1. Init => AnswersOK
    BY AnswersInit
  <1>2. CoreInv /\ AnswersOK /\ [Next]_vars => AnswersOK'
    BY AnswersNext
  <1> QED
    BY <1>1, <1>2, CoreInvariance, PTL DEF Spec

LEMMA OnePoster ==
    ASSUME NEW T, NEW s \in Seq(T), NEW t, Once(s, t)
    PROVE  Cardinality({i \in DOMAIN s : s[i].from = t}) = IF Has(s, t) THEN 1 ELSE 0
  <1> DEFINE M == {i \in DOMAIN s : s[i].from = t}
  <1>1. CASE Has(s, t)
    <2>1. PICK i \in DOMAIN s : s[i].from = t
      BY <1>1 DEF Has
    <2>2. M = {i}
      BY <2>1 DEF Once
    <2> QED
      BY <1>1, <2>2, FS_Singleton
  <1>2. CASE ~Has(s, t)
    <2>1. M = {}
      BY <1>2 DEF Has
    <2> QED
      BY <1>2, <2>1, FS_EmptySet
  <1> QED
    BY <1>1, <1>2

\* Whatever the state an event meets and however the callers interleave, a
\* caller in waitAPIResult is owed exactly one answer and nobody else any.
THEOREM OneAnswer ==
    ASSUME ~Faulty, NoFrameReleased
    PROVE  Spec => []OneAnswerPerCall
  <1>1. CoreInv /\ AnswersOK => OneAnswerPerCall
    <2> SUFFICES ASSUME CoreInv, AnswersOK, NEW t \in Threads
                 PROVE  Owed(t) = IF Waiting(t) THEN 1 ELSE 0
      BY DEF OneAnswerPerCall
    <2> DEFINE posted   == {i \in DOMAIN api_queue : api_queue[i].from = t}
               answered == {i \in DOMAIN m_apiResultList : m_apiResultList[i].from = t}
               prepares == m_state = "PREPARE_SNAPSHOT" /\ caller[t].api = "PREPARE_SNAPSHOT"
                              /\ posted = {} /\ answered = {}
    <2>1. CallerAnswered(t)
      BY DEF AnswersOK
    <2>2. /\ Cardinality(posted) = IF Has(api_queue, t) THEN 1 ELSE 0
          /\ Cardinality(answered) = IF Has(m_apiResultList, t) THEN 1 ELSE 0
      BY <2>1, OnePoster DEF CallerAnswered, CoreInv, QueueTypes
    <2>3. (posted = {} <=> ~Has(api_queue, t)) /\ (answered = {} <=> ~Has(m_apiResultList, t))
      BY DEF Has
    <2>4. Owed(t) = Cardinality(posted) + Cardinality(answered) + IF prepares THEN 1 ELSE 0
      BY DEF Owed
    <2>5. prepares <=> /\ m_state = "PREPARE_SNAPSHOT" /\ caller[t].api = "PREPARE_SNAPSHOT"
                       /\ ~Has(api_queue, t) /\ ~Has(m_apiResultList, t)
      BY <2>3
    <2>6. (Has(api_queue, t) \/ Has(m_apiResultList, t)) => caller[t].api # None
      <3>1. /\ \A i \in DOMAIN api_queue : api_queue[i].api # None
            /\ \A i \in DOMAIN m_apiResultList : m_apiResultList[i].api # None
        BY QueuedAreEvents DEF CoreInv
      <3> QED
        BY <2>1, <3>1 DEF CallerAnswered, Has, Only
    <2> HIDE DEF posted, answered, prepares
    <2>7. CASE Has(api_queue, t)
      BY <2>1, <2>2, <2>4, <2>5, <2>6, <2>7 DEF CallerAnswered, Waiting
    <2>8. CASE Has(m_apiResultList, t)
      BY <2>1, <2>2, <2>4, <2>5, <2>6, <2>8 DEF CallerAnswered, Waiting
    <2>9. CASE ~Has(api_queue, t) /\ ~Has(m_apiResultList, t)
      BY <2>1, <2>2, <2>4, <2>5, <2>9 DEF CallerAnswered, Waiting, None
    <2> QED
      BY <2>7, <2>8, <2>9
  <1> QED
    BY <1>1, CoreInvariance, AnswersInvariance, PTL
-----------------------------------------------------------------------------
(* A preview that set_parameters stopped comes back. Without a flash: the  *)
(* state that prepares it refuses to commit parameters, after which nobody *)
(* restarts the preview.                                                   *)

\* The list holds a good answer for t.
Said(s, t) == \E i \in DOMAIN s : s[i].from = t /\ s[i].ok

LEMMA AppendedSaid ==
    ASSUME NEW s \in Seq(ResultSet), NEW x \in ResultSet, NEW t
    PROVE  Said(Append(s, x), t) <=> Said(s, t) \/ (x.from = t /\ x.ok)
  <1> DEFINE r == Append(s, x)
             n == Len(s) + 1
  <1>1. /\ DOMAIN r = DOMAIN s \cup {n} /\ n \notin DOMAIN s
        /\ r[n] = x /\ \A i \in DOMAIN s : r[i] = s[i]
    BY SeqAppend
  <1> HIDE DEF r, n
  <1>2. Said(r, t) <=> Said(s, t) \/ (x.from = t /\ x.ok)
    BY <1>1 DEF Said
  <1> QED
    BY <1>2 DEF r

LEMMA RemovedSaid ==
    ASSUME NEW s \in Seq(ResultSet), NEW i \in DOMAIN s, NEW t
    PROVE  /\ Said(s, t) /\ s[i].from # t => Said(RemoveAt(s, i), t)
           /\ Said(s, t) /\ s[i].from = t /\ Once(s, t) => s[i].ok
  <1> DEFINE r == RemoveAt(s, i)
  <1>1. \A j \in DOMAIN s \ {i} : \E k \in DOMAIN r : r[k] = s[j]
    BY SeqRemoveAtElements
  <1> HIDE DEF r
  <1>2. Said(s, t) /\ s[i].from # t => Said(r, t)
    BY <1>1 DEF Said
  <1>3. Said(s, t) /\ s[i].from = t /\ Once(s, t) => s[i].ok
    BY DEF Said, Once
  <1> QED
    BY <1>2, <1>3 DEF r

\* The set_parameters of t is going to restart the preview.
Restores(t) ==
    \/ caller[t].api = "SET_PARAMS_STOP" /\ Said(m_apiResultList, t)
    \/ caller[t].api = "SET_PARAMS_COMMIT" /\ (Said(m_apiResultList, t) \/ Has(api_queue, t))
    \/ caller[t].api = "SET_PARAMS_RESTART" /\ Has(api_queue, t)

\* A stopped preview is owed its restart by a call on its way.
Owes == m_state \in Shown /\ ~PreviewOn(ch) => prm.needRestart /\ \E t \in Threads : Restores(t)

\* Only a needed restart stops the preview, and it stays needed till it is done.
StopNeeds(t) ==
    \/ caller[t].api = "SET_PARAMS_STOP"
    \/ caller[t].api = "SET_PARAMS_RESTART" /\ Has(api_queue, t)
    => prm.needRestart

NoFlash == /\ m_state # "PREPARE_SNAPSHOT"
           /\ \A t \in Threads : caller[t].api # "PREPARE_SNAPSHOT"

RestartOK == Owes /\ (\A t \in Threads : StopNeeds(t)) /\ NoFlash

SetsParameters(a) == a \in {"SET_PARAMS", "SET_PARAMS_STOP", "SET_PARAMS_COMMIT", "SET_PARAMS_RESTART"}

\* One caller at a time is in set_parameters.
LEMMA OneSetsParameters ==
    ASSUME CallersOK, NEW t \in Threads, NEW u \in Threads,
           SetsParameters(caller[t].api), SetsParameters(caller[u].api)
    PROVE  t = u
  <1>1. \A a : SetsParameters(a) => CallOf(a) = "set_parameters" /\ a # None
    BY DEF SetsParameters, CallOf, None
  <1>2. caller[t].call = "set_parameters" /\ caller[u].call = "set_parameters"
    BY <1>1 DEF CallersOK
  <1> QED
    BY <1>2 DEF CallersOK, None

LEMMA RestoresSets ==
    ASSUME NEW t, Restores(t)
    PROVE  caller[t].api \in {"SET_PARAMS_STOP", "SET_PARAMS_COMMIT", "SET_PARAMS_RESTART"}
  BY DEF Restores

LEMMA SmApiRestores ==
    ASSUME CoreInv, AnswersOK, RestartOK, ~Faulty, SmApi
    PROVE  RestartOK'
  <1> DEFINE e == Head(api_queue)
  <1>1. api_queue # <<>> /\ Handle(e) /\ api_queue' = Tail(api_queue)
    BY DEF SmApi
  <1>2. MachineOK /\ QueueTypes /\ CallersOK /\ api_queue \in Seq(EventSet) /\ m_apiResultList \in Seq(ResultSet)
    BY DEF CoreInv, QueueTypes
  <1>3. e \in EventSet
    BY <1>1, <1>2, SeqTail
  <1>4. \A t, a :
           /\ Has(api_queue', t) => Has(api_queue, t)
           /\ Has(api_queue, t) => Has(api_queue', t) \/ e.from = t
           /\ Once(api_queue, t) /\ e.from = t => ~Has(api_queue', t)
           /\ Only(api_queue, t, a) => (e.from = t => e.api = a)
    BY <1>1, <1>2, TailFrom
  <1> HIDE DEF e
  <1>5. e.api \in Events /\ e.from \in Posters /\ e.from \in Threads \cup {"internal"}
    BY <1>3 DEF EventSet, Posters
  <1>6. /\ \A t \in Threads : e.from = t => e.api = caller[t].api
        /\ e.from = "internal" => e.api = "STOP_CAPTURE_CHANNEL"
        /\ \A t \in Threads : e.from = t => ~Has(api_queue', t)
    BY <1>4 DEF AnswersOK, CallerAnswered, InternalsOK
  <1>7. AnsweredOnce(e) /\ PreviewRule(e)
    BY <1>1, <1>2, <1>3, HandleAnswers, HandleKeeps
  <1>8. \A t \in Threads : caller'[t].api = caller[t].api
    BY <1>2, <1>5, <1>7, ReplyKeeps DEF AnsweredOnce, AnswerIs, Silent
  <1>9. \A t \in Threads : Said(m_apiResultList, t) => Said(m_apiResultList', t)
    <2>1. CASE \E ok \in BOOLEAN : Reply(e, ok)
      <3>1. PICK ok \in BOOLEAN : Reply(e, ok)
        BY <2>1
      <3> DEFINE x == [api |-> e.api, from |-> e.from, ok |-> ok]
      <3>2. x \in ResultSet /\ m_apiResultList' = Append(m_apiResultList, x)
        BY <1>5, <3>1 DEF ResultSet, Reply
      <3> HIDE DEF x
      <3> QED
        BY <1>2, <3>2, AppendedSaid
    <2>2. CASE Silent
      BY <2>2 DEF Silent
    <2> QED
      BY <1>7, <2>1, <2>2 DEF AnsweredOnce, AnswerIs
  <1>10. ASSUME NEW t \in Threads, e.from = t, AnswerIs(e, TRUE)
         PROVE  Said(m_apiResultList', t)
    <2> DEFINE x == [api |-> e.api, from |-> e.from, ok |-> TRUE]
    <2>1. x \in ResultSet /\ m_apiResultList' = Append(m_apiResultList, x) /\ x.from = t /\ x.ok = TRUE
      BY <1>5, <1>10 DEF ResultSet, AnswerIs, Reply
    <2> HIDE DEF x
    <2> QED
      BY <1>2, <2>1, AppendedSaid
  <1>11. ASSUME NEW t \in Threads, Restores(t)
         PROVE  e.api # "SET_PARAMS"
    <2>1. SetsParameters(caller[t].api) /\ caller[t].api # "SET_PARAMS"
      BY <1>11, RestoresSets DEF SetsParameters
    <2>2. e.api = "SET_PARAMS" => e.from \in Threads /\ SetsParameters(caller[e.from].api)
      BY <1>5, <1>6 DEF SetsParameters
    <2>3. e.api = "SET_PARAMS" => e.from = t
      BY <1>2, <2>1, <2>2, OneSetsParameters
    <2> QED
      BY <1>6, <2>1, <2>3
  <1>12. Owes'
    <2> SUFFICES ASSUME m_state' \in Shown, ~PreviewOn(ch')
                 PROVE  prm'.needRestart /\ \E t \in Threads : Restores(t)'
      BY DEF Owes
    <2>1. CASE e.api = "SET_PARAMS_STOP" /\ m_state' = m_state
      <3>1. PICK t \in Threads : e.from = t /\ caller[t].api = "SET_PARAMS_STOP"
        BY <1>5, <1>6, <2>1
      <3>2. prm'.needRestart = prm.needRestart /\ prm.needRestart
        BY <1>7, <2>1, <3>1 DEF PreviewRule, RestartOK, StopNeeds
      <3>3. m_state \in {"PREVIEWING", "PREVIEW_PIC_TAKING"}
        BY <2>1 DEF RestartOK, NoFlash, Shown
      <3>4. AnswerIs(e, TRUE)
        BY <1>7, <2>1, <3>3 DEF AnsweredOnce, AnswerIs, LeftSilent
      <3>5. Restores(t)'
        BY <1>8, <1>10, <3>1, <3>4 DEF Restores
      <3> QED
        BY <3>1, <3>2, <3>5
    <2>2. CASE m_state \in Shown /\ ~PreviewOn(ch) /\ (e.api = "SET_PARAMS_RESTART" => m_state = "PREPARE_SNAPSHOT")
      <3>1. e.api # "SET_PARAMS_RESTART" /\ m_state # "PREPARE_SNAPSHOT"
        BY <2>2 DEF RestartOK, NoFlash
      <3>2. prm.needRestart /\ \E t \in Threads : Restores(t)
        BY <2>2 DEF RestartOK, Owes
      <3>3. PICK t \in Threads : Restores(t)
        BY <3>2
      <3>4. prm'.needRestart = prm.needRestart
        BY <1>7, <1>11, <3>1, <3>3 DEF PreviewRule
      <3>5. CASE Said(m_apiResultList, t) /\ caller[t].api \in {"SET_PARAMS_STOP", "SET_PARAMS_COMMIT"}
        <4>1. Restores(t)'
          BY <1>8, <1>9, <3>5 DEF Restores
        <4> QED
          BY <3>2, <3>4, <4>1
      <3>6. CASE Has(api_queue, t) /\ caller[t].api \in {"SET_PARAMS_COMMIT", "SET_PARAMS_RESTART"}
        <4>1. CASE e.from = t
          <5>1. e.api = "SET_PARAMS_COMMIT" /\ caller[t].api = "SET_PARAMS_COMMIT"
            BY <1>6, <3>1, <3>6, <4>1
          <5>2. AnswerIs(e, TRUE)
            BY <1>7, <3>1, <5>1 DEF AnsweredOnce, AnswerIs, LeftSilent
          <5>3. Restores(t)'
            BY <1>8, <1>10, <4>1, <5>1, <5>2 DEF Restores
          <5> QED
            BY <3>2, <3>4, <5>3
        <4>2. CASE e.from # t
          <5>1. Restores(t)'
            BY <1>4, <1>8, <3>6, <4>2 DEF Restores
          <5> QED
            BY <3>2, <3>4, <5>1
        <4> QED
          BY <4>1, <4>2
      <3> QED
        BY <3>3, <3>5, <3>6 DEF Restores
    <2> QED
      BY <1>7, <2>1, <2>2 DEF PreviewRule
  <1>13. ASSUME NEW t \in Threads
         PROVE  StopNeeds(t)'
    <2> SUFFICES ASSUME caller[t].api = "SET_PARAMS_STOP" \/ (caller[t].api = "SET_PARAMS_RESTART" /\ Has(api_queue', t))
                 PROVE  prm'.needRestart
      BY <1>8 DEF StopNeeds
    <2>1. prm.needRestart
      BY <1>4 DEF RestartOK, StopNeeds
    <2>2. SetsParameters(caller[t].api)
      BY DEF SetsParameters
    <2>3. ASSUME e.api \in {"SET_PARAMS", "SET_PARAMS_RESTART"}
          PROVE  FALSE
      <3>1. e.from \in Threads /\ SetsParameters(caller[e.from].api) /\ caller[e.from].api = e.api
        BY <1>5, <1>6, <2>3 DEF SetsParameters
      <3>2. e.from = t
        BY <1>2, <2>2, <3>1, OneSetsParameters
      <3> QED
        BY <1>6, <2>3, <3>1, <3>2
    <2> QED
      BY <1>7, <2>1, <2>3 DEF PreviewRule
  <1>14. NoFlash'
    <2>1. e.api # "PREPARE_SNAPSHOT"
      BY <1>5, <1>6 DEF RestartOK, NoFlash
    <2> QED
      BY <1>7, <1>8, <2>1 DEF RestartOK, NoFlash, AnsweredOnce, AnswerIs, LeftSilent
  <1> QED
    BY <1>12, <1>13, <1>14 DEF RestartOK

\* Steps in which no call of set_parameters goes on.
LEMMA RestoresAside ==
    ASSUME RestartOK, UNCHANGED <<prm, caller>>,
           \A t \in Threads : /\ Has(api_queue', t) <=> Has(api_queue, t)
                              /\ Said(m_apiResultList, t) => Said(m_apiResultList', t),
           m_state' = "PREPARE_SNAPSHOT" => m_state = "PREPARE_SNAPSHOT",
           m_state' \in Shown /\ ~PreviewOn(ch') => m_state \in Shown /\ ~PreviewOn(ch)
    PROVE  RestartOK'
  <1>1. ASSUME NEW t \in Threads
        PROVE  (Restores(t) => Restores(t)') /\ StopNeeds(t)'
    BY DEF RestartOK, Restores, StopNeeds
  <1>2. Owes'
    BY <1>1 DEF RestartOK, Owes
  <1>3. NoFlash'
    BY DEF RestartOK, NoFlash
  <1> QED
    BY <1>1, <1>2, <1>3 DEF RestartOK

LEMMA SmEvtRestores ==
    ASSUME CoreInv, RestartOK, SmEvt
    PROVE  RestartOK'
  <1>1. UNCHANGED <<prm, caller, api_queue, m_apiResultList>> /\ ~PrepSnapshotDone
    BY DEF SmEvt, SnapshotDone, JpegEvtNotify, PrepSnapshotDone, Silent, machine, RestartOK, NoFlash
  <1>2. /\ m_state' = "PREPARE_SNAPSHOT" => m_state = "PREPARE_SNAPSHOT"
        /\ m_state' \in Shown /\ ~PreviewOn(ch') => m_state \in Shown /\ ~PreviewOn(ch)
    <2>1. CASE m_state = "PREVIEW_PIC_TAKING" /\ m_state' = "PREVIEWING" /\ CancelPreviewPicture(ch) /\ SnapshotDone
      <3>1. ch' = ch
        BY <2>1, CancelPreviewPictureType DEF CoreInv, MachineOK, MachineTypes
      <3> QED
        BY <2>1, <3>1 DEF Shown
    <2>2. CASE m_state' \in {"PREVIEW_STOPPED", "RECORDING"}
      BY <2>2 DEF Shown
    <2>3. CASE UNCHANGED <<m_state, ch>>
      BY <2>3
    <2> QED
      BY <1>1, <2>1, <2>2, <2>3 DEF SmEvt, SnapshotDone, JpegEvtNotify, machine
  <1>3. api_queue' = api_queue /\ m_apiResultList' = m_apiResultList
    BY <1>1
  <1> QED
    BY <1>1, <1>2, <1>3, RestoresAside

LEMMA OtherRestores ==
    ASSUME CoreInv, RestartOK,
           Notify \/ LiveTake \/ LiveCancel \/ FrameArrives \/ JpegDone \/ PrepDone \/ UNCHANGED vars,
           ~Faulty
    PROVE  RestartOK'
  <1>1. UNCHANGED <<m_state, prm, caller, m_apiResultList>>
    BY DEF Notify, LiveTake, LiveCancel, FrameArrives, JpegDone, PrepDone, vars, machine, queues, picture
  <1>2. PreviewOn(ch') <=> PreviewOn(ch)
    <2>1. \/ UNCHANGED ch
          \/ \E v \in {"idle", "on"} : ch' = [ch EXCEPT !["SNAPSHOT"] = v]
      BY DEF Notify, LiveTake, LiveCancel, FrameArrives, JpegDone, PrepDone, vars, machine
    <2>2. ch \in ChannelSet
      BY DEF CoreInv, MachineOK, MachineTypes
    <2> QED
      BY <2>1, <2>2 DEF ChannelSet, Channels, PreviewOn
  <1>3. \A t \in Threads : Has(api_queue', t) <=> Has(api_queue, t)
    <2>1. CASE UNCHANGED api_queue
      <3>1. api_queue' = api_queue
        BY <2>1
      <3> QED
        BY <3>1
    <2>2. CASE PostInternal("STOP_CAPTURE_CHANNEL")
      <3> DEFINE x == [api |-> "STOP_CAPTURE_CHANNEL", from |-> "internal", arg |-> NoArg]
      <3>1. x \in EventSet /\ x.from = "internal" /\ api_queue' = Append(api_queue, x)
        BY <2>2, DummyType, EventsFact DEF EventSet, Posters, PostInternal
      <3> HIDE DEF x
      <3>2. api_queue \in Seq(EventSet)
        BY DEF CoreInv, QueueTypes
      <3>3. \A u : Has(api_queue', u) <=> Has(api_queue, u) \/ "internal" = u
        BY <3>1, <3>2, AppendedFrom
      <3> QED
        BY <3>3, CameraConstants
    <2> QED
      BY <2>1, <2>2 DEF Notify, LiveTake, LiveCancel, FrameArrives, JpegDone, PrepDone, vars, queues
  <1>4. m_apiResultList' = m_apiResultList
    BY <1>1
  <1> QED
    BY <1>1, <1>2, <1>3, <1>4, RestoresAside

\* A caller posts an event; the calls of the others go on.
LEMMA PostRestores ==
    ASSUME CoreInv, RestartOK, NEW t \in Threads, NEW k, NEW api \in Events,
           NEW arg \in ArgSet, Post(t, k, api, arg), UNCHANGED machine,
           api # "PREPARE_SNAPSHOT",
           api \in {"SET_PARAMS_STOP", "SET_PARAMS_RESTART"} => prm.needRestart,
           \A u \in Threads : u # t /\ Said(m_apiResultList, u) => Said(m_apiResultList', u),
           Restores(t) /\ prm.needRestart => api \in {"SET_PARAMS_COMMIT", "SET_PARAMS_RESTART"}
    PROVE  RestartOK'
  <1> DEFINE x == [api |-> api, from |-> t, arg |-> arg]
  <1>1. x \in EventSet /\ x.from = t /\ api_queue' = Append(api_queue, x)
    BY DEF EventSet, Posters, Post
  <1> HIDE DEF x
  <1>2. /\ api_queue \in Seq(EventSet) /\ caller \in [Threads -> CallerSet]
        /\ caller' = [caller EXCEPT ![t] = [call |-> k, api |-> api, woken |-> FALSE]]
    BY DEF CoreInv, QueueTypes, Post
  <1>3. \A u : Has(api_queue', u) <=> Has(api_queue, u) \/ t = u
    BY <1>1, <1>2, AppendedFrom
  <1>4. /\ caller'[t].api = api
        /\ \A u \in Threads : u # t => caller'[u] = caller[u]
    BY <1>2
  <1>5. m_state' = m_state /\ ch' = ch /\ prm' = prm
    BY DEF machine
  <1>6. ASSUME NEW u \in Threads
        PROVE  (Restores(u) /\ prm.needRestart => Restores(u)') /\ StopNeeds(u)'
    <2>1. CASE u = t
      BY <1>3, <1>4, <1>5, <2>1 DEF Restores, StopNeeds
    <2>2. CASE u # t
      BY <1>3, <1>4, <1>5, <2>2 DEF RestartOK, Restores, StopNeeds
    <2> QED
      BY <2>1, <2>2
  <1>7. Owes'
    BY <1>5, <1>6 DEF RestartOK, Owes
  <1>8. NoFlash'
    BY <1>4, <1>5 DEF RestartOK, NoFlash
  <1> QED
    BY <1>6, <1>7, <1>8 DEF RestartOK

LEMMA FirstEventsPlain ==
    ASSUME ~Flash, NEW k \in DOMAIN FirstEvents, NEW api \in FirstEvents[k]
    PROVE  api \notin {"PREPARE_SNAPSHOT", "SET_PARAMS_STOP", "SET_PARAMS_RESTART"}
  <1>1. DOMAIN FirstEvents =
          {"set_preview_window", "start_preview", "stop_preview", "preview_enabled",
           "enable_msg_type", "disable_msg_type", "set_parameters", "start_recording",
           "stop_recording", "release_recording_frame", "take_picture", "cancel_picture",
           "release"}
    BY FirstEventsFact
  <1>2. /\ k = "set_preview_window" => api = "SET_PREVIEW_WINDOW"
        /\ k = "start_preview" => api = "START_PREVIEW"
        /\ k = "stop_preview" => api = "STOP_PREVIEW"
        /\ k = "preview_enabled" => api = "PREVIEW_ENABLED"
        /\ k = "enable_msg_type" => api = "ENABLE_MSG_TYPE"
        /\ k = "disable_msg_type" => api = "DISABLE_MSG_TYPE"
        /\ k = "set_parameters" => api = "SET_PARAMS"
        /\ k = "start_recording" => api = "PRE_START_RECORDING"
        /\ k = "stop_recording" => api = "STOP_RECORDING"
        /\ k = "release_recording_frame" => api = "RELEASE_RECORDING_FRAME"
        /\ k = "take_picture" => api = "PRE_TAKE_PICTURE"
        /\ k = "cancel_picture" => api = "CANCEL_PICTURE"
        /\ k = "release" => api = "RELEASE"
    BY DEF FirstEvents
  <1> QED
    BY <1>1, <1>2

LEMMA CallRestores ==
    ASSUME CoreInv, RestartOK, ~Flash, NEW t \in Threads, NEW k \in Calls[t], Call(t, k)
    PROVE  RestartOK'
  <1>1. k \in DOMAIN FirstEvents
    BY CameraConstants
  <1>2. PICK api \in FirstEvents[k], arg \in Args(k) : Post(t, k, api, arg)
    BY DEF Call
  <1>3. api \in Events /\ arg \in ArgSet
    BY <1>1, FirstEventsFact, ArgsType
  <1>4. api \notin {"PREPARE_SNAPSHOT", "SET_PARAMS_STOP", "SET_PARAMS_RESTART"}
    BY <1>1, FirstEventsPlain
  <1>5. ~Restores(t) /\ UNCHANGED machine /\ m_apiResultList' = m_apiResultList
    BY RestoresSets DEF Call, Idle, None
  <1> QED
    BY <1>2, <1>3, <1>4, <1>5, PostRestores

LEMMA WakeRestores ==
    ASSUME CoreInv, AnswersOK, RestartOK, NEW t \in Threads, Wake(t)
    PROVE  RestartOK'
  <1> DEFINE a == caller[t].api
  <1>1. PICK i \in DOMAIN m_apiResultList :
           /\ m_apiResultList[i].from = t
           /\ m_apiResultList' = RemoveAt(m_apiResultList, i)
           /\ \/ /\ NextEvents(a, m_apiResultList[i].ok) = {}
                 /\ caller' = [caller EXCEPT ![t] = Idle]
                 /\ UNCHANGED api_queue
              \/ \E api \in NextEvents(a, m_apiResultList[i].ok) :
                    Post(t, caller[t].call, api, NoArg)
    BY WakeTakesItsOwn
  <1>2. m_apiResultList \in Seq(ResultSet) /\ caller \in [Threads -> CallerSet] /\ a # None /\ UNCHANGED machine
    BY WakeTakes DEF Wake, CoreInv, QueueTypes
  <1>3. ~Has(api_queue, t) /\ Once(m_apiResultList, t)
    <2>1. Has(m_apiResultList, t)
      BY <1>1 DEF Has
    <2> QED
      BY <2>1 DEF AnswersOK, CallerAnswered
  <1>4. /\ \A u \in Threads : u # t /\ Said(m_apiResultList, u) => Said(m_apiResultList', u)
        /\ Said(m_apiResultList, t) => m_apiResultList[i].ok
    BY <1>1, <1>2, <1>3, RemovedSaid
  <1>5. Restores(t) => a \in {"SET_PARAMS_STOP", "SET_PARAMS_COMMIT"} /\ m_apiResultList[i].ok
    BY <1>3, <1>4 DEF Restores
  <1>6. Restores(t) /\ prm.needRestart =>
            /\ NextEvents(a, m_apiResultList[i].ok) # {}
            /\ NextEvents(a, m_apiResultList[i].ok) \subseteq {"SET_PARAMS_COMMIT", "SET_PARAMS_RESTART"}
    <2>1. ASSUME a = "SET_PARAMS_STOP", m_apiResultList[i].ok
          PROVE  NextEvents(a, m_apiResultList[i].ok) = {"SET_PARAMS_COMMIT"}
      BY <2>1 DEF NextEvents
    <2>2. ASSUME a = "SET_PARAMS_COMMIT", m_apiResultList[i].ok, prm.needRestart
          PROVE  NextEvents(a, m_apiResultList[i].ok) = {"SET_PARAMS_RESTART"}
      BY <2>2 DEF NextEvents
    <2> QED
      BY <1>5, <2>1, <2>2
  <1>7. ASSUME NEW api \in NextEvents(a, m_apiResultList[i].ok)
        PROVE  /\ api # "PREPARE_SNAPSHOT"
               /\ api \in {"SET_PARAMS_STOP", "SET_PARAMS_RESTART"} => prm.needRestart
    BY <1>7 DEF NextEvents
  <1>8. CASE /\ NextEvents(a, m_apiResultList[i].ok) = {}
             /\ caller' = [caller EXCEPT ![t] = Idle]
             /\ UNCHANGED api_queue
    <2>1. /\ caller'[t].api = None
          /\ \A u \in Threads : u # t => caller'[u] = caller[u]
      BY <1>2, <1>8 DEF Idle
    <2>2. m_state' = m_state /\ ch' = ch /\ prm' = prm /\ api_queue' = api_queue
      BY <1>2, <1>8 DEF machine
    <2>3. ASSUME NEW u \in Threads
          PROVE  (Restores(u) /\ prm.needRestart => Restores(u)') /\ StopNeeds(u)'
      <3>1. CASE u = t
        BY <1>6, <1>8, <2>1, <3>1 DEF StopNeeds, None
      <3>2. CASE u # t
        BY <1>4, <2>1, <2>2, <3>2 DEF RestartOK, Restores, StopNeeds
      <3> QED
        BY <3>1, <3>2
    <2>4. Owes'
      BY <2>2, <2>3 DEF RestartOK, Owes
    <2>5. NoFlash'
      BY <2>1, <2>2 DEF RestartOK, NoFlash, None
    <2> QED
      BY <2>3, <2>4, <2>5 DEF RestartOK
  <1>9. CASE \E api \in NextEvents(a, m_apiResultList[i].ok) : Post(t, caller[t].call, api, NoArg)
    <2>1. PICK api \in NextEvents(a, m_apiResultList[i].ok) : Post(t, caller[t].call, api, NoArg)
      BY <1>9
    <2>2. api \in Events
      BY <1>2, NextEventsFact
    <2>3. Restores(t) /\ prm.needRestart => api \in {"SET_PARAMS_COMMIT", "SET_PARAMS_RESTART"}
      BY <1>6
    <2> QED
      BY <1>2, <1>4, <1>7, <2>1, <2>2, <2>3, DummyType, PostRestores
  <1> QED
    BY <1>1, <1>8, <1>9

LEMMA RestartInit ==
    ASSUME Init
    PROVE  RestartOK
  BY DEF Init, RestartOK, Owes, StopNeeds, NoFlash, Shown, Idle, None

LEMMA RestartNext ==
    ASSUME CoreInv, AnswersOK, RestartOK, ~Faulty, ~Flash, [Next]_vars
    PROVE  RestartOK'
  <1>1. CASE SmApi
    BY <1>1, SmApiRestores
  <1>2. CASE SmEvt
    BY <1>2, SmEvtRestores
  <1>3. CASE \E t \in Threads : (\E k \in Calls[t] : Call(t, k)) \/ Wake(t)
    BY <1>3, CallRestores, WakeRestores
  <1>4. CASE Notify \/ LiveTake \/ LiveCancel \/ FrameArrives \/ JpegDone \/ PrepDone \/ UNCHANGED vars
    BY <1>4, OtherRestores
  <1> QED
    BY <1>1, <1>2, <1>3, <1>4 DEF Next

\* However the calls interleave with a set_parameters that stops the preview,
\* a state that says the preview runs is told the truth or still owes a restart.
THEOREM PreviewIsTrue ==
    ASSUME ~Faulty, ~Flash, NoFrameReleased
    PROVE  Spec => []PreviewAgrees
  <1>1. RestartOK => PreviewAgrees
    BY DEF RestartOK, Owes, Shown, PreviewAgrees
  <1>2. Init => RestartOK
    BY RestartInit
  <1>3. CoreInv /\ AnswersOK /\ RestartOK /\ [Next]_vars => RestartOK'
    BY RestartNext
  <1> QED
    BY <1>1, <1>2, <1>3, CoreInvariance, AnswersInvariance, PTL DEF Spec
=============================================================================
