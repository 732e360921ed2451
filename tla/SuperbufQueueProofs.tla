------------------------- MODULE SuperbufQueueProofs -------------------------
(***************************************************************************)
(* Proofs about a channel's super buffer queue, for any streams, bounds    *)
(* and lengths of its queues, for continuous notification as well as on    *)
(* request: no buffer is lost, order is kept, the loops that wait for the  *)
(* count of super buffers to fall find one each time, the flash follows    *)
(* what is requested, the kernel keeps a buffer, and a stopped channel is  *)
(* empty.                                                                  *)
(***************************************************************************)
EXTENDS SuperbufQueue, SequenceTheorems, FiniteSetTheorems, WellFoundedInduction, TLAPS

\* What the constants are, one by one.
LEMMA ConstantTypes ==
    /\ IsFiniteSet(Streams) /\ Meta \in Streams
    /\ num_bufs \in Nat /\ MaxFrame \in Nat /\ water_mark \in Nat /\ look_back \in Nat
    /\ post_frame_skip \in Nat /\ max_unmatched_frames \in Nat /\ MaxFuture \in Nat
    /\ Continuous \in BOOLEAN
    /\ Requests \subseteq [num : Nat, retro : Nat] /\ Flushes \subseteq Nat
  BY QueueConstants

-----------------------------------------------------------------------------
(* The positions of a sequence that are kept.                              *)

\* A set of positions has a least one.
LEMMA LeastExists ==
    ASSUME NEW I \in SUBSET Nat, I # {}
    PROVE  LeastOf(I) \in I /\ \A i \in I : LeastOf(I) <= i
  <1> DEFINE R == {ss \in Nat \X Nat : ss[1] < ss[2]}
  <1>1. IsWellFoundedOn(R, Nat)
    BY NatLessThanWellFounded DEF OpToRel
  <1>2. \A m, n \in Nat : m < n => <<m, n>> \in R
    OBVIOUS
  <1> HIDE DEF R
  <1>3. PICK x \in I : \A y \in I : ~(<<y, x>> \in R)
    BY <1>1, WFMin
  <1>4. \A y \in I : x <= y
    <2> TAKE y \in I
    <2>1. y \in Nat /\ x \in Nat /\ ~(y < x)
      BY <1>2, <1>3
    <2> QED
      BY <2>1
  <1> QED
    BY <1>3, <1>4 DEF LeastOf

\* Ranks go up with the positions, from 1 to their number.
LEMMA RankFacts ==
    ASSUME NEW n \in Nat, NEW I \in SUBSET (1 .. n)
    PROVE  /\ IsFiniteSet(I) /\ Cardinality(I) \in Nat
           /\ \A i \in I : Rank(I, i) \in 1 .. Cardinality(I)
           /\ \A i, j \in I : i < j => Rank(I, i) < Rank(I, j)
           /\ \A k \in 1 .. Cardinality(I) : \E i \in I : Rank(I, i) = k
  <1>1. IsFiniteSet(I) /\ Cardinality(I) \in Nat
    <2>1. IsFiniteSet(1 .. n)
      BY FS_Interval
    <2>2. IsFiniteSet(I)
      BY <2>1, FS_Subset
    <2> QED
      BY <2>2, FS_CardinalityType
  <1>2. ASSUME NEW i \in I PROVE Rank(I, i) \in 1 .. Cardinality(I)
    <2> DEFINE J == {j \in I : j <= i}
    <2>1. J \in SUBSET I /\ i \in J /\ J # {}
      OBVIOUS
    <2>2. IsFiniteSet(J) /\ Cardinality(J) <= Cardinality(I) /\ Cardinality(J) \in Nat
      BY <1>1, <2>1, FS_Subset, FS_CardinalityType
    <2>3. Cardinality(J) # 0
      BY <2>1, <2>2, FS_EmptySet
    <2> QED
      BY <1>1, <2>2, <2>3 DEF Rank
  <1>3. ASSUME NEW i \in I, NEW j \in I, i < j PROVE Rank(I, i) < Rank(I, j)
    <2> DEFINE J == {k \in I : k <= j}
               K == {k \in I : k <= i}
    <2>1. J \in SUBSET I /\ K \in SUBSET J /\ j \in J /\ j \notin K
      <3>1. i \in Int /\ j \in Int /\ \A k \in I : k \in Int
        OBVIOUS
      <3>2. \A k \in I : k <= i => k <= j
        BY <1>3, <3>1
      <3>3. j <= j /\ ~(j <= i)
        BY <1>3, <3>1
      <3> QED
        BY <3>2, <3>3
    <2>2. IsFiniteSet(J) /\ Cardinality(J) \in Nat
      BY <1>1, <2>1, FS_Subset, FS_CardinalityType
    <2>3. Cardinality(K) <= Cardinality(J) /\ Cardinality(K) # Cardinality(J) /\ Cardinality(K) \in Nat
      BY <2>1, <2>2, FS_Subset, FS_CardinalityType
    <2> QED
      BY <2>2, <2>3 DEF Rank
  <1>4. ASSUME NEW k \in 1 .. Cardinality(I) PROVE \E i \in I : Rank(I, i) = k
    <2> DEFINE f == [i \in I |-> Rank(I, i)]
               T == 1 .. Cardinality(I)
    <2>1. f \in [I -> T]
      BY <1>2
    <2>2. \A i, j \in I : f[i] = f[j] => i = j
      <3>1. ASSUME NEW i \in I, NEW j \in I, f[i] = f[j], i # j PROVE FALSE
        <4>1. i \in Int /\ j \in Int /\ (i < j \/ j < i)
          BY <3>1
        <4>2. Rank(I, i) \in Int /\ Rank(I, j) \in Int /\ Rank(I, i) = Rank(I, j)
          BY <1>2, <3>1
        <4> QED
          BY <1>3, <4>1, <4>2
      <3> QED
        BY <3>1
    <2>3. f \in Injection(I, T)
      BY <2>1, <2>2 DEF Injection, IsInjective
    <2>4. IsFiniteSet(T) /\ Cardinality(T) = Cardinality(I)
      BY <1>1, FS_Interval
    <2>5. f \in Surjection(I, T)
      BY <2>3, <2>4, FS_Injection
    <2> QED
      BY <2>5 DEF Surjection
  <1> QED
    BY <1>1, <1>2, <1>3, <1>4

\* What is kept are the elements at the positions, in their order.
Picks(at, I) ==
    /\ at \in [1 .. Cardinality(I) -> I]
    /\ \A k, l \in 1 .. Cardinality(I) : k < l => at[k] < at[l]
    /\ \A i \in I : Rank(I, i) \in 1 .. Cardinality(I) /\ at[Rank(I, i)] = i

\* Keep leaves as many elements as there are positions, each in its turn.
LEMMA KeepFacts ==
    ASSUME NEW S, NEW q \in Seq(S), NEW I \in SUBSET (1 .. Len(q))
    PROVE  /\ Keep(q, I) \in Seq(S) /\ Len(Keep(q, I)) = Cardinality(I)
           /\ Cardinality(I) \in Nat
           /\ \E at : /\ Picks(at, I)
                      /\ \A k \in 1 .. Cardinality(I) : Keep(q, I)[k] = q[at[k]]
  <1> DEFINE c == Cardinality(I)
             at == [k \in 1 .. c |-> CHOOSE i \in I : Rank(I, i) = k]
  <1>1. Len(q) \in Nat /\ \A i \in 1 .. Len(q) : q[i] \in S
    BY LenProperties, ElementOfSeq
  <1>2. /\ c \in Nat
        /\ \A i \in I : Rank(I, i) \in 1 .. c
        /\ \A i, j \in I : i < j => Rank(I, i) < Rank(I, j)
        /\ \A k \in 1 .. c : \E i \in I : Rank(I, i) = k
    BY <1>1, RankFacts
  <1>3. \A k \in 1 .. c : at[k] \in I /\ Rank(I, at[k]) = k
    <2> TAKE k \in 1 .. c
    <2>1. at[k] = CHOOSE i \in I : Rank(I, i) = k
      OBVIOUS
    <2>2. \E i \in I : Rank(I, i) = k
      BY <1>2
    <2> HIDE DEF at
    <2> QED
      BY <2>1, <2>2
  <1>4. ASSUME NEW k \in 1 .. c, NEW l \in 1 .. c, k < l PROVE at[k] < at[l]
    <2>0. \A i \in I : i \in Int
      BY <1>1
    <2>1. at[k] \in Int /\ at[l] \in Int /\ at[k] \in I /\ at[l] \in I
      <3> HIDE DEF at, c
      <3> QED
        BY <1>3, <2>0
    <2>2. Rank(I, at[k]) = k /\ Rank(I, at[l]) = l
      BY <1>3
    <2> HIDE DEF at
    <2>3. k \in Int /\ l \in Int /\ k # l /\ ~(l < k)
      BY <1>2, <1>4
    <2>4. at[l] < at[k] => Rank(I, at[l]) < Rank(I, at[k])
      BY <1>2, <2>1
    <2> QED
      BY <2>1, <2>2, <2>3, <2>4
  <1>5. \A i \in I : at[Rank(I, i)] = i
    <2>1. ASSUME NEW i \in I, at[Rank(I, i)] # i PROVE FALSE
      <3> DEFINE j == at[Rank(I, i)]
      <3>1. j \in I /\ Rank(I, j) = Rank(I, i) /\ j # i
        BY <1>2, <1>3, <2>1
      <3>2. (j < i \/ i < j) /\ Rank(I, i) \in Int
        BY <1>2, <3>1
      <3> QED
        BY <1>2, <3>1, <3>2
    <2> QED
      BY <2>1
  <1>6. Picks(at, I)
    BY <1>2, <1>3, <1>4, <1>5 DEF Picks
  <1>7. Keep(q, I) = [k \in 1 .. c |-> q[at[k]]]
    BY DEF Keep
  <1>8. \A k \in 1 .. c : q[at[k]] \in S
    BY <1>1, <1>3
  <1> HIDE DEF at
  <1>9. Keep(q, I) \in Seq(S) /\ Len(Keep(q, I)) = c
    BY <1>2, <1>7, <1>8
  <1> QED
    BY <1>2, <1>6, <1>7, <1>9
-----------------------------------------------------------------------------
(* The inductive invariant.                                                *)

Node == [frame : Frames, has : (SUBSET Streams) \ {{}}, awaited : BOOLEAN]

Channel == [que : Seq(Node), match_cnt : Int, expected_frame_id : Nat,
            good_frame_id : Nat, pending_cnt : Nat, pending_retro_cnt : Nat,
            bWait : BOOLEAN, needLEDFlash : BOOLEAN, startZSl : BOOLEAN,
            burstSnapNum : Nat, stopZslSnapshot : BOOLEAN,
            bracketingState : {"OFF", "ACTIVE"}, led_off_start_frame_id : Nat,
            frame_skip_count : Nat, once : BOOLEAN, diverted_frame_id : Nat,
            spins : BOOLEAN]

DataCommand == [type : {"DATA"}, stream : Streams, frame : Frames, news : News]
Command == DataCommand \cup [type : {"REQ"}, num : Nat, retro : Nat]
                       \cup [type : {"FLUSH"}, frame : Nat]

TypeOK ==
    /\ state \in [Streams -> {"REG", "ACTIVE", "OFF"}]
    /\ buf_refcnt \in [Streams -> [Frames -> Int]]
    /\ queued_buffer_count \in [Streams -> Int]
    /\ last \in [Streams -> Nat]
    /\ cmd_queue \in Seq(Command)
    /\ app_queue \in [Streams -> Seq(Frames)]
    /\ ch \in Channel
    /\ cb_queue \in Seq(Node)
    /\ held \in SUBSET ({"app", "super"} \X Streams \X Frames)
    /\ sync_sem \in {0, 1}
    /\ api \in {"starting", "idle", "flushing", "stopping", "joining", "stopped"}

\* The first n nodes of a queue are complete, no other is, and frames ascend.
Sorted(q, n) ==
    /\ n \in 0 .. Len(q)
    /\ \A i \in 1 .. Len(q) : q[i].has = Streams <=> i <= n
    /\ \A i, j \in 1 .. Len(q) : i < j => q[i].frame < q[j].frame

\* What every operation of the command thread finds and leaves.
GoodQueue(c) ==
    /\ c \in Channel /\ ~c.spins
    /\ Sorted(c.que, c.match_cnt)
    /\ Len(c.que) - c.match_cnt <= max_unmatched_frames + 1

\* A request never has more pictures from before it than pictures, and no burst is
\* counted or told to stop while the sensor is not in its flash mode.
GoodRequest(c) ==
    /\ c.pending_retro_cnt <= c.pending_cnt /\ (Continuous => ~c.bWait)
    /\ c.burstSnapNum > 0 <=> c.startZSl
    /\ c.stopZslSnapshot => c.startZSl

\* The flash follows the request: so it is between two commands, and a command that has
\* changed either lasts until SwitchZsl.
Lit(c) ==
    /\ c.startZSl => c.pending_cnt > 0
    /\ c.pending_cnt > 0 /\ (c.needLEDFlash \/ c.bracketingState # "OFF") => c.startZSl
    /\ ~c.stopZslSnapshot

\* A frame of a stream that no command will bring (again).
Brings(cmd, s) == cmd.type = "DATA" /\ cmd.stream = s
IsPast(s, f) ==
    /\ f <= last[s]
    /\ \A i \in DOMAIN cmd_queue : Brings(cmd_queue[i], s) => f < cmd_queue[i].frame

CommandsAscend == \A s \in Streams, i \in DOMAIN cmd_queue : Brings(cmd_queue[i], s) =>
    /\ cmd_queue[i].frame <= last[s]
    /\ \A j \in DOMAIN cmd_queue :
          i < j /\ Brings(cmd_queue[j], s) => cmd_queue[i].frame < cmd_queue[j].frame

QueuedArePast == \A i \in DOMAIN ch.que : \A s \in ch.que[i].has : IsPast(s, ch.que[i].frame)

SentArePast == \A i \in DOMAIN cb_queue :
    cb_queue[i].has = Streams /\ \A s \in Streams : IsPast(s, cb_queue[i].frame)

\* What the client holds was complete, and is older than what will come.
HeldArePast == \A h \in held : h[1] = "super" =>
    /\ \A s \in Streams : IsPast(s, h[3])
    /\ \A i \in DOMAIN cb_queue : h[3] < cb_queue[i].frame
    /\ \A i \in DOMAIN ch.que : h[3] < ch.que[i].frame

\* Nor does a stream's own callback get a frame twice, or once the stream has stopped.
CallbacksAscend == \A s \in Streams : \A i \in DOMAIN app_queue[s] :
    /\ app_queue[s][i] <= last[s] /\ state[s] # "REG"
    /\ \A j \in DOMAIN app_queue[s] : i < j => app_queue[s][i] < app_queue[s][j]

AnswersArePast == \A h \in held : h[1] = "app" =>
    /\ h[3] <= last[h[2]]
    /\ \A i \in DOMAIN app_queue[h[2]] : h[3] < app_queue[h[2]][i]

\* A stream that is not running has no counts; before the start it has no frame.
IdleStreams == \A s \in Streams :
    /\ state[s] = "REG" => \A f \in Frames : buf_refcnt[s][f] = 0
    /\ state[s] = "REG" /\ api = "starting" => last[s] = 0 /\ queued_buffer_count[s] = num_bufs
    /\ state[s] = "OFF" => api = "stopping"
    /\ api \in {"joining", "stopped"} => state[s] = "REG"

\* Who waits has one flush before it, or its answer; the flush of a stop is the last
\* command.
IsFlush(i) == cmd_queue[i].type = "FLUSH"
FlushIsAwaited ==
    /\ \A i, j \in DOMAIN cmd_queue : IsFlush(i) /\ IsFlush(j) => i = j
    /\ (\E i \in DOMAIN cmd_queue : IsFlush(i)) => sync_sem = 0 /\ api \in {"flushing", "joining"}
    /\ sync_sem = 1 => api \in {"flushing", "joining"}
    /\ api = "joining" =>
          \/ cmd_queue = <<>> /\ ch.que = <<>>
          \/ cmd_queue # <<>> /\ IsFlush(Len(cmd_queue))
    /\ api = "stopped" => cmd_queue = <<>> /\ cb_queue = <<>> /\ ch.que = <<>>

Inv ==
    /\ TypeOK
    /\ GoodQueue(ch) /\ GoodRequest(ch) /\ ch.match_cnt <= water_mark
    /\ Lit(ch)
    /\ CommandsAscend /\ QueuedArePast /\ SentArePast /\ HeldArePast
    /\ FramesAreInOrder /\ CallbacksAscend /\ AnswersArePast
    /\ IdleStreams /\ FlushIsAwaited
-----------------------------------------------------------------------------
(* The operations of the command thread on its queue.                      *)

\* A sorted queue: match_cnt is the length of its complete head, and the rest is not
\* complete.
LEMMA QueueFacts ==
    ASSUME NEW q \in Seq(Node), NEW n, Sorted(q, n)
    PROVE  /\ Len(q) \in Nat /\ DOMAIN q = 1 .. Len(q) /\ n \in Nat /\ n <= Len(q)
           /\ Unmatched(q) = (n + 1) .. Len(q)
           /\ MatchedHead(q) = n
           /\ DOMAIN q \ Unmatched(q) = 1 .. n
           /\ Cardinality(DOMAIN q \ Unmatched(q)) = n
           /\ IsFiniteSet(Unmatched(q)) /\ Cardinality(Unmatched(q)) = Len(q) - n
           /\ \A i \in 1 .. Len(q) :
                 /\ q[i] \in Node /\ q[i].frame \in Frames /\ q[i].frame \in Nat
                 /\ q[i].has \in (SUBSET Streams) \ {{}} /\ q[i].awaited \in BOOLEAN
  <1>1. Len(q) \in Nat /\ DOMAIN q = 1 .. Len(q) /\ \A i \in 1 .. Len(q) : q[i] \in Node
    BY LenProperties, ElementOfSeq
  <1>2. n \in Nat /\ n <= Len(q) /\ n \in Int
    BY <1>1 DEF Sorted
  <1>3. Unmatched(q) = (n + 1) .. Len(q)
    <2>1. \A i \in 1 .. Len(q) : q[i].has # Streams <=> i >= n + 1
      BY <1>1, <1>2 DEF Sorted
    <2>2. \A i : i \in Unmatched(q) <=> i \in 1 .. Len(q) /\ i >= n + 1
      BY <1>1, <2>1 DEF Unmatched
    <2>3. \A i : i \in (n + 1) .. Len(q) <=> i \in 1 .. Len(q) /\ i >= n + 1
      BY <1>1, <1>2
    <2> QED
      BY <2>2, <2>3
  <1>4. MatchedHead(q) = n
    <2>1. CASE n = Len(q)
      <3>1. Unmatched(q) = {}
        BY <1>1, <1>2, <1>3, <2>1
      <3> QED
        BY <2>1, <3>1 DEF MatchedHead
    <2>2. CASE n < Len(q)
      <3> DEFINE U == Unmatched(q)
      <3>1. U \in SUBSET Nat /\ U # {} /\ n + 1 \in U
        BY <1>1, <1>2, <1>3, <2>2
      <3>2. LeastOf(U) \in U /\ \A i \in U : LeastOf(U) <= i
        BY <3>1, LeastExists
      <3>3. LeastOf(U) = n + 1
        <4>1. LeastOf(U) \in (n + 1) .. Len(q) /\ LeastOf(U) <= n + 1
          BY <1>3, <3>1, <3>2
        <4> QED
          BY <1>1, <1>2, <4>1
      <3>4. MatchedHead(q) = LeastOf(U) - 1
        BY <3>1 DEF MatchedHead
      <3> QED
        BY <1>2, <3>3, <3>4
    <2>3. n = Len(q) \/ n < Len(q)
      <3>1. Len(q) \in Nat
        BY LenProperties
      <3> QED
        BY <1>2, <3>1
    <2> QED
      BY <2>1, <2>2, <2>3
  <1>5. DOMAIN q \ Unmatched(q) = 1 .. n
    BY <1>1, <1>2, <1>3
  <1>6. Cardinality(1 .. n) = n
    BY <1>2, FS_Interval
  <1>7. IsFiniteSet(Unmatched(q)) /\ Cardinality(Unmatched(q)) = Len(q) - n
    <2>1. n + 1 \in Int /\ Len(q) \in Int
      BY <1>1, <1>2
    <2>2. IsFiniteSet((n + 1) .. Len(q)) /\ Cardinality((n + 1) .. Len(q)) = IF n + 1 > Len(q) THEN 0 ELSE Len(q) - (n + 1) + 1
      BY <2>1, FS_Interval
    <2>3. Cardinality((n + 1) .. Len(q)) = Len(q) - n
      BY <1>1, <1>2, <2>2
    <2> QED
      BY <1>3, <2>2, <2>3
  <1>8. \A i \in 1 .. Len(q) :
           /\ q[i] \in Node /\ q[i].frame \in Frames /\ q[i].frame \in Nat
           /\ q[i].has \in (SUBSET Streams) \ {{}} /\ q[i].awaited \in BOOLEAN
    <2> TAKE i \in 1 .. Len(q)
    <2>1. q[i] \in Node
      BY <1>1
    <2>2. q[i].frame \in Frames /\ q[i].has \in (SUBSET Streams) \ {{}} /\ q[i].awaited \in BOOLEAN
      BY <2>1 DEF Node
    <2> QED
      BY <2>1, <2>2, ConstantTypes DEF Frames
  <1> QED
    BY <1>1, <1>2, <1>3, <1>4, <1>5, <1>6, <1>7, <1>8

\* Whose buffers a queue holds.
LEMMA BuffersFacts ==
    ASSUME NEW q \in Seq(Node)
    PROVE  /\ \A s, f : <<s, f>> \in BuffersOf(q) <=>
                 \E i \in 1 .. Len(q) : s \in q[i].has /\ q[i].frame = f
           /\ BuffersOf(q) \subseteq Streams \X Frames
  <1>1. DOMAIN q = 1 .. Len(q) /\ \A i \in 1 .. Len(q) : q[i] \in Node
    BY LenProperties, ElementOfSeq
  <1>2. \A i \in 1 .. Len(q) : q[i].has \subseteq Streams /\ q[i].frame \in Frames
    BY <1>1 DEF Node
  <1>3. \A b : b \in BuffersOf(q) <=> \E i \in 1 .. Len(q) : b \in q[i].has \X {q[i].frame}
    BY <1>1 DEF BuffersOf
  <1>4. ASSUME NEW s, NEW f
        PROVE  <<s, f>> \in BuffersOf(q) <=> \E i \in 1 .. Len(q) : s \in q[i].has /\ q[i].frame = f
    BY <1>3
  <1>5. BuffersOf(q) \subseteq Streams \X Frames
    BY <1>2, <1>3
  <1> QED
    BY <1>4, <1>5

\* A tail of a queue, when at most the complete nodes go.
LEMMA TailFacts ==
    ASSUME NEW q \in Seq(Node), NEW n, Sorted(q, n), NEW k \in Nat, k <= n
    PROVE  LET r == SubSeq(q, k + 1, Len(q)) 
               o == SubSeq(q, 1, k) IN
           /\ r \in Seq(Node) /\ Len(r) = Len(q) - k
           /\ Sorted(r, n - k)
           /\ \A i \in 1 .. Len(q) - k : r[i] = q[i + k]
           /\ o \in Seq(Node) /\ Len(o) = k
           /\ \A i \in 1 .. k : o[i] = q[i] /\ q[i].has = Streams
           /\ BuffersOf(q) = BuffersOf(r) \cup BuffersOf(o)
           /\ BuffersOf(r) \cap BuffersOf(o) = {}
  <1> DEFINE r == SubSeq(q, k + 1, Len(q))
             o == SubSeq(q, 1, k)
  <1> HIDE DEF r, o
  <1>0. /\ Len(q) \in Nat /\ n \in Nat /\ n <= Len(q)
        /\ \A i \in 1 .. Len(q) : q[i] \in Node /\ q[i].frame \in Nat
    BY QueueFacts
  <1>1. /\ Len(q) \in Nat /\ n \in Nat /\ n <= Len(q) /\ k <= Len(q)
        /\ \A i \in 1 .. Len(q) : q[i] \in Node /\ q[i].frame \in Nat
    BY <1>0
  <1> USE DEF r, o
  <1>2. r \in Seq(Node) /\ Len(r) = Len(q) - k /\ \A i \in 1 .. Len(q) - k : r[i] = q[i + k]
    <2>1. \A i \in k + 1 .. Len(q) : q[i] \in Node
      BY <1>1
    <2>2. /\ r \in Seq(Node)
          /\ Len(r) = IF k + 1 <= Len(q) THEN Len(q) - (k + 1) + 1 ELSE 0
          /\ \A i \in 1 .. Len(q) - (k + 1) + 1 : r[i] = q[k + 1 + i - 1]
      <3>1. k + 1 \in Int /\ Len(q) \in Int
        BY <1>1
      <3> QED
        BY <2>1, <3>1, SubSeqProperties
    <2>3. Len(r) = Len(q) - k
      BY <1>1, <2>2
    <2>4. \A i \in 1 .. Len(q) - k : r[i] = q[i + k]
      <3> TAKE i \in 1 .. Len(q) - k
      <3>1. i \in 1 .. Len(q) - (k + 1) + 1 /\ k + 1 + i - 1 = i + k
        BY <1>1
      <3>2. r[i] = q[k + 1 + i - 1]
        BY <2>2, <3>1
      <3> QED
        BY <3>1, <3>2
    <2> QED
      BY <2>2, <2>3, <2>4
  <1>3. o \in Seq(Node) /\ Len(o) = k /\ \A i \in 1 .. k : o[i] = q[i]
    <2>1. \A i \in 1 .. k : q[i] \in Node
      BY <1>1
    <2>2. /\ o \in Seq(Node) /\ Len(o) = IF 1 <= k THEN k - 1 + 1 ELSE 0
          /\ \A i \in 1 .. k - 1 + 1 : o[i] = q[1 + i - 1]
      BY <2>1, SubSeqProperties
    <2>3. Len(o) = k
      BY <2>2
    <2>4. \A i \in 1 .. k : o[i] = q[i]
      <3> TAKE i \in 1 .. k
      <3>1. i \in 1 .. k - 1 + 1 /\ 1 + i - 1 = i
        OBVIOUS
      <3> QED
        BY <2>2, <3>1
    <2> QED
      BY <2>2, <2>3, <2>4
  <1>4. \A i \in 1 .. k : q[i].has = Streams
    BY <1>1 DEF Sorted
  <1> HIDE DEF r, o
  <1>5. Sorted(r, n - k)
    <2>1. n - k \in 0 .. Len(r)
      BY <1>1, <1>2
    <2>2. ASSUME NEW i \in 1 .. Len(r) PROVE r[i].has = Streams <=> i <= n - k
      <3>1. i + k \in 1 .. Len(q) /\ i \in Int /\ r[i] = q[i + k] /\ (i + k <= n <=> i <= n - k)
        BY <1>1, <1>2
      <3> QED
        BY <3>1 DEF Sorted
    <2>3. ASSUME NEW i \in 1 .. Len(r), NEW j \in 1 .. Len(r), i < j PROVE r[i].frame < r[j].frame
      <3>1. i + k \in 1 .. Len(q) /\ j + k \in 1 .. Len(q) /\ i + k < j + k
        BY <1>1, <1>2, <2>3
      <3>2. r[i] = q[i + k] /\ r[j] = q[j + k]
        BY <1>1, <1>2
      <3> QED
        BY <3>1, <3>2 DEF Sorted
    <2> QED
      BY <2>1, <2>2, <2>3 DEF Sorted
  <1>6. ASSUME NEW s, NEW f
        PROVE  <<s, f>> \in BuffersOf(q) <=> <<s, f>> \in BuffersOf(r) \/ <<s, f>> \in BuffersOf(o)
    <2>1. ASSUME NEW i \in 1 .. Len(q), s \in q[i].has, q[i].frame = f
          PROVE  <<s, f>> \in BuffersOf(r) \/ <<s, f>> \in BuffersOf(o)
      <3>1. CASE i <= k
        <4>1. i \in 1 .. Len(o) /\ o[i] = q[i]
          BY <1>1, <1>3, <3>1
        <4> QED
          BY <1>3, <2>1, <4>1, BuffersFacts
      <3>2. CASE i > k
        <4>1. i - k \in 1 .. Len(r) /\ i - k + k = i /\ i - k \in 1 .. Len(q) - k
          BY <1>1, <1>2, <3>2
        <4>2. r[i - k] = q[i]
          BY <1>2, <4>1
        <4> QED
          BY <1>2, <2>1, <4>1, <4>2, BuffersFacts
      <3> QED
        BY <1>1, <3>1, <3>2
    <2>2. ASSUME NEW i \in 1 .. Len(r), s \in r[i].has, r[i].frame = f
          PROVE  <<s, f>> \in BuffersOf(q)
      <3>1. i + k \in 1 .. Len(q) /\ r[i] = q[i + k]
        BY <1>1, <1>2
      <3> QED
        BY <2>2, <3>1, BuffersFacts
    <2>3. ASSUME NEW i \in 1 .. Len(o), s \in o[i].has, o[i].frame = f
          PROVE  <<s, f>> \in BuffersOf(q)
      <3>1. i \in 1 .. Len(q) /\ o[i] = q[i]
        BY <1>1, <1>3
      <3> QED
        BY <2>3, <3>1, BuffersFacts
    <2>4. <<s, f>> \in BuffersOf(q) <=> \E i \in 1 .. Len(q) : s \in q[i].has /\ q[i].frame = f
      BY BuffersFacts
    <2>5. <<s, f>> \in BuffersOf(r) <=> \E i \in 1 .. Len(r) : s \in r[i].has /\ r[i].frame = f
      BY <1>2, BuffersFacts
    <2>6. <<s, f>> \in BuffersOf(o) <=> \E i \in 1 .. Len(o) : s \in o[i].has /\ o[i].frame = f
      BY <1>3, BuffersFacts
    <2> QED
      BY <2>1, <2>2, <2>3, <2>4, <2>5, <2>6
  <1>7. BuffersOf(q) = BuffersOf(r) \cup BuffersOf(o)
    <2>1. BuffersOf(q) \subseteq Streams \X Frames /\ BuffersOf(r) \subseteq Streams \X Frames /\ BuffersOf(o) \subseteq Streams \X Frames
      BY <1>2, <1>3, BuffersFacts
    <2> QED
      BY <1>6, <2>1
  <1>8. BuffersOf(r) \cap BuffersOf(o) = {}
    <2>1. ASSUME NEW s, NEW f, <<s, f>> \in BuffersOf(r), <<s, f>> \in BuffersOf(o) PROVE FALSE
      <3>1. PICK i \in 1 .. Len(r) : r[i].frame = f
        <4>1. <<s, f>> \in BuffersOf(r) <=> \E i \in 1 .. Len(r) : s \in r[i].has /\ r[i].frame = f
          BY <1>2, BuffersFacts
        <4> QED
          BY <2>1, <4>1
      <3>2. PICK j \in 1 .. Len(o) : o[j].frame = f
        <4>1. <<s, f>> \in BuffersOf(o) <=> \E l \in 1 .. Len(o) : s \in o[l].has /\ o[l].frame = f
          BY <1>3, BuffersFacts
        <4> QED
          BY <2>1, <4>1
      <3>3. i + k \in 1 .. Len(q) /\ j \in 1 .. Len(q) /\ j < i + k
        BY <1>1, <1>2, <1>3
      <3>4. q[j].frame < q[i + k].frame /\ q[j].frame = f /\ q[i + k].frame = f /\ q[j].frame \in Nat
        BY <1>1, <1>2, <1>3, <3>1, <3>2, <3>3 DEF Sorted
      <3> QED
        BY <3>4
    <2>2. BuffersOf(r) \subseteq Streams \X Frames
      BY <1>2, BuffersFacts
    <2> QED
      BY <2>1, <2>2
  <1> QED
    BY <1>2, <1>3, <1>4, <1>5, <1>7, <1>8 DEF r, o

\* A queue that has nothing.
LEMMA EmptyFacts == <<>> \in Seq(Node) /\ Sorted(<<>>, 0) /\ BuffersOf(<<>>) = {}
  <1>1. <<>> \in Seq(Node) /\ Len(<<>>) = 0
    BY EmptySeq
  <1>2. Sorted(<<>>, 0)
    BY <1>1 DEF Sorted
  <1>3. BuffersOf(<<>>) = {}
    BY DEF BuffersOf
  <1> QED
    BY <1>1, <1>2, <1>3

\* What the command thread finds and leaves between two commands.
Good(c) == GoodQueue(c) /\ GoodRequest(c)

\* A step that changes the queue and its count.
LEMMA StillGood ==
    ASSUME NEW c, Good(c), NEW d \in Channel, d.spins = c.spins, d.bWait = c.bWait,
           d.pending_cnt = c.pending_cnt, d.pending_retro_cnt = c.pending_retro_cnt,
           d.startZSl = c.startZSl, d.burstSnapNum = c.burstSnapNum,
           d.stopZslSnapshot = c.stopZslSnapshot,
           Sorted(d.que, d.match_cnt), Len(d.que) - d.match_cnt <= max_unmatched_frames + 1
    PROVE  Good(d)
  BY DEF Good, GoodQueue, GoodRequest

\* mm_channel_superbuf_flush leaves an empty queue and a count of none.
LEMMA FlushFacts ==
    ASSUME NEW c, Good(c)
    PROVE  Good(Flush(c)) /\ Flush(c).que = <<>> /\ Flush(c).match_cnt = 0
  <1>1. c \in Channel /\ c.que \in Seq(Node) /\ Sorted(c.que, c.match_cnt)
    BY DEF Good, GoodQueue, Channel
  <1>2. Cardinality(DOMAIN c.que \ Unmatched(c.que)) = c.match_cnt /\ c.match_cnt \in Nat
    BY <1>1, QueueFacts
  <1>3. c.match_cnt - Cardinality(DOMAIN c.que \ Unmatched(c.que)) = 0
    BY <1>2
  <1>4. Flush(c) = [c EXCEPT !.que = <<>>, !.match_cnt = 0]
    BY <1>3 DEF Flush
  <1>5. Len(<<>>) - 0 <= max_unmatched_frames + 1
    BY ConstantTypes, EmptySeq
  <1> QED
    <2> DEFINE d == Flush(c)
    <2>5. PICK r \in Seq(Node) : r = <<>>
      BY EmptyFacts
    <2>6. PICK n \in Int : n = 0
      OBVIOUS
    <2>1. d = [c EXCEPT !.que = r, !.match_cnt = n] /\ c \in Channel /\ r \in Seq(Node) /\ n \in Int
      BY <1>1, <1>4, <2>5, <2>6
    <2> HIDE DEF d
    <2>2. d \in Channel
      BY <2>1 DEF Channel
    <2>3. /\ d.que = <<>> /\ d.match_cnt = 0 /\ d.spins = c.spins /\ d.bWait = c.bWait
          /\ d.pending_cnt = c.pending_cnt /\ d.pending_retro_cnt = c.pending_retro_cnt
          /\ d.startZSl = c.startZSl /\ d.burstSnapNum = c.burstSnapNum
          /\ d.stopZslSnapshot = c.stopZslSnapshot
      BY <2>1, <2>5, <2>6 DEF Channel
    <2>4. Good(d)
      BY <1>5, <2>2, <2>3, EmptyFacts, StillGood
    <2> QED
      BY <2>3, <2>4 DEF d

\* mm_channel_superbuf_skip and mm_channel_superbuf_bufdone_overflow find a super buffer each time,
\* and leave at most n.
LEMMA DropFacts ==
    ASSUME NEW c, Good(c), NEW n \in Nat
    PROVE  /\ Good(DropUntil(c, n)) /\ DropUntil(c, n).match_cnt <= n
           /\ BuffersOf(DropUntil(c, n).que) \subseteq BuffersOf(c.que)
           /\ Lit(c) => Lit(DropUntil(c, n))
  <1> DEFINE m == c.match_cnt
  <1>1. /\ c \in Channel /\ c.que \in Seq(Node) /\ Sorted(c.que, m) /\ ~c.spins
        /\ Len(c.que) - m <= max_unmatched_frames + 1
    BY DEF Good, GoodQueue, Channel
  <1>2. m \in Nat /\ MatchedHead(c.que) = m /\ Len(c.que) \in Nat
    BY <1>1, QueueFacts
  <1>3. CASE m <= n
    <2>1. DropUntil(c, n) = c
      BY <1>2, <1>3 DEF DropUntil
    <2> QED
      BY <1>3, <2>1
  <1>4. CASE m > n
    <2> DEFINE r == SubSeq(c.que, m - n + 1, Len(c.que))
               d == [c EXCEPT !.que = r, !.match_cnt = n]
    <2>1. DropUntil(c, n) = d
      BY <1>2, <1>4 DEF DropUntil
    <2>2. m - n \in Nat /\ m - n <= m /\ m - (m - n) = n
      BY <1>2, <1>4
    <2>3. /\ r \in Seq(Node) /\ Len(r) = Len(c.que) - (m - n) /\ Sorted(r, m - (m - n))
          /\ BuffersOf(r) \subseteq BuffersOf(c.que)
      <3> HIDE DEF m
      <3> QED
        BY <1>1, <2>2, TailFacts
    <2>4. Len(r) - n <= max_unmatched_frames + 1
      BY <1>1, <1>2, <2>3, ConstantTypes
    <2>5. /\ d.que = r /\ d.match_cnt = n /\ Good(d)
          /\ Lit(c) => Lit(d)
      <3>1. d = [c EXCEPT !.que = r, !.match_cnt = n]
        OBVIOUS
      <3>0. r \in Seq(Node) /\ c \in Channel /\ n \in Int
        BY <1>1, <2>3
      <3> HIDE DEF r, d
      <3>2. d \in Channel
        BY <3>0, <3>1 DEF Channel
      <3>3. /\ d.que = r /\ d.match_cnt = n /\ d.spins = c.spins /\ d.bWait = c.bWait
            /\ d.pending_cnt = c.pending_cnt /\ d.pending_retro_cnt = c.pending_retro_cnt
            /\ d.startZSl = c.startZSl /\ d.burstSnapNum = c.burstSnapNum
            /\ d.stopZslSnapshot = c.stopZslSnapshot /\ d.needLEDFlash = c.needLEDFlash
            /\ d.bracketingState = c.bracketingState
        BY <1>1, <3>1 DEF Channel
      <3>4. Sorted(r, n)
        BY <2>2, <2>3
      <3>5. Good(d)
        BY <2>4, <3>2, <3>3, <3>4, StillGood
      <3> QED
        BY <3>3, <3>5 DEF Lit
    <2> HIDE DEF r, d
    <2> QED
      BY <2>1, <2>3, <2>5
  <1> QED
    BY <1>2, <1>3, <1>4

\* A step that changes no more than the expected and awaited frames and the flash.
LEMMA StillQueued ==
    ASSUME NEW c, Good(c), NEW d \in Channel, d.spins = c.spins, d.que = c.que,
           d.match_cnt = c.match_cnt, d.pending_cnt = c.pending_cnt,
           d.pending_retro_cnt = c.pending_retro_cnt, d.startZSl = c.startZSl,
           d.burstSnapNum = c.burstSnapNum, d.bWait => c.bWait,
           d.stopZslSnapshot => c.startZSl
    PROVE  Good(d)
  BY DEF Good, GoodQueue, GoodRequest

\* What metadata may tell, one by one.
LEMMA NewsFacts ==
    ASSUME NEW n \in News
    PROVE  /\ n.prep \in {"none", "done", "future"}
           /\ n.ahead \in Nat /\ n.lit \in Nat /\ n.skip \in Nat /\ n.divert \in Int
  BY QueueConstants

\* mm_channel_handle_metadata on a frame that was diverted.
LEMMA DivertFacts ==
    ASSUME NEW c, Good(c), NEW m, m.news \in News, m.frame \in Nat
    PROVE  Good(Divert(c, m)) /\ Divert(c, m).que = c.que
  <1> DEFINE d == Divert(c, m)
  <1>0. c \in Channel
    BY DEF Good, GoodQueue
  <1>1. CASE "divert" \notin m.news.tells
    BY <1>1 DEF Divert
  <1>2. CASE ~("divert" \notin m.news.tells)
    <2>1. m.news.divert < 0 \/ (m.frame + m.news.divert) % 256 \in Nat
      BY NewsFacts
    <2>2. PICK n \in Nat : n = IF m.news.divert < 0 THEN 0
                               ELSE (m.frame + m.news.divert) % 256
      BY <2>1
    <2>3. d = [c EXCEPT !.diverted_frame_id = n]
      BY <1>2, <2>2 DEF Divert
    <2> HIDE DEF d
    <2>4. /\ d \in Channel /\ d.que = c.que /\ d.match_cnt = c.match_cnt /\ d.spins = c.spins
          /\ d.bWait = c.bWait /\ d.pending_cnt = c.pending_cnt
          /\ d.pending_retro_cnt = c.pending_retro_cnt /\ d.startZSl = c.startZSl
          /\ d.burstSnapNum = c.burstSnapNum /\ d.stopZslSnapshot = c.stopZslSnapshot
      BY <1>0, <2>3 DEF Channel
    <2>5. Good(d)
      <3>1. d.stopZslSnapshot => c.startZSl
        BY <2>4 DEF Good, GoodRequest
      <3> QED
        BY <2>4, <3>1, StillQueued
    <2> QED
      BY <2>4, <2>5 DEF d
  <1> QED
    BY <1>1, <1>2

\* On a flash that is prepared, or needs a later frame: the queue stays or is emptied.
LEMMA PrepareFacts ==
    ASSUME NEW c, Good(c), NEW m, m.news \in News
    PROVE  Good(Prepare(c, m)) /\ (Prepare(c, m).que = c.que \/ Prepare(c, m).que = <<>>)
  <1> DEFINE d == Prepare(c, m)
  <1>0. m.news.prep \in {"none", "done", "future"} /\ c \in Channel
    BY NewsFacts DEF Good, GoodQueue
  <1>1. CASE m.news.prep = "none"
    BY <1>1 DEF Prepare
  <1>2. CASE m.news.prep = "done"
    <2>1. d = [c EXCEPT !.bWait = FALSE, !.needLEDFlash = FALSE]
      BY <1>2 DEF Prepare
    <2> HIDE DEF d
    <2>2. /\ d \in Channel /\ d.que = c.que /\ d.match_cnt = c.match_cnt /\ d.spins = c.spins
          /\ ~d.bWait /\ d.pending_cnt = c.pending_cnt
          /\ d.pending_retro_cnt = c.pending_retro_cnt /\ d.startZSl = c.startZSl
          /\ d.burstSnapNum = c.burstSnapNum /\ d.stopZslSnapshot = c.stopZslSnapshot
      BY <1>0, <2>1 DEF Channel
    <2>3. d.stopZslSnapshot => c.startZSl
      BY <2>2 DEF Good, GoodRequest
    <2>4. Good(d)
      BY <2>2, <2>3, StillQueued
    <2> QED
      BY <2>2, <2>4 DEF d
  <1>3. CASE m.news.prep = "future"
    <2> DEFINE e == Flush(c)
    <2>1. d = [e EXCEPT !.bWait = FALSE, !.needLEDFlash = TRUE,
                        !.expected_frame_id = @ + MaxFuture]
      BY <1>3 DEF Prepare
    <2>2. Good(e) /\ e.que = <<>>
      BY FlushFacts
    <2> HIDE DEF d, e
    <2>3. e \in Channel
      BY <2>2 DEF Good, GoodQueue
    <2>4. PICK x \in Nat : x = e.expected_frame_id + MaxFuture
      BY <2>3, ConstantTypes DEF Channel
    <2>5. d = [e EXCEPT !.bWait = FALSE, !.needLEDFlash = TRUE, !.expected_frame_id = x]
      BY <2>1, <2>4
    <2>6. /\ d \in Channel /\ d.que = e.que /\ d.match_cnt = e.match_cnt /\ d.spins = e.spins
          /\ ~d.bWait /\ d.pending_cnt = e.pending_cnt
          /\ d.pending_retro_cnt = e.pending_retro_cnt /\ d.startZSl = e.startZSl
          /\ d.burstSnapNum = e.burstSnapNum /\ d.stopZslSnapshot = e.stopZslSnapshot
      BY <2>3, <2>5 DEF Channel
    <2>7. d.stopZslSnapshot => e.startZSl
      BY <2>2, <2>6 DEF Good, GoodRequest
    <2>8. Good(d)
      BY <2>2, <2>6, <2>7, StillQueued
    <2> QED
      BY <2>2, <2>6, <2>8 DEF d
  <1> QED
    BY <1>0, <1>1, <1>2, <1>3

\* On a range of good frames.
LEMMA ChooseRangeFacts ==
    ASSUME NEW c, Good(c), NEW m, m.news \in News, m.frame \in Nat
    PROVE  Good(ChooseRange(c, m)) /\ ChooseRange(c, m).que = c.que
  <1> DEFINE d == ChooseRange(c, m)
  <1>0. c \in Channel
    BY DEF Good, GoodQueue
  <1>1. CASE "range" \notin m.news.tells
    BY <1>1 DEF ChooseRange
  <1>2. CASE ~("range" \notin m.news.tells)
    <2>1. PICK x \in Nat : x = m.frame + m.news.ahead
      BY NewsFacts
    <2>2. PICK y \in Nat, k \in Nat : y = x + m.news.lit /\ k = m.news.skip
      BY NewsFacts
    <2> DEFINE c2 == [c EXCEPT !.expected_frame_id = x, !.good_frame_id = x,
                               !.bracketingState = "ACTIVE"]
               c3 == [c2 EXCEPT !.led_off_start_frame_id = y, !.frame_skip_count = k,
                                !.once = FALSE]
    <2>3. d = c2 \/ d = c3
      BY <1>2, <2>1, <2>2 DEF ChooseRange
    <2> HIDE DEF d
    <2>4. c2 \in Channel /\ c3 \in Channel
      BY <1>0, <2>1, <2>2 DEF Channel
    <2>5. /\ d \in Channel /\ d.que = c.que /\ d.match_cnt = c.match_cnt /\ d.spins = c.spins
          /\ d.bWait = c.bWait /\ d.pending_cnt = c.pending_cnt
          /\ d.pending_retro_cnt = c.pending_retro_cnt /\ d.startZSl = c.startZSl
          /\ d.burstSnapNum = c.burstSnapNum /\ d.stopZslSnapshot = c.stopZslSnapshot
      <3>1. CASE d = c2
        BY <1>0, <2>4, <3>1 DEF Channel
      <3>2. CASE d = c3
        <4>1. d = [c EXCEPT !.expected_frame_id = x, !.good_frame_id = x,
                            !.bracketingState = "ACTIVE", !.led_off_start_frame_id = y,
                            !.frame_skip_count = k, !.once = FALSE]
          BY <1>0, <3>2 DEF Channel
        <4>2. d \in Channel
          BY <2>4, <3>2
        <4> QED
          BY <1>0, <4>1, <4>2 DEF Channel
      <3> QED
        BY <2>3, <3>1, <3>2
    <2>6. d.stopZslSnapshot => c.startZSl
      BY <2>5 DEF Good, GoodRequest
    <2>7. Good(d)
      BY <2>5, <2>6, StillQueued
    <2> QED
      BY <2>5, <2>7 DEF d
  <1> QED
    BY <1>1, <1>2

\* On the end of a lit burst: only a burst that is counted is told to stop.
LEMMA LedOffFacts ==
    ASSUME NEW c, Good(c), NEW m
    PROVE  Good(LedOff(c, m)) /\ LedOff(c, m).que = c.que
  <1> DEFINE d == LedOff(c, m)
             ends == /\ c.burstSnapNum > 1 /\ c.needLEDFlash /\ c.bracketingState = "OFF"
                     /\ m.frame >= c.led_off_start_frame_id /\ ~c.once
  <1>0. c \in Channel
    BY DEF Good, GoodQueue
  <1>1. CASE ~ends
    BY <1>1 DEF LedOff
  <1>2. CASE ends
    <2>1. PICK x \in Nat : x = c.led_off_start_frame_id + c.frame_skip_count
      BY <1>0 DEF Channel
    <2>2. d = [c EXCEPT !.expected_frame_id = x, !.once = TRUE, !.stopZslSnapshot = TRUE,
                        !.needLEDFlash = FALSE]
      BY <1>2, <2>1 DEF LedOff
    <2>3. c.burstSnapNum > 0
      BY <1>0, <1>2 DEF Channel
    <2>4. c.startZSl
      BY <2>3 DEF Good, GoodRequest
    <2> HIDE DEF d
    <2>5. /\ d \in Channel /\ d.que = c.que /\ d.match_cnt = c.match_cnt /\ d.spins = c.spins
          /\ d.bWait = c.bWait /\ d.pending_cnt = c.pending_cnt
          /\ d.pending_retro_cnt = c.pending_retro_cnt /\ d.startZSl = c.startZSl
          /\ d.burstSnapNum = c.burstSnapNum
      BY <1>0, <2>2 DEF Channel
    <2>6. Good(d)
      BY <2>4, <2>5, StillQueued
    <2> QED
      BY <2>5, <2>6 DEF d
  <1> QED
    BY <1>1, <1>2

\* mm_channel_handle_metadata keeps the queue or empties it.
LEMMA MetadataFacts ==
    ASSUME NEW c, Good(c), NEW m, m.news \in News, m.frame \in Nat
    PROVE  /\ Good(HandleMetadata(c, m))
           /\ HandleMetadata(c, m).que = c.que \/ HandleMetadata(c, m).que = <<>>
  <1> DEFINE c1 == Divert(c, m)
             c2 == Prepare(c1, m)
             c3 == ChooseRange(c2, m)
             c4 == LedOff(c3, m)
  <1>1. Good(c1) /\ c1.que = c.que
    BY DivertFacts
  <1>2. Good(c2) /\ (c2.que = c1.que \/ c2.que = <<>>)
    <2> HIDE DEF c1
    <2> QED
      BY <1>1, PrepareFacts
  <1>3. Good(c3) /\ c3.que = c2.que
    <2> HIDE DEF c2
    <2> QED
      BY <1>2, ChooseRangeFacts
  <1>4. Good(c4) /\ c4.que = c3.que
    <2> HIDE DEF c3
    <2> QED
      BY <1>3, LedOffFacts
  <1>5. HandleMetadata(c, m) = c \/ HandleMetadata(c, m) = c4
    BY DEF HandleMetadata
  <1> HIDE DEF c1, c2, c3, c4
  <1> QED
    BY <1>1, <1>2, <1>3, <1>4, <1>5

\* Positions that are kept with all before them stay where they are.
LEMMA KeepHead ==
    ASSUME NEW n \in Nat, NEW I \in SUBSET (1 .. n), NEW m \in Nat, 1 .. m \subseteq I,
           NEW at, Picks(at, I)
    PROVE  /\ m <= Cardinality(I) /\ Cardinality(I) <= n /\ Cardinality(I) \in Nat
           /\ \A k \in 1 .. m : at[k] = k
           /\ \A k \in 1 .. Cardinality(I) : at[k] \in I /\ at[k] \in 1 .. n /\ (k > m => at[k] > m)
  <1>1. IsFiniteSet(I) /\ Cardinality(I) \in Nat
    BY RankFacts
  <1>2. m <= Cardinality(I)
    <2>1. Cardinality(1 .. m) = m
      BY FS_Interval
    <2>2. Cardinality(1 .. m) <= Cardinality(I)
      BY <1>1, FS_Subset
    <2> QED
      BY <2>1, <2>2
  <1>3. Cardinality(I) <= n
    <2>1. IsFiniteSet(1 .. n) /\ Cardinality(1 .. n) = n
      BY FS_Interval
    <2>2. Cardinality(I) <= Cardinality(1 .. n)
      BY <2>1, FS_Subset
    <2> QED
      BY <2>1, <2>2
  <1>4. ASSUME NEW k \in 1 .. m PROVE at[k] = k
    <2>1. {j \in I : j <= k} = 1 .. k
      <3>1. \A j : j \in 1 .. k => j \in 1 .. m /\ j <= k
        OBVIOUS
      <3>2. \A j \in I : j <= k => j \in 1 .. k
        OBVIOUS
      <3> QED
        BY <3>1, <3>2
    <2>2. Cardinality(1 .. k) = k
      BY FS_Interval
    <2>3. Rank(I, k) = k
      BY <2>1, <2>2 DEF Rank
    <2> QED
      BY <2>3 DEF Picks
  <1>5. ASSUME NEW k \in 1 .. Cardinality(I)
        PROVE  at[k] \in I /\ at[k] \in 1 .. n /\ (k > m => at[k] > m)
    <2>1. at[k] \in I /\ at[k] \in 1 .. n
      BY DEF Picks
    <2>2. CASE m = 0
      BY <2>1, <2>2
    <2>3. CASE m > 0 /\ k > m
      <3>1. m \in 1 .. m /\ m \in 1 .. Cardinality(I)
        BY <1>1, <1>2, <2>3
      <3>2. at[m] = m
        BY <1>4, <3>1
      <3>3. at[m] < at[k]
        BY <2>3, <3>1 DEF Picks
      <3> QED
        BY <2>1, <3>2, <3>3
    <2> QED
      BY <2>1, <2>2, <2>3
  <1> QED
    BY <1>1, <1>2, <1>3, <1>4, <1>5

\* A node of the queue that changes but for its frame.
LEMMA ChangeNode ==
    ASSUME NEW q \in Seq(Node), NEW i \in 1 .. Len(q), NEW x \in Node
    PROVE  /\ [q EXCEPT ![i] = x] \in Seq(Node) /\ Len([q EXCEPT ![i] = x]) = Len(q)
           /\ [q EXCEPT ![i] = x][i] = x
           /\ \A j \in 1 .. Len(q) : j # i => [q EXCEPT ![i] = x][j] = q[j]
  BY ExceptSeq

\* Nothing but complete nodes stays before the node that becomes complete.
Completes(q, n, i, p) ==
    /\ q \in Seq(Node) /\ Sorted(q, n) /\ i \in (n + 1) .. Len(q)
    /\ p \in Seq(Node) /\ Len(p) = Len(q)
    /\ p[i].has = Streams /\ p[i].frame = q[i].frame
    /\ \A j \in 1 .. Len(q) : j # i => p[j] = q[j]

Only(r, p) == \A k \in 1 .. Len(r) : \E j \in 1 .. Len(p) : r[k] = p[j]

LEMMA KeepFromNode ==
    ASSUME NEW q, NEW n, NEW i, NEW p, Completes(q, n, i, p)
    PROVE  LET r == Keep(p, DOMAIN p \ ((n + 1) .. (i - 1))) IN
           r \in Seq(Node) /\ Sorted(r, n + 1) /\ Len(r) <= Len(q) /\ Only(r, p)
  <1> DEFINE I == DOMAIN p \ ((n + 1) .. (i - 1))
             r == Keep(p, I)
             N == Cardinality(I)
  <1> USE DEF Completes
  <1>0. /\ n \in Nat /\ n <= Len(q) /\ \A j \in 1 .. Len(q) : q[j].frame \in Nat
    BY QueueFacts
  <1>1. DOMAIN p = 1 .. Len(p) /\ Len(q) \in Nat
    BY LenProperties
  <1>2. I \in SUBSET (1 .. Len(p)) /\ I \in SUBSET (1 .. Len(q)) /\ 1 .. n \subseteq I
    BY <1>0, <1>1
  <1>3. i \in Int /\ n < i /\ i <= Len(q) /\ i \in I /\ \A j \in I : j > n => j >= i
    BY <1>0, <1>1
  <1> HIDE DEF I
  <1>4. /\ r \in Seq(Node) /\ Len(r) = N
        /\ \E a : /\ Picks(a, I) /\ \A k \in 1 .. N : r[k] = p[a[k]]
    BY <1>2, KeepFacts
  <1>5. PICK at : Picks(at, I) /\ \A k \in 1 .. N : r[k] = p[at[k]]
    BY <1>4
  <1> HIDE DEF N, r
  <1>6. /\ n <= N /\ N <= Len(q) /\ N \in Nat
        /\ \A k \in 1 .. n : at[k] = k
        /\ \A k \in 1 .. N : at[k] \in I /\ at[k] \in 1 .. Len(q) /\ (k > n => at[k] > n)
    BY <1>0, <1>1, <1>2, <1>5, KeepHead DEF N
  <1>7. PICK k0 \in 1 .. N : at[k0] = i
    BY <1>3, <1>5 DEF Picks, N
  <1>8. k0 = n + 1 /\ n + 1 <= N
    <2>1. k0 > n
      <3>1. CASE k0 <= n
        <4>1. at[k0] = k0
          BY <1>0, <1>6, <3>1
        <4> QED
          BY <1>3, <1>7, <3>1, <4>1
      <3> QED
        BY <1>0, <1>6, <1>7, <3>1
    <2>2. n + 1 \in 1 .. N /\ n + 1 > n
      BY <1>0, <1>6, <2>1
    <2>3. at[n + 1] >= i /\ at[n + 1] \in Int
      BY <1>3, <1>6, <2>2
    <2>4. ~(n + 1 < k0)
      <3>1. n + 1 < k0 => at[n + 1] < at[k0]
        BY <1>5, <1>7, <2>2 DEF Picks, N
      <3> QED
        BY <1>3, <1>7, <2>3, <3>1
    <2> QED
      BY <1>0, <1>6, <1>7, <2>1, <2>4
  <1>9. ASSUME NEW k \in 1 .. N PROVE r[k].has = Streams <=> k <= n + 1
    <2>1. CASE k <= n
      <3>1. at[k] = k /\ k # i /\ k \in 1 .. Len(q) /\ r[k] = q[k]
        BY <1>0, <1>3, <1>5, <1>6, <2>1
      <3> QED
        BY <1>0, <2>1, <3>1 DEF Sorted
    <2>2. CASE k = n + 1
      BY <1>0, <1>5, <1>7, <1>8, <2>2
    <2>3. CASE k > n + 1
      <3>1. at[k] \in 1 .. Len(q) /\ at[k] > i
        BY <1>5, <1>6, <1>7, <1>8, <2>3 DEF Picks, N
      <3>2. r[k] = q[at[k]] /\ ~(at[k] <= n)
        BY <1>0, <1>3, <1>5, <3>1
      <3> QED
        BY <1>0, <2>3, <3>1, <3>2 DEF Sorted
    <2> QED
      BY <1>0, <2>1, <2>2, <2>3
  <1>10. \A j \in 1 .. Len(q) : p[j].frame = q[j].frame
    OBVIOUS
  <1>11. ASSUME NEW k \in 1 .. N, NEW l \in 1 .. N, k < l PROVE r[k].frame < r[l].frame
    <2>1. at[k] \in 1 .. Len(q) /\ at[l] \in 1 .. Len(q) /\ at[k] < at[l]
      BY <1>5, <1>6, <1>11 DEF Picks, N
    <2>2. r[k].frame = q[at[k]].frame /\ r[l].frame = q[at[l]].frame
      BY <1>5, <1>10, <2>1
    <2> QED
      BY <2>1, <2>2 DEF Sorted
  <1>12. Sorted(r, n + 1)
    BY <1>0, <1>4, <1>6, <1>8, <1>9, <1>11 DEF Sorted, N, r
  <1> QED
    BY <1>4, <1>5, <1>6, <1>12 DEF N, r, I, Only

\* A frame that was diverted is awaited, and nothing else of the queue changes.
LEMMA AwaitFacts ==
    ASSUME NEW c, Good(c), NEW i \in 1 .. Len(c.que)
    PROVE  Good(AwaitDiverted(c, i)) /\ BuffersOf(AwaitDiverted(c, i).que) = BuffersOf(c.que)
  <1> DEFINE d == AwaitDiverted(c, i)
             y == [c.que[i] EXCEPT !.awaited = TRUE]
             p == [c.que EXCEPT ![i] = y]
  <1>1. /\ c \in Channel /\ c.que \in Seq(Node) /\ Sorted(c.que, c.match_cnt) /\ ~c.spins
        /\ Len(c.que) - c.match_cnt <= max_unmatched_frames + 1
    BY DEF Good, GoodQueue, Channel
  <1>2. CASE c.diverted_frame_id # c.que[i].frame
    BY <1>2 DEF AwaitDiverted
  <1>3. CASE c.diverted_frame_id = c.que[i].frame
    <2>1. c.que[i] \in Node /\ DOMAIN c.que = 1 .. Len(c.que) /\ Len(c.que) \in Nat
      BY <1>1, ElementOfSeq, LenProperties
    <2>2. y \in Node /\ y.frame = c.que[i].frame /\ y.has = c.que[i].has
      BY <2>1 DEF Node
    <2>3. p = [c.que EXCEPT ![i].awaited = TRUE]
      OBVIOUS
    <2> HIDE DEF y
    <2>4. /\ p \in Seq(Node) /\ Len(p) = Len(c.que) /\ p[i] = y
          /\ \A j \in 1 .. Len(c.que) : j # i => p[j] = c.que[j]
      BY <1>1, <2>1, <2>2, ExceptSeq
    <2>5. PICK z \in Nat : z = 0
      OBVIOUS
    <2>6. d = [c EXCEPT !.que = p, !.diverted_frame_id = z]
      <3>1. d = [c EXCEPT !.que[i].awaited = TRUE, !.diverted_frame_id = 0]
        BY <1>3 DEF AwaitDiverted
      <3> QED
        BY <1>1, <2>3, <2>5, <3>1 DEF Channel
    <2> HIDE DEF p, d
    <2>7. d \in Channel
      BY <1>1, <2>4, <2>6 DEF Channel
    <2>8. /\ d.que = p /\ d.match_cnt = c.match_cnt /\ d.spins = c.spins /\ d.bWait = c.bWait
          /\ d.pending_cnt = c.pending_cnt /\ d.pending_retro_cnt = c.pending_retro_cnt
          /\ d.startZSl = c.startZSl /\ d.burstSnapNum = c.burstSnapNum
          /\ d.stopZslSnapshot = c.stopZslSnapshot
      BY <1>1, <2>4, <2>6 DEF Channel
    <2>9. \A j \in 1 .. Len(c.que) : p[j].has = c.que[j].has /\ p[j].frame = c.que[j].frame
      BY <2>2, <2>4
    <2>10. Sorted(p, c.match_cnt)
      BY <1>1, <2>4, <2>9 DEF Sorted
    <2>11. Good(d)
      BY <1>1, <2>4, <2>7, <2>8, <2>10, StillGood
    <2>12. DOMAIN p = DOMAIN c.que
      BY <2>1, <2>4, LenProperties
    <2>13. BuffersOf(p) = BuffersOf(c.que)
      BY <2>1, <2>9, <2>12 DEF BuffersOf
    <2> QED
      BY <2>8, <2>11, <2>13 DEF d
  <1> QED
    BY <1>2, <1>3

\* The frame that becomes complete comes behind the complete ones, and one more counts.
LEMMA JoinFacts ==
    ASSUME NEW c, Good(c), NEW i \in Unmatched(c.que), NEW s \in Streams
    PROVE  /\ Good(Join(c, i, s))
           /\ BuffersOf(Join(c, i, s).que) \subseteq BuffersOf(c.que) \cup {<<s, c.que[i].frame>>}
  <1> DEFINE n == c.match_cnt
             U == Unmatched(c.que)
             x == [c.que[i] EXCEPT !.has = @ \cup {s}]
             q == [c.que EXCEPT ![i] = x]
             older == {j \in U : j < i /\ q[j].frame < q[i].frame}
             gone == IF older = {} THEN {} ELSE LeastOf(older) .. i - 1
  <1>1. /\ c \in Channel /\ c.que \in Seq(Node) /\ Sorted(c.que, n) /\ ~c.spins
        /\ Len(c.que) - n <= max_unmatched_frames + 1
    BY DEF Good, GoodQueue, Channel
  <1>2. /\ Len(c.que) \in Nat /\ n \in Nat /\ n <= Len(c.que) /\ U = (n + 1) .. Len(c.que)
        /\ \A j \in 1 .. Len(c.que) : c.que[j] \in Node /\ c.que[j].frame \in Nat
    <2> HIDE DEF n
    <2> QED
      BY <1>1, QueueFacts
  <1>3. i \in (n + 1) .. Len(c.que) /\ i \in 1 .. Len(c.que)
    BY <1>2
  <1>4. x \in Node /\ x.frame = c.que[i].frame /\ x.has = c.que[i].has \cup {s}
        /\ x.awaited = c.que[i].awaited
    <2>1. c.que[i] \in Node
      BY <1>2, <1>3
    <2>5. c.que[i].has \in SUBSET Streams
      BY <2>1 DEF Node
    <2>2. PICK h \in (SUBSET Streams) \ {{}} : h = c.que[i].has \cup {s}
      <3>1. c.que[i].has \cup {s} \in SUBSET Streams
        BY <2>5
      <3>2. s \in c.que[i].has \cup {s}
        OBVIOUS
      <3>3. c.que[i].has \cup {s} \in (SUBSET Streams) \ {{}}
        BY <3>1, <3>2
      <3> QED
        BY <3>3
    <2>3. x = [c.que[i] EXCEPT !.has = h]
      BY <2>2
    <2> HIDE DEF x
    <2>4. x \in Node /\ x.frame = c.que[i].frame /\ x.has = h /\ x.awaited = c.que[i].awaited
      BY <2>1, <2>3 DEF Node
    <2> QED
      BY <2>2, <2>4
  <1> HIDE DEF x
  <1>5. /\ q \in Seq(Node) /\ Len(q) = Len(c.que) /\ q[i] = x
        /\ \A j \in 1 .. Len(c.que) : j # i => q[j] = c.que[j]
    BY <1>1, <1>3, <1>4, ChangeNode
  <1>6. q = [c.que EXCEPT ![i].has = @ \cup {s}]
    BY DEF x
  <1> HIDE DEF q
  <1>7. ASSUME q[i].has # Streams
        PROVE  /\ Good(Join(c, i, s))
               /\ BuffersOf(Join(c, i, s).que) \subseteq BuffersOf(c.que) \cup {<<s, c.que[i].frame>>}
    <2> DEFINE d == [c EXCEPT !.que = q]
    <2>0. Join(c, i, s) = AwaitDiverted(d, i)
      BY <1>6, <1>7 DEF Join
    <2>1. d = [c EXCEPT !.que = q]
      OBVIOUS
    <2>2. c \in Channel /\ q \in Seq(Node)
      BY <1>1, <1>5
    <2> HIDE DEF d
    <2>3. d \in Channel
      BY <2>1, <2>2 DEF Channel
    <2>4. /\ d.que = q /\ d.match_cnt = n /\ d.spins = c.spins /\ d.bWait = c.bWait
          /\ d.pending_cnt = c.pending_cnt /\ d.pending_retro_cnt = c.pending_retro_cnt
          /\ d.startZSl = c.startZSl /\ d.burstSnapNum = c.burstSnapNum
          /\ d.stopZslSnapshot = c.stopZslSnapshot
      BY <2>1, <2>2 DEF Channel
    <2>5. Sorted(q, n)
      <3>1. \A j \in 1 .. Len(q) : q[j].frame = c.que[j].frame
        BY <1>4, <1>5
      <3>2. \A j \in 1 .. Len(q) : q[j].has = Streams <=> j <= n
        <4> TAKE j \in 1 .. Len(q)
        <4>1. CASE j = i
          BY <1>2, <1>3, <1>7, <4>1
        <4>2. CASE j # i
          <5>1. j \in 1 .. Len(c.que) /\ q[j] = c.que[j]
            BY <1>5, <4>2
          <5> QED
            BY <1>1, <5>1 DEF Sorted
        <4> QED
          BY <4>1, <4>2
      <3>3. n \in 0 .. Len(q)
        BY <1>2, <1>5
      <3>4. \A j, k \in 1 .. Len(q) : j < k => q[j].frame < q[k].frame
        BY <1>1, <1>5, <3>1 DEF Sorted
      <3> QED
        BY <3>2, <3>3, <3>4 DEF Sorted
    <2>6. Good(d)
      BY <1>1, <1>5, <2>3, <2>4, <2>5, StillGood
    <2>7. BuffersOf(q) \subseteq BuffersOf(c.que) \cup {<<s, c.que[i].frame>>}
      <3>1. ASSUME NEW r, NEW f, <<r, f>> \in BuffersOf(q)
            PROVE  <<r, f>> \in BuffersOf(c.que) \/ (r = s /\ f = c.que[i].frame)
        <4>1. <<r, f>> \in BuffersOf(q) <=> \E j \in 1 .. Len(q) : r \in q[j].has /\ q[j].frame = f
          BY <1>5, BuffersFacts
        <4>2. PICK j \in 1 .. Len(q) : r \in q[j].has /\ q[j].frame = f
          BY <3>1, <4>1
        <4>3. <<r, f>> \in BuffersOf(c.que) <=> \E k \in 1 .. Len(c.que) : r \in c.que[k].has /\ c.que[k].frame = f
          BY <1>1, BuffersFacts
        <4> QED
          BY <1>3, <1>4, <1>5, <4>2, <4>3
      <3>2. BuffersOf(q) \subseteq Streams \X Frames
        BY <1>5, BuffersFacts
      <3> QED
        BY <3>1, <3>2
    <2>8. i \in 1 .. Len(d.que)
      BY <1>3, <1>5, <2>4
    <2>9. Good(AwaitDiverted(d, i)) /\ BuffersOf(AwaitDiverted(d, i).que) = BuffersOf(d.que)
      BY <2>6, <2>8, AwaitFacts
    <2> QED
      BY <2>0, <2>4, <2>7, <2>9
  <1>8. ASSUME q[i].has = Streams
        PROVE  /\ Good(Join(c, i, s))
               /\ BuffersOf(Join(c, i, s).que) \subseteq BuffersOf(c.que) \cup {<<s, c.que[i].frame>>}
    <2> DEFINE y == [x EXCEPT !.awaited = FALSE]
               p == [q EXCEPT ![i] = y]
               r == Keep(p, DOMAIN p \ ((n + 1) .. (i - 1)))
               d == Join(c, i, s)
    <2>1. y \in Node /\ y.frame = c.que[i].frame /\ y.has = x.has
      BY <1>4 DEF Node
    <2>2. p = [q EXCEPT ![i].awaited = FALSE]
      BY <1>5
    <2> HIDE DEF y
    <2>3. /\ p \in Seq(Node) /\ Len(p) = Len(q) /\ p[i] = y
          /\ \A j \in 1 .. Len(q) : j # i => p[j] = q[j]
      BY <1>3, <1>5, <2>1, ChangeNode
    <2>4. gone = (n + 1) .. (i - 1)
      <3>1. older = (n + 1) .. (i - 1)
        <4>1. \A j \in U : j < i => j # i /\ j \in 1 .. Len(c.que) /\ q[j].frame < q[i].frame
          <5> TAKE j \in U
          <5> HAVE j < i
          <5>1. j \in 1 .. Len(c.que) /\ j # i
            BY <1>2, <1>3
          <5>2. c.que[j].frame < c.que[i].frame
            BY <1>1, <1>3, <5>1 DEF Sorted
          <5> QED
            BY <1>4, <1>5, <5>1, <5>2
        <4>2. older = {j \in U : j < i}
          BY <4>1
        <4> QED
          BY <1>2, <1>3, <4>2
      <3> HIDE DEF older
      <3>2. CASE i = n + 1
        <4>1. older = {}
          BY <1>2, <3>1, <3>2
        <4>2. (n + 1) .. (i - 1) = {}
          BY <1>2, <3>2
        <4> QED
          BY <4>1, <4>2
      <3>3. CASE i # n + 1
        <4>1. older \in SUBSET Nat /\ n + 1 \in older /\ older # {}
          BY <1>2, <1>3, <3>1, <3>3
        <4>2. LeastOf(older) \in older /\ \A j \in older : LeastOf(older) <= j
          BY <4>1, LeastExists
        <4>3. LeastOf(older) = n + 1
          <5>1. LeastOf(older) \in (n + 1) .. (i - 1) /\ LeastOf(older) <= n + 1
            BY <3>1, <4>1, <4>2
          <5> QED
            BY <1>2, <5>1
        <4> QED
          BY <4>1, <4>3
      <3> QED
        BY <3>2, <3>3
    <2>5. PICK e \in Nat : e = q[i].frame + post_frame_skip
      BY <1>2, <1>3, <1>4, <1>5, ConstantTypes
    <2>6. DOMAIN p = DOMAIN q
      BY <1>5, <2>3, LenProperties
    <2>7. d = [c EXCEPT !.que = r, !.expected_frame_id = e, !.match_cnt = @ + 1]
      <3>1. d = [c EXCEPT !.que = Keep(p, DOMAIN q \ gone),
                          !.expected_frame_id = q[i].frame + post_frame_skip,
                          !.match_cnt = @ + 1]
        <4> HIDE DEF p
        <4> QED
          BY <1>6, <1>8, <2>2 DEF Join
      <3> HIDE DEF p, gone, d
      <3> QED
        BY <2>4, <2>5, <2>6, <3>1
    <2> HIDE DEF p, d
    <2>8. r \in Seq(Node) /\ Sorted(r, n + 1) /\ Len(r) <= Len(c.que) /\ Only(r, p)
      <3>1. p[i].has = Streams /\ p[i].frame = c.que[i].frame /\ Len(p) = Len(c.que)
        BY <1>4, <1>5, <1>8, <2>1, <2>3
      <3>2. \A j \in 1 .. Len(c.que) : j # i => p[j] = c.que[j]
        BY <1>5, <2>3
      <3> HIDE DEF n
      <3>3. Completes(c.que, n, i, p)
        BY <1>1, <1>3, <2>3, <3>1, <3>2 DEF Completes
      <3>4. r \in Seq(Node) /\ Sorted(r, n + 1) /\ Len(r) <= Len(c.que) /\ Only(r, p)
        BY <3>3, KeepFromNode
      <3> QED
        BY <3>4
    <2> HIDE DEF r
    <2>9. PICK m \in Int : m = c.match_cnt + 1
      BY <1>2
    <2>10. c \in Channel /\ r \in Seq(Node) /\ d = [c EXCEPT !.que = r, !.expected_frame_id = e, !.match_cnt = m]
      BY <1>1, <2>7, <2>8, <2>9
    <2>11. d \in Channel
      BY <2>10 DEF Channel
    <2>12. /\ d.que = r /\ d.match_cnt = m /\ d.spins = c.spins /\ d.bWait = c.bWait
           /\ d.pending_cnt = c.pending_cnt /\ d.pending_retro_cnt = c.pending_retro_cnt
           /\ d.startZSl = c.startZSl /\ d.burstSnapNum = c.burstSnapNum
           /\ d.stopZslSnapshot = c.stopZslSnapshot
      BY <2>10 DEF Channel
    <2>13. Len(r) \in Nat
      BY <2>8, LenProperties
    <2>14. Len(r) - m <= max_unmatched_frames + 1
      BY <1>1, <1>2, <2>8, <2>9, <2>13, ConstantTypes
    <2>15. Sorted(d.que, d.match_cnt)
      BY <2>8, <2>9, <2>12
    <2>16. Good(d)
      BY <1>1, <2>11, <2>12, <2>14, <2>15, StillGood
    <2>17. BuffersOf(r) \subseteq BuffersOf(c.que) \cup {<<s, c.que[i].frame>>}
      <3>1. ASSUME NEW t, NEW f, <<t, f>> \in BuffersOf(r)
            PROVE  <<t, f>> \in BuffersOf(c.que) \/ (t = s /\ f = c.que[i].frame)
        <4>1. <<t, f>> \in BuffersOf(r) <=> \E j \in 1 .. Len(r) : t \in r[j].has /\ r[j].frame = f
          BY <2>8, BuffersFacts
        <4>2. PICK k \in 1 .. Len(r) : t \in r[k].has /\ r[k].frame = f
          BY <3>1, <4>1
        <4>3. PICK j \in 1 .. Len(c.que) : r[k] = p[j]
          BY <1>5, <2>3, <2>8 DEF Only
        <4>4. <<t, f>> \in BuffersOf(c.que) <=> \E l \in 1 .. Len(c.que) : t \in c.que[l].has /\ c.que[l].frame = f
          BY <1>1, BuffersFacts
        <4> QED
          BY <1>3, <1>4, <1>5, <2>1, <2>3, <4>2, <4>3, <4>4
      <3>2. BuffersOf(r) \subseteq Streams \X Frames
        BY <2>8, BuffersFacts
      <3> QED
        BY <3>1, <3>2
    <2> QED
      BY <2>12, <2>16, <2>17 DEF d
  <1> QED
    BY <1>7, <1>8

\* A node takes its place between older and newer ones, some of which go.
Inserts(q, n, place, gone, x) ==
    /\ q \in Seq(Node) /\ Sorted(q, n) /\ x \in Node
    /\ place \in (n + 1) .. (Len(q) + 1) /\ gone \in SUBSET ((n + 1) .. Len(q))
    /\ \A i \in 1 .. place - 1 : q[i].frame < x.frame
    /\ \A i \in place .. Len(q) : x.frame < q[i].frame
    /\ x.has = Streams => n = Len(q)

LEMMA InsertSorted ==
    ASSUME NEW q, NEW n, NEW place, NEW gone, NEW x, Inserts(q, n, place, gone, x)
    PROVE  LET r == Keep(q, (1 .. place - 1) \ gone) \o <<x>>
                    \o Keep(q, (place .. Len(q)) \ gone) IN
           /\ r \in Seq(Node) /\ Len(r) = Len(q) - Cardinality(gone) + 1
           /\ Cardinality(gone) \in Nat
           /\ Sorted(r, IF x.has = Streams THEN n + 1 ELSE n)
           /\ BuffersOf(r) \subseteq BuffersOf(q) \cup x.has \X {x.frame}
  <1> DEFINE L == Len(q)
             I == (1 .. place - 1) \ gone
             J == (place .. L) \ gone
             a == Keep(q, I)
             b == Keep(q, J)
             A == Cardinality(I)
             B == Cardinality(J)
             r == a \o <<x>> \o b
             m == IF x.has = Streams THEN n + 1 ELSE n
  <1>1. /\ q \in Seq(Node) /\ Sorted(q, n) /\ x \in Node /\ x.frame \in Nat
        /\ L \in Nat /\ n \in Nat /\ n <= L /\ DOMAIN q = 1 .. L
        /\ \A i \in 1 .. L : q[i] \in Node /\ q[i].frame \in Nat
    <2>1. q \in Seq(Node) /\ Sorted(q, n) /\ x \in Node
      BY DEF Inserts
    <2>2. x.frame \in Frames
      BY <2>1 DEF Node
    <2>3. x.frame \in Nat
      BY <2>2, ConstantTypes DEF Frames
    <2> QED
      BY <2>1, <2>3, QueueFacts
  <1>2. /\ place \in Int /\ n + 1 <= place /\ place <= L + 1
        /\ gone \in SUBSET ((n + 1) .. L)
    BY <1>1 DEF Inserts
  <1>3. I \in SUBSET (1 .. L) /\ J \in SUBSET (1 .. L) /\ 1 .. n \subseteq I
    BY <1>1, <1>2
  <1>4. I \cap J = {} /\ I \cup J = (1 .. L) \ gone
    BY <1>1, <1>2
  <1>5. (\A i \in I : i < place) /\ (\A i \in J : i >= place)
    BY <1>1, <1>2
  <1> HIDE DEF I, J
  <1>6. /\ a \in Seq(Node) /\ Len(a) = A /\ A \in Nat
        /\ \E at : Picks(at, I) /\ \A k \in 1 .. A : a[k] = q[at[k]]
    BY <1>1, <1>3, KeepFacts
  <1>7. /\ b \in Seq(Node) /\ Len(b) = B /\ B \in Nat
        /\ \E at : Picks(at, J) /\ \A k \in 1 .. B : b[k] = q[at[k]]
    BY <1>1, <1>3, KeepFacts
  <1>8. PICK at : Picks(at, I) /\ \A k \in 1 .. A : a[k] = q[at[k]]
    BY <1>6
  <1>9. PICK bt : Picks(bt, J) /\ \A k \in 1 .. B : b[k] = q[bt[k]]
    BY <1>7
  <1>22. L \in Nat /\ n \in Nat /\ A \in Nat /\ B \in Nat
    BY <1>1, <1>6, <1>7
  <1> HIDE DEF a, b, A, B, L
  <1>10. A + B = L - Cardinality(gone) /\ Cardinality(gone) \in Nat
    <2>1. IsFiniteSet(1 .. L) /\ Cardinality(1 .. L) = L
      <3>1. 1 \in Int /\ L \in Int
        BY <1>22
      <3>2. IsFiniteSet(1 .. L) /\ Cardinality(1 .. L) = IF 1 > L THEN 0 ELSE L - 1 + 1
        BY <3>1, FS_Interval
      <3> QED
        BY <1>22, <3>2
    <2>2. gone \in SUBSET (1 .. L) /\ (1 .. L) \cap gone = gone
      <3>1. \A i \in (n + 1) .. L : i \in 1 .. L
        BY <1>22
      <3>2. gone \subseteq (n + 1) .. L
        BY <1>2
      <3> QED
        BY <3>1, <3>2
    <2>3. IsFiniteSet(gone) /\ Cardinality(gone) \in Nat
      BY <2>1, <2>2, FS_Subset, FS_CardinalityType
    <2>4. Cardinality((1 .. L) \ gone) = L - Cardinality(gone)
      <3>1. PICK U : U = 1 .. L
        OBVIOUS
      <3>2. IsFiniteSet(U) /\ Cardinality(U) = L /\ U \cap gone = gone
        BY <2>1, <2>2, <3>1
      <3>3. Cardinality(U \ gone) = Cardinality(U) - Cardinality(U \cap gone)
        BY <3>2, FS_Difference
      <3> QED
        BY <3>1, <3>2, <3>3
    <2>5. IsFiniteSet(I) /\ IsFiniteSet(J)
      BY <1>3, <2>1, FS_Subset
    <2>6. Cardinality(I \cup J) = Cardinality(I) + Cardinality(J) - Cardinality(I \cap J)
      BY <2>5, FS_Union
    <2>7. Cardinality(I \cap J) = 0
      BY <1>4, FS_EmptySet
    <2> QED
      BY <1>4, <1>22, <2>3, <2>4, <2>6, <2>7 DEF A, B
  <1>11. /\ n <= A /\ \A k \in 1 .. n : at[k] = k
         /\ \A k \in 1 .. A : at[k] \in I /\ at[k] \in 1 .. L /\ (k > n => at[k] > n)
    <2>1. Picks(at, I)
      BY <1>8
    <2>2. I \in SUBSET (1 .. L) /\ 1 .. n \subseteq I /\ L \in Nat /\ n \in Nat
      BY <1>3, <1>22
    <2>3. /\ n <= Cardinality(I) /\ \A k \in 1 .. n : at[k] = k
          /\ \A k \in 1 .. Cardinality(I) : at[k] \in I /\ at[k] \in 1 .. L /\ (k > n => at[k] > n)
      BY <2>1, <2>2, KeepHead
    <2> QED
      BY <2>3 DEF A
  <1>12. \A k \in 1 .. B : bt[k] \in J /\ bt[k] \in 1 .. L
    BY <1>3, <1>9 DEF Picks, B
  <1>23. Len(a) = A /\ Len(b) = B
    BY <1>6, <1>7
  <1>13. /\ r \in Seq(Node) /\ Len(r) = A + 1 + B
         /\ \A k \in 1 .. A + 1 + B :
               r[k] = IF k <= A THEN a[k] ELSE IF k = A + 1 THEN x ELSE b[k - A - 1]
    <2> DEFINE y == <<x>>
               z == a \o y
    <2>1. y \in Seq(Node) /\ Len(y) = 1 /\ y[1] = x
      BY <1>1
    <2> HIDE DEF y
    <2>2. z \in Seq(Node) /\ Len(z) = A + 1
          /\ \A k \in 1 .. A + 1 : z[k] = IF k <= A THEN a[k] ELSE y[k - A]
      <3>1. /\ z \in Seq(Node) /\ Len(z) = Len(a) + Len(y)
            /\ \A k \in 1 .. Len(a) + Len(y) : z[k] = IF k <= Len(a) THEN a[k] ELSE y[k - Len(a)]
        BY <1>6, <2>1, ConcatProperties
      <3> HIDE DEF z
      <3> QED
        BY <1>23, <2>1, <3>1
    <2> HIDE DEF z
    <2>3. /\ z \o b \in Seq(Node) /\ Len(z \o b) = A + 1 + B
          /\ \A k \in 1 .. A + 1 + B : (z \o b)[k] = IF k <= A + 1 THEN z[k] ELSE b[k - (A + 1)]
      <3>1. /\ z \o b \in Seq(Node) /\ Len(z \o b) = Len(z) + Len(b)
            /\ \A k \in 1 .. Len(z) + Len(b) :
                  (z \o b)[k] = IF k <= Len(z) THEN z[k] ELSE b[k - Len(z)]
        BY <1>7, <2>2, ConcatProperties
      <3> QED
        BY <1>23, <2>2, <3>1
    <2>4. ASSUME NEW k \in 1 .. A + 1 + B
          PROVE  (z \o b)[k] = IF k <= A THEN a[k] ELSE IF k = A + 1 THEN x ELSE b[k - A - 1]
      <3>1. CASE k <= A
        <4>1. k \in 1 .. A + 1 /\ k <= A + 1
          BY <1>6, <3>1
        <4> QED
          BY <2>2, <2>3, <3>1, <4>1
      <3>2. CASE k = A + 1
        <4>1. k \in 1 .. A + 1 /\ ~(k <= A) /\ k - A = 1 /\ k <= A + 1
          BY <1>6, <3>2
        <4> QED
          BY <2>1, <2>2, <2>3, <3>2, <4>1
      <3>3. CASE k > A + 1
        <4>1. ~(k <= A) /\ ~(k <= A + 1) /\ k # A + 1 /\ k - (A + 1) = k - A - 1
          BY <1>6, <3>3
        <4> QED
          BY <2>3, <4>1
      <3>4. k <= A \/ k = A + 1 \/ k > A + 1
        BY <1>22
      <3> QED
        BY <3>1, <3>2, <3>3, <3>4
    <2>5. r = z \o b
      BY DEF z, y
    <2> HIDE DEF r
    <2> QED
      BY <2>3, <2>4, <2>5
  <1>14. Len(r) = L - Cardinality(gone) + 1
    BY <1>22, <1>10, <1>13
  <1> HIDE DEF r
  <1>15. ASSUME NEW k \in 1 .. A + 1 + B
         PROVE  \/ k <= A /\ k \in 1 .. A /\ r[k] = q[at[k]]
                \/ k = A + 1 /\ r[k] = x
                \/ k > A + 1 /\ k - A - 1 \in 1 .. B /\ r[k] = q[bt[k - A - 1]]
    <2>1. CASE k <= A
      <3>1. k \in 1 .. A
        BY <1>6, <2>1
      <3> QED
        BY <1>8, <1>13, <2>1, <3>1
    <2>2. CASE k = A + 1
      <3>1. ~(k <= A)
        BY <1>6, <2>2
      <3> QED
        BY <1>13, <2>2, <3>1
    <2>3. CASE k > A + 1
      <3>1. k - A - 1 \in 1 .. B /\ ~(k <= A) /\ k # A + 1
        BY <1>6, <1>7, <2>3
      <3> QED
        BY <1>9, <1>13, <2>3, <3>1
    <2> QED
      BY <1>6, <1>7, <2>1, <2>2, <2>3
  <1>16. ASSUME NEW k \in 1 .. A + 1 + B PROVE r[k].has = Streams <=> k <= m
    <2>1. CASE k <= A /\ r[k] = q[at[k]]
      <3>1. at[k] \in 1 .. L /\ (at[k] <= n <=> k <= n)
        <4>1. k \in 1 .. A /\ at[k] \in 1 .. L
          BY <1>6, <1>11, <2>1
        <4>2. k <= n => at[k] = k
          BY <1>1, <1>11, <4>1
        <4>3. k > n => at[k] > n
          BY <1>11, <4>1
        <4> QED
          BY <1>1, <4>1, <4>2, <4>3
      <3>2. r[k].has = Streams <=> k <= n
        BY <1>1, <2>1, <3>1 DEF Sorted, L
      <3>3. CASE x.has = Streams
        <4>1. n = L
          BY <3>3 DEF Inserts, L
        <4>2. A <= L
          BY <1>22, <1>10
        <4>3. k <= n /\ k <= m
          BY <1>1, <1>22, <2>1, <3>3, <4>1, <4>2
        <4> QED
          BY <3>2, <4>3
      <3>4. CASE x.has # Streams
        BY <3>2, <3>4
      <3> QED
        BY <3>3, <3>4
    <2>2. CASE k = A + 1 /\ r[k] = x
      <3>1. CASE x.has = Streams
        <4>1. n = L
          BY <3>1 DEF Inserts, L
        <4>2. A <= L
          BY <1>22, <1>10
        <4> QED
          BY <1>1, <1>22, <1>11, <2>2, <3>1, <4>1, <4>2
      <3>2. CASE x.has # Streams
        BY <1>1, <1>22, <1>11, <2>2, <3>2
      <3> QED
        BY <3>1, <3>2
    <2>3. CASE k > A + 1 /\ k - A - 1 \in 1 .. B /\ r[k] = q[bt[k - A - 1]]
      <3> DEFINE l == bt[k - A - 1]
      <3>1. l \in J /\ l \in 1 .. L
        BY <1>12, <2>3
      <3>2. l >= place /\ ~(l <= n)
        BY <1>1, <1>2, <1>5, <3>1
      <3>3. r[k].has # Streams
        BY <1>1, <2>3, <3>1, <3>2 DEF Sorted, L
      <3>4. x.has # Streams
        <4>1. n # L
          BY <1>22, <3>1, <3>2
        <4> QED
          BY <4>1 DEF Inserts, L
      <3>5. ~(k <= m)
        BY <1>1, <1>22, <1>11, <2>3, <3>4
      <3> QED
        BY <3>3, <3>5
    <2> QED
      BY <1>15, <2>1, <2>2, <2>3
  <1>17. ASSUME NEW k \in 1 .. A PROVE q[at[k]].frame < x.frame /\ q[at[k]].frame \in Nat
    <2>1. at[k] \in 1 .. L /\ at[k] < place
      BY <1>5, <1>11
    <2>2. at[k] \in 1 .. place - 1
      BY <1>2, <2>1
    <2> QED
      BY <1>1, <2>1, <2>2 DEF Inserts, L
  <1>18. ASSUME NEW k \in 1 .. B PROVE x.frame < q[bt[k]].frame /\ q[bt[k]].frame \in Nat
    <2>1. bt[k] \in 1 .. L /\ bt[k] >= place
      BY <1>5, <1>12
    <2>2. bt[k] \in place .. L
      BY <1>1, <1>2, <2>1
    <2> QED
      BY <1>1, <2>1, <2>2 DEF Inserts, L
  <1>19. ASSUME NEW k \in 1 .. A + 1 + B, NEW l \in 1 .. A + 1 + B, k < l
         PROVE  r[k].frame < r[l].frame
    <2>1. CASE l <= A
      <3>1. k <= A /\ k \in 1 .. A /\ l \in 1 .. A /\ k # A + 1 /\ ~(k > A + 1) /\ l # A + 1 /\ ~(l > A + 1)
        BY <1>6, <1>19, <2>1
      <3>2. r[k] = q[at[k]] /\ r[l] = q[at[l]]
        BY <1>15, <3>1
      <3>3. at[k] < at[l]
        BY <1>8, <1>19, <3>1 DEF Picks, A
      <3>4. at[k] \in 1 .. L /\ at[l] \in 1 .. L
        BY <1>11, <3>1
      <3> QED
        BY <1>1, <3>2, <3>3, <3>4 DEF Sorted, L
    <2>2. CASE l = A + 1
      <3>1. k <= A /\ k \in 1 .. A /\ k # A + 1 /\ ~(k > A + 1) /\ ~(l <= A) /\ ~(l > A + 1)
        BY <1>6, <1>19, <2>2
      <3>2. r[k] = q[at[k]] /\ r[l] = x
        BY <1>15, <3>1
      <3> QED
        BY <1>17, <3>1, <3>2
    <2>3. CASE l > A + 1
      <3>1. l - A - 1 \in 1 .. B /\ r[l] = q[bt[l - A - 1]]
        <4>1. ~(l <= A) /\ l # A + 1
          BY <1>6, <2>3
        <4> QED
          BY <1>15, <4>1
      <3>2. CASE k <= A /\ k \in 1 .. A /\ r[k] = q[at[k]]
        BY <1>1, <1>17, <1>18, <3>1, <3>2
      <3>3. CASE k = A + 1 /\ r[k] = x
        BY <1>18, <3>1, <3>3
      <3>4. CASE k > A + 1 /\ k - A - 1 \in 1 .. B /\ r[k] = q[bt[k - A - 1]]
        <4>1. k - A - 1 < l - A - 1
          BY <1>6, <1>19
        <4>2. bt[k - A - 1] < bt[l - A - 1]
          BY <1>9, <3>1, <3>4, <4>1 DEF Picks, B
        <4>3. bt[k - A - 1] \in 1 .. L /\ bt[l - A - 1] \in 1 .. L
          BY <1>12, <3>1, <3>4
        <4> QED
          BY <1>1, <3>1, <3>4, <4>2, <4>3 DEF Sorted, L
      <3> QED
        BY <1>15, <3>2, <3>3, <3>4
    <2> QED
      BY <1>6, <1>7, <2>1, <2>2, <2>3
  <1>20. Sorted(r, m)
    <2>1. m \in 0 .. Len(r)
      <3>1. CASE x.has = Streams
        BY <1>22, <1>11, <1>13, <3>1
      <3>2. CASE x.has # Streams
        BY <1>22, <1>11, <1>13, <3>2
      <3> QED
        BY <3>1, <3>2
    <2> HIDE DEF m
    <2> QED
      BY <1>13, <1>16, <1>19, <2>1 DEF Sorted, L
  <1>21. BuffersOf(r) \subseteq BuffersOf(q) \cup x.has \X {x.frame}
    <2>1. ASSUME NEW s, NEW f, <<s, f>> \in BuffersOf(r)
          PROVE  <<s, f>> \in BuffersOf(q) \/ (s \in x.has /\ f = x.frame)
      <3>1. <<s, f>> \in BuffersOf(r) <=> \E k \in 1 .. Len(r) : s \in r[k].has /\ r[k].frame = f
        BY <1>13, BuffersFacts
      <3>2. PICK k \in 1 .. A + 1 + B : s \in r[k].has /\ r[k].frame = f
        BY <1>13, <2>1, <3>1
      <3>3. <<s, f>> \in BuffersOf(q) <=> \E l \in 1 .. L : s \in q[l].has /\ q[l].frame = f
        BY <1>1, BuffersFacts
      <3>4. r[k] = x \/ \E l \in 1 .. L : r[k] = q[l]
        BY <1>11, <1>12, <1>15
      <3> QED
        BY <3>2, <3>3, <3>4
    <2>2. BuffersOf(r) \subseteq Streams \X Frames
      BY <1>13, BuffersFacts
    <2> QED
      BY <2>1, <2>2
  <1> QED
    BY <1>10, <1>13, <1>14, <1>20, <1>21 DEF r, a, b, I, J, L

\* A new node finds room: at most one has to go, and one that may go exists.
LEMMA EvictedFacts ==
    ASSUME NEW q \in Seq(Node), NEW n, Sorted(q, n), NEW f \in Frames,
           Len(q) - n <= max_unmatched_frames + 1,
           \/ {i \in Unmatched(q) : q[i].frame < f} # {}
           \/ ~(Cardinality(Unmatched(q)) > max_unmatched_frames)
    PROVE  /\ Evicted(q, f) \in SUBSET ((n + 1) .. Len(q))
           /\ Len(q) - n - Cardinality(Evicted(q, f)) <= max_unmatched_frames
  <1> DEFINE U == Unmatched(q)
             over == Cardinality(U) - max_unmatched_frames
             older == {i \in U : q[i].frame < f}
             newer == {i \in U : q[i].frame > f}
             spare == {i \in LeastOf(older) .. Len(q) :
                          ~q[i].awaited /\ (newer = {} \/ i # LeastOf(newer))}
             gone == IF Cardinality(spare) < over THEN spare \cup {LeastOf(older)}
                     ELSE {i \in spare : Cardinality({j \in spare : j < i}) < over}
             G == Evicted(q, f)
  <1>1. Len(q) \in Nat /\ n \in Nat /\ n <= Len(q) /\ max_unmatched_frames \in Nat
    BY QueueFacts, ConstantTypes
  <1>2. U = (n + 1) .. Len(q) /\ IsFiniteSet(U) /\ Cardinality(U) = Len(q) - n
    BY QueueFacts
  <1>3. G = IF over <= 0 THEN {} ELSE gone
    BY DEF Evicted
  <1>4. over \in Int /\ over <= 1 /\ over = Len(q) - n - max_unmatched_frames
    BY <1>1, <1>2
  <1> HIDE DEF gone, over, G
  <1>5. CASE over <= 0
    <2>1. G = {} /\ Cardinality({}) = 0
      BY <1>3, <1>5, FS_EmptySet
    <2> QED
      BY <1>1, <1>4, <1>5, <2>1 DEF G
  <1>6. CASE ~(over <= 0)
    <2>1. over = 1 /\ older # {} /\ G = gone
      <3>1. over = 1
        BY <1>4, <1>6
      <3>2. Cardinality(U) > max_unmatched_frames
        BY <1>1, <1>2, <3>1 DEF over
      <3>3. older # {}
        BY <3>2
      <3> QED
        BY <1>3, <1>6, <3>1, <3>3
    <2>2. older \in SUBSET Nat /\ older \in SUBSET U
      BY <1>1, <1>2
    <2> HIDE DEF older
    <2>3. LeastOf(older) \in U
      BY <2>1, <2>2, LeastExists
    <2>4. LeastOf(older) \in Int /\ n + 1 <= LeastOf(older) /\ LeastOf(older) <= Len(q)
      BY <1>1, <1>2, <2>3
    <2>5. spare \in SUBSET U /\ spare \in SUBSET Nat
      BY <1>1, <1>2, <2>4
    <2> HIDE DEF spare
    <2>6. IsFiniteSet(spare) /\ Cardinality(spare) \in Nat
      BY <1>2, <2>5, FS_Subset, FS_CardinalityType
    <2>7. gone \in SUBSET U /\ gone # {}
      <3>1. CASE Cardinality(spare) < over
        BY <2>3, <2>5, <3>1 DEF gone
      <3>2. CASE ~(Cardinality(spare) < over)
        <4>1. gone = {i \in spare : Cardinality({j \in spare : j < i}) < over}
          BY <3>2 DEF gone
        <4>2. spare # {}
          <5>1. Cardinality(spare) # 0
            BY <2>1, <2>6, <3>2
          <5> QED
            BY <5>1, FS_EmptySet
        <4>3. LeastOf(spare) \in spare /\ \A j \in spare : LeastOf(spare) <= j
          BY <2>5, <4>2, LeastExists
        <4>4. {j \in spare : j < LeastOf(spare)} = {}
          <5>1. \A j \in spare : j \in Nat /\ LeastOf(spare) \in Nat /\ LeastOf(spare) <= j
            BY <2>5, <4>3
          <5>2. \A j \in spare : ~(j < LeastOf(spare))
            BY <5>1
          <5> QED
            BY <5>2
        <4>5. Cardinality({j \in spare : j < LeastOf(spare)}) < over
          <5>1. Cardinality({}) = 0 /\ 0 < over
            BY <2>1, FS_EmptySet
          <5> QED
            BY <4>4, <5>1
        <4>6. LeastOf(spare) \in gone
          BY <4>1, <4>3, <4>5
        <4> QED
          BY <2>5, <4>1, <4>6
      <3> QED
        BY <3>1, <3>2
    <2>8. Cardinality(gone) \in Nat /\ Cardinality(gone) # 0
      <3>1. IsFiniteSet(gone)
        BY <1>2, <2>7, FS_Subset
      <3> QED
        BY <2>7, <3>1, FS_CardinalityType, FS_EmptySet
    <2>9. Len(q) - n - Cardinality(gone) <= max_unmatched_frames
      BY <1>1, <1>4, <2>1, <2>8
    <2> QED
      BY <1>2, <2>1, <2>7, <2>9 DEF G
  <1> QED
    BY <1>5, <1>6

\* A frame that no node waits for, and that is newer than all complete ones.
IsNew(c, s, f) ==
    /\ s \in Streams /\ f \in Frames
    /\ \A i \in Unmatched(c.que) : c.que[i].frame # f
    /\ \A i \in 1 .. c.match_cnt : c.que[i].frame < f

\* A frame that nothing waits for leaves the queue sorted and within its length.
LEMMA InsertFacts ==
    ASSUME NEW c, Good(c), NEW s, NEW f, IsNew(c, s, f)
    PROVE  /\ Good(Insert(c, s, f))
           /\ BuffersOf(Insert(c, s, f).que) \subseteq BuffersOf(c.que) \cup {<<s, f>>}
  <1> DEFINE q == c.que
             n == c.match_cnt
             U == Unmatched(q)
             older == {i \in U : q[i].frame < f}
             newer == {i \in U : q[i].frame > f}
             place == IF newer = {} THEN Len(q) + 1 ELSE LeastOf(newer)
             gone == Evicted(q, f)
             x == [frame |-> f, has |-> {s},
                   awaited |-> Awaited(c, f) /\ Streams # {s}]
             r == Keep(q, (1 .. place - 1) \ gone) \o <<x>> \o Keep(q, (place .. Len(q)) \ gone)
             m == IF Streams = {s} THEN n + 1 ELSE n
             d == Insert(c, s, f)
  <1>1. /\ c \in Channel /\ q \in Seq(Node) /\ Sorted(q, n) /\ ~c.spins
        /\ Len(q) - n <= max_unmatched_frames + 1
    BY DEF Good, GoodQueue, Channel
  <1>2. s \in Streams /\ f \in Frames /\ f \in Nat /\ MaxFrame \in Nat
    BY ConstantTypes DEF IsNew, Frames
  <1>3. /\ Len(q) \in Nat /\ n \in Nat /\ n <= Len(q) /\ U = (n + 1) .. Len(q)
        /\ \A i \in 1 .. Len(q) : q[i] \in Node /\ q[i].frame \in Nat
                                  /\ q[i].has \in (SUBSET Streams) \ {{}}
    <2> HIDE DEF q, n
    <2> QED
      BY <1>1, QueueFacts DEF U
  <1>4. CASE older = {} /\ Cardinality(U) > max_unmatched_frames
    <2>1. d = c
      BY <1>4 DEF Insert
    <2> QED
      BY <2>1
  <1>5. CASE ~(older = {} /\ Cardinality(U) > max_unmatched_frames)
    <2>1. /\ gone \in SUBSET ((n + 1) .. Len(q))
          /\ Len(q) - n - Cardinality(gone) <= max_unmatched_frames
      <3>1. \/ older # {}
            \/ ~(Cardinality(U) > max_unmatched_frames)
        BY <1>5
      <3> HIDE DEF q, n
      <3> QED
        BY <1>1, <1>2, <3>1, EvictedFacts
    <2>2. /\ place \in (n + 1) .. (Len(q) + 1)
          /\ \A i \in 1 .. place - 1 : q[i].frame < f
          /\ \A i \in place .. Len(q) : f < q[i].frame
      <3>0. /\ \A i \in U : q[i].frame # f
            /\ \A i \in 1 .. n : q[i].frame < f
        BY DEF IsNew
      <3>1. CASE newer = {}
        <4>1. \A i \in U : q[i].frame < f
          <5> TAKE i \in U
          <5>1. i \in 1 .. Len(q) /\ ~(q[i].frame > f)
            BY <1>3, <3>1
          <5> QED
            BY <1>2, <1>3, <3>0, <5>1
        <4>2. place = Len(q) + 1
          BY <3>1
        <4>3. \A i \in 1 .. Len(q) : q[i].frame < f
          <5> TAKE i \in 1 .. Len(q)
          <5>1. i \in 1 .. n \/ i \in U
            BY <1>3
          <5> QED
            BY <3>0, <4>1, <5>1
        <4> HIDE DEF place, q, n
        <4> QED
          BY <1>3, <4>2, <4>3
      <3>2. CASE newer # {}
        <4>1. newer \in SUBSET Nat
          BY <1>3
        <4>2. LeastOf(newer) \in newer /\ \A i \in newer : LeastOf(newer) <= i
          BY <3>2, <4>1, LeastExists
        <4>3. place = LeastOf(newer)
          BY <3>2
        <4> HIDE DEF place
        <4>4. place \in U /\ q[place].frame > f /\ \A i \in newer : place <= i
          BY <4>2, <4>3
        <4>5. place \in Int /\ n + 1 <= place /\ place <= Len(q) /\ place \in 1 .. Len(q)
          BY <1>3, <4>4
        <4>6. ASSUME NEW i \in 1 .. place - 1 PROVE q[i].frame < f
          <5>1. CASE i <= n
            <6>1. i \in 1 .. n
              BY <1>3, <4>5, <5>1
            <6> QED
              BY <3>0, <6>1
          <5>2. CASE i > n
            <6>1. i \in U /\ i \in 1 .. Len(q) /\ ~(place <= i)
              BY <1>3, <4>5, <5>2
            <6>2. ~(q[i].frame > f) /\ q[i].frame # f
              BY <3>0, <4>4, <6>1
            <6> QED
              BY <1>2, <1>3, <6>1, <6>2
          <5> QED
            BY <1>3, <4>5, <5>1, <5>2
        <4>7. ASSUME NEW i \in place .. Len(q) PROVE f < q[i].frame
          <5>1. i \in 1 .. Len(q) /\ (i = place \/ place < i)
            BY <1>3, <4>5
          <5>2. CASE i = place
            BY <1>2, <1>3, <4>4, <4>5, <5>2
          <5>3. CASE place < i
            <6>1. q[place].frame < q[i].frame
              BY <1>1, <4>5, <5>1, <5>3 DEF Sorted
            <6> QED
              BY <1>2, <1>3, <4>4, <4>5, <5>1, <6>1
          <5> QED
            BY <5>1, <5>2, <5>3
        <4>8. place \in (n + 1) .. (Len(q) + 1)
          BY <1>3, <4>5
        <4> QED
          BY <4>6, <4>7, <4>8
      <3> QED
        BY <3>1, <3>2
    <2>3. x \in Node /\ x.frame = f /\ x.has = {s}
      <3>1. {s} \in (SUBSET Streams) \ {{}}
        BY <1>2
      <3>2. PICK h \in (SUBSET Streams) \ {{}} : h = {s}
        BY <3>1
      <3>3. PICK w \in BOOLEAN : w = (Awaited(c, f) /\ Streams # {s})
        OBVIOUS
      <3>4. x = [frame |-> f, has |-> h, awaited |-> w]
        BY <3>2, <3>3
      <3> HIDE DEF x
      <3>5. x \in Node
        BY <1>2, <3>4 DEF Node
      <3> QED
        BY <3>2, <3>4, <3>5
    <2>4. x.has = Streams => n = Len(q)
      <3> HIDE DEF x
      <3> SUFFICES ASSUME Streams = {s} PROVE n = Len(q)
        BY <2>3
      <3>1. \A i \in 1 .. Len(q) : q[i].has = Streams
        <4> TAKE i \in 1 .. Len(q)
        <4>1. q[i].has \subseteq {s} /\ q[i].has # {}
          BY <1>3
        <4> QED
          BY <4>1
      <3>2. \A i \in 1 .. Len(q) : i <= n
        BY <1>1, <3>1 DEF Sorted
      <3>3. Len(q) > 0 => Len(q) <= n
        <4>1. Len(q) > 0 => Len(q) \in 1 .. Len(q)
          BY <1>3
        <4> QED
          BY <3>2, <4>1
      <3> QED
        BY <1>3, <3>3
    <2>16. PICK v \in Nat : v = IF Awaited(c, f) THEN 0 ELSE c.diverted_frame_id
      BY <1>1 DEF Channel
    <2>5. \/ Streams # {s} /\ d = [c EXCEPT !.que = r, !.diverted_frame_id = v]
          \/ Streams = {s} /\ d = [c EXCEPT !.que = r, !.diverted_frame_id = v,
                                            !.expected_frame_id = f + post_frame_skip,
                                            !.match_cnt = @ + 1]
      <3> DEFINE c2 == [c EXCEPT !.que = r, !.diverted_frame_id = v]
      <3>0. c2 = [c EXCEPT !.que = r,
                           !.diverted_frame_id = IF Awaited(c, f) THEN 0 ELSE @]
        BY <1>1, <2>16 DEF Channel
      <3>1. CASE Streams # {s}
        <4>1. d = c2
          BY <1>5, <3>0, <3>1 DEF Insert
        <4> QED
          BY <3>1, <4>1
      <3>2. CASE Streams = {s}
        <4>1. d = [c2 EXCEPT !.expected_frame_id = f + post_frame_skip, !.match_cnt = @ + 1]
          BY <1>5, <3>0, <3>2 DEF Insert
        <4>2. c \in Channel
          BY <1>1
        <4> HIDE DEF d, r
        <4> QED
          BY <3>2, <4>1, <4>2 DEF Channel
      <3> QED
        BY <3>1, <3>2
    <2>6. Inserts(q, n, place, gone, x)
      <3> HIDE DEF x, place, gone, q, n
      <3> QED
        BY <1>1, <2>1, <2>2, <2>3, <2>4 DEF Inserts
    <2>7. /\ r \in Seq(Node) /\ Len(r) = Len(q) - Cardinality(gone) + 1
          /\ Cardinality(gone) \in Nat
          /\ Sorted(r, IF x.has = Streams THEN n + 1 ELSE n)
          /\ BuffersOf(r) \subseteq BuffersOf(q) \cup x.has \X {x.frame}
      <3> HIDE DEF x, place, gone, q, n
      <3> QED
        BY <2>6, InsertSorted
    <2> HIDE DEF r, x, place, gone, d
    <2>8. (IF x.has = Streams THEN n + 1 ELSE n) = m
      BY <2>3
    <2>9. /\ Sorted(r, m)
          /\ BuffersOf(r) \subseteq BuffersOf(c.que) \cup {<<s, f>>}
      BY <2>3, <2>7, <2>8
    <2>10. PICK e \in Nat : e = f + post_frame_skip
      BY <1>2, ConstantTypes
    <2>12. PICK j \in Int : j = n + 1
      BY <1>3
    <2>13. /\ d \in Channel /\ d.que = r /\ d.match_cnt = m /\ d.spins = c.spins
           /\ d.bWait = c.bWait /\ d.pending_cnt = c.pending_cnt
           /\ d.pending_retro_cnt = c.pending_retro_cnt
           /\ d.startZSl = c.startZSl /\ d.burstSnapNum = c.burstSnapNum
           /\ d.stopZslSnapshot = c.stopZslSnapshot
      <3>1. CASE Streams # {s} /\ d = [c EXCEPT !.que = r, !.diverted_frame_id = v]
        <4>1. c \in Channel /\ r \in Seq(Node) /\ d = [c EXCEPT !.que = r, !.diverted_frame_id = v]
          BY <1>1, <2>7, <3>1
        <4>2. d \in Channel
          BY <4>1 DEF Channel
        <4>3. m = c.match_cnt
          BY <3>1
        <4> QED
          BY <4>1, <4>2, <4>3 DEF Channel
      <3>2. CASE Streams = {s} /\ d = [c EXCEPT !.que = r, !.diverted_frame_id = v,
                                                !.expected_frame_id = f + post_frame_skip,
                                                !.match_cnt = @ + 1]
        <4>1. c \in Channel /\ r \in Seq(Node)
              /\ d = [c EXCEPT !.que = r, !.diverted_frame_id = v, !.expected_frame_id = e,
                               !.match_cnt = j]
          BY <1>1, <2>7, <2>10, <2>12, <3>2
        <4>2. d \in Channel
          BY <4>1 DEF Channel
        <4>3. m = j
          BY <2>12, <3>2
        <4> QED
          BY <4>1, <4>2, <4>3 DEF Channel
      <3> QED
        BY <2>5, <3>1, <3>2
    <2>14. Len(r) - m <= max_unmatched_frames + 1
      <3>1. m \in Int /\ n <= m
        BY <1>3
      <3> HIDE DEF m, q, n
      <3> QED
        BY <1>3, <2>1, <2>7, <3>1, ConstantTypes
    <2>15. Good(d)
      <3> HIDE DEF m
      <3> QED
        BY <2>9, <2>13, <2>14, StillGood
    <2> QED
      BY <2>9, <2>13, <2>15 DEF d
  <1> QED
    BY <1>4, <1>5

\* mm_channel_superbuf_comp_and_enqueue keeps the queue good, when the stream has not
\* brought the frame before.
LEMMA CompFacts ==
    ASSUME NEW c0, Good(c0), NEW m \in DataCommand,
           \A i \in 1 .. Len(c0.que) :
              m.stream \in c0.que[i].has => c0.que[i].frame < m.frame
    PROVE  /\ Good(CompAndEnqueue(c0, m))
           /\ BuffersOf(CompAndEnqueue(c0, m).que)
                 \subseteq BuffersOf(c0.que) \cup {<<m.stream, m.frame>>}
  <1> DEFINE c == HandleMetadata(c0, m)
             same == {i \in Unmatched(c.que) : c.que[i].frame = m.frame}
             d == CompAndEnqueue(c0, m)
  <1>1. /\ m.stream \in Streams /\ m.frame \in Frames /\ m.news \in News /\ m.frame \in Nat
    BY ConstantTypes DEF DataCommand, Frames
  <1>2. Good(c) /\ (c.que = c0.que \/ c.que = <<>>)
    BY <1>1, MetadataFacts
  <1>3. c0.que \in Seq(Node)
    BY DEF Good, GoodQueue, Channel
  <1>4. d = c \/ (same # {} /\ d = Join(c, LeastOf(same), m.stream))
              \/ (same = {} /\ d = Insert(c, m.stream, m.frame))
    BY DEF CompAndEnqueue
  <1> HIDE DEF c, d
  <1>5. BuffersOf(c.que) \subseteq BuffersOf(c0.que)
    BY <1>2, EmptyFacts
  <1>6. c.que \in Seq(Node) /\ Sorted(c.que, c.match_cnt)
    BY <1>2 DEF Good, GoodQueue, Channel
  <1>7. /\ Len(c.que) \in Nat /\ c.match_cnt \in Nat /\ c.match_cnt <= Len(c.que)
        /\ Unmatched(c.que) = (c.match_cnt + 1) .. Len(c.que)
    BY <1>6, QueueFacts
  <1>8. CASE d = c
    BY <1>2, <1>5, <1>8 DEF d
  <1>9. CASE same # {} /\ d = Join(c, LeastOf(same), m.stream)
    <2>1. same \in SUBSET Nat
      BY <1>7
    <2>2. LeastOf(same) \in same
      BY <1>9, <2>1, LeastExists
    <2>3. LeastOf(same) \in Unmatched(c.que) /\ c.que[LeastOf(same)].frame = m.frame
      BY <2>2
    <2> HIDE DEF same
    <2>4. /\ Good(Join(c, LeastOf(same), m.stream))
          /\ BuffersOf(Join(c, LeastOf(same), m.stream).que)
                \subseteq BuffersOf(c.que) \cup {<<m.stream, c.que[LeastOf(same)].frame>>}
      BY <1>1, <1>2, <2>3, JoinFacts
    <2> QED
      BY <1>5, <1>9, <2>3, <2>4 DEF d
  <1>10. CASE same = {} /\ d = Insert(c, m.stream, m.frame)
    <2>1. \A i \in Unmatched(c.que) : c.que[i].frame # m.frame
      BY <1>10
    <2>2. ASSUME NEW i \in 1 .. c.match_cnt PROVE c.que[i].frame < m.frame
      <3>1. i \in 1 .. Len(c.que) /\ i <= c.match_cnt
        BY <1>7
      <3>2. c.que[i].has = Streams
        BY <1>6, <3>1 DEF Sorted
      <3>3. c.que # <<>>
        BY <3>1, EmptySeq
      <3> QED
        BY <1>1, <1>2, <3>1, <3>2, <3>3
    <2>3. IsNew(c, m.stream, m.frame)
      BY <1>1, <2>1, <2>2 DEF IsNew
    <2>4. /\ Good(Insert(c, m.stream, m.frame))
          /\ BuffersOf(Insert(c, m.stream, m.frame).que)
                \subseteq BuffersOf(c.que) \cup {<<m.stream, m.frame>>}
      BY <1>2, <2>3, InsertFacts
    <2> QED
      BY <1>5, <1>10, <2>4 DEF d
  <1> QED
    BY <1>4, <1>8, <1>9, <1>10

\* A request keeps the queue good, and skips no incomplete frame.
LEMMA RequestFacts ==
    ASSUME NEW c, Good(c), NEW r, r.num \in Nat, r.retro \in Nat
    PROVE  Good(NewRequest(c, r)) /\ BuffersOf(NewRequest(c, r).que) \subseteq BuffersOf(c.que)
  <1> DEFINE retro == IF r.retro > r.num THEN r.num ELSE r.retro
             c2 == [c EXCEPT !.pending_cnt = r.num, !.pending_retro_cnt = retro,
                             !.bWait = FALSE, !.stopZslSnapshot = FALSE,
                             !.needLEDFlash = IF retro > 0 THEN FALSE ELSE @]
             d == NewRequest(c, r)
  <1>1. c \in Channel /\ c.needLEDFlash \in BOOLEAN
    BY DEF Good, GoodQueue, Channel
  <1>2. d = IF Continuous THEN c2 ELSE DropUntil(c2, look_back)
    BY DEF NewRequest
  <1>3. PICK p \in Nat : p = r.num
    OBVIOUS
  <1>4. PICK t \in Nat : t = retro /\ t <= p
    <2>1. retro \in Nat /\ retro <= p
      BY <1>3
    <2> QED
      BY <2>1
  <1>5. PICK w \in BOOLEAN : w = IF retro > 0 THEN FALSE ELSE c.needLEDFlash
    BY <1>1
  <1>6. c \in Channel /\ p \in Nat /\ t \in Nat /\ w \in BOOLEAN
        /\ c2 = [c EXCEPT !.pending_cnt = p, !.pending_retro_cnt = t, !.bWait = FALSE,
                          !.stopZslSnapshot = FALSE, !.needLEDFlash = w]
    BY <1>1, <1>3, <1>4, <1>5
  <1> HIDE DEF c2, d
  <1>7. c2 \in Channel
    BY <1>6 DEF Channel
  <1>8. /\ c2.que = c.que /\ c2.match_cnt = c.match_cnt /\ c2.spins = c.spins
        /\ ~c2.bWait /\ c2.pending_cnt = p /\ c2.pending_retro_cnt = t
        /\ c2.startZSl = c.startZSl /\ c2.burstSnapNum = c.burstSnapNum /\ ~c2.stopZslSnapshot
    BY <1>6 DEF Channel
  <1>9. Good(c2)
    BY <1>4, <1>7, <1>8 DEF Good, GoodQueue, GoodRequest
  <1>10. look_back \in Nat
    BY ConstantTypes
  <1>11. Good(DropUntil(c2, look_back)) /\ BuffersOf(DropUntil(c2, look_back).que) \subseteq BuffersOf(c2.que)
    BY <1>9, <1>10, DropFacts
  <1>12. Good(d) /\ BuffersOf(d.que) \subseteq BuffersOf(c.que)
    BY <1>2, <1>8, <1>9, <1>11
  <1> QED
    BY <1>12 DEF d

\* The flash goes on with a request that has pictures to come, and off with none or
\* when the burst is told to stop.
LEMMA SwitchFacts ==
    ASSUME NEW c, Good(c)
    PROVE  Good(SwitchZsl(c)) /\ SwitchZsl(c).que = c.que /\ Lit(SwitchZsl(c))
  <1> DEFINE d == SwitchZsl(c)
             goesOn == /\ c.pending_cnt > 0 /\ (c.needLEDFlash \/ c.bracketingState # "OFF")
                       /\ ~c.startZSl
             goesOff == (c.pending_cnt = 0 \/ c.stopZslSnapshot) /\ c.startZSl
  <1>1. c \in Channel /\ c.pending_cnt \in Nat /\ (c.stopZslSnapshot => c.startZSl)
        /\ (c.burstSnapNum > 0 <=> c.startZSl)
    BY DEF Good, GoodQueue, GoodRequest, Channel
  <1>2. CASE goesOn
    <2>1. d = [c EXCEPT !.startZSl = TRUE, !.burstSnapNum = c.pending_cnt, !.bWait = FALSE]
      BY <1>2 DEF SwitchZsl
    <2> HIDE DEF d
    <2>2. d \in Channel
      BY <1>1, <2>1 DEF Channel
    <2>3. /\ d.que = c.que /\ d.match_cnt = c.match_cnt /\ d.spins = c.spins /\ ~d.bWait
          /\ d.pending_cnt = c.pending_cnt /\ d.pending_retro_cnt = c.pending_retro_cnt
          /\ d.startZSl /\ d.burstSnapNum = c.pending_cnt
          /\ d.stopZslSnapshot = c.stopZslSnapshot
      BY <1>1, <2>1 DEF Channel
    <2>4. Good(d)
      BY <1>2, <2>2, <2>3 DEF Good, GoodQueue, GoodRequest
    <2>5. Lit(d)
      BY <1>1, <1>2, <2>3 DEF Lit
    <2> QED
      BY <2>3, <2>4, <2>5 DEF d
  <1>3. CASE goesOff
    <2>1. d = [c EXCEPT !.startZSl = FALSE, !.needLEDFlash = FALSE, !.burstSnapNum = 0,
                        !.stopZslSnapshot = FALSE, !.bracketingState = "OFF", !.bWait = FALSE]
      BY <1>1, <1>3 DEF SwitchZsl, ZslStopped, Channel
    <2> HIDE DEF d
    <2>2. d \in Channel
      BY <1>1, <2>1 DEF Channel
    <2>3. /\ d.que = c.que /\ d.match_cnt = c.match_cnt /\ d.spins = c.spins /\ ~d.bWait
          /\ d.pending_cnt = c.pending_cnt /\ d.pending_retro_cnt = c.pending_retro_cnt
          /\ ~d.startZSl /\ d.burstSnapNum = 0 /\ ~d.stopZslSnapshot
          /\ ~d.needLEDFlash /\ d.bracketingState = "OFF"
      BY <1>1, <2>1 DEF Channel
    <2>4. Good(d)
      BY <2>2, <2>3 DEF Good, GoodQueue, GoodRequest
    <2>5. Lit(d)
      BY <2>3 DEF Lit
    <2> QED
      BY <2>3, <2>4, <2>5 DEF d
  <1>4. CASE ~goesOn /\ ~goesOff
    <2>1. d = c
      BY <1>4 DEF SwitchZsl
    <2>2. Lit(c)
      BY <1>1, <1>4 DEF Lit
    <2> QED
      BY <2>1, <2>2
  <1> QED
    BY <1>2, <1>3, <1>4

\* No more goes out than is complete, and than is requested.
LEMMA DueFacts ==
    ASSUME NEW c, Good(c)
    PROVE  /\ Due(c) \in Nat /\ Due(c) <= c.match_cnt
           /\ ~Continuous => /\ Due(c) <= c.pending_cnt
                             /\ c.pending_retro_cnt > 0 => Due(c) <= c.pending_retro_cnt
           /\ Continuous => Due(c) = c.match_cnt
  <1> DEFINE ready == MatchedHead(c.que)
             most == IF c.pending_retro_cnt > 0 THEN c.pending_retro_cnt ELSE c.pending_cnt
  <1>1. /\ c.que \in Seq(Node) /\ Sorted(c.que, c.match_cnt) /\ ~c.spins
        /\ c.pending_cnt \in Nat /\ c.pending_retro_cnt \in Nat
        /\ c.pending_retro_cnt <= c.pending_cnt /\ (Continuous => ~c.bWait)
    BY DEF Good, GoodQueue, GoodRequest, Channel
  <1>2. ready = c.match_cnt /\ c.match_cnt \in Nat
    BY <1>1, QueueFacts
  <1>3. most \in Nat /\ most <= c.pending_cnt
    BY <1>1
  <1>4. c.pending_retro_cnt > 0 => most = c.pending_retro_cnt
    OBVIOUS
  <1>5. Due(c) = IF c.spins \/ c.bWait THEN 0
                 ELSE IF Continuous \/ ready < most THEN ready ELSE most
    BY DEF Due
  <1> HIDE DEF ready, most
  <1>6. CASE Continuous
    BY <1>1, <1>2, <1>5, <1>6
  <1>7. CASE ~Continuous
    BY <1>1, <1>2, <1>3, <1>4, <1>5, <1>7
  <1> QED
    BY <1>6, <1>7

\* What goes to the client comes off the complete head, and the flash goes out with
\* the last of it.
LEMMA HandOverFacts ==
    ASSUME NEW c, Good(c), Lit(c),
           ~Continuous => c.match_cnt <= water_mark
    PROVE  LET d == HandOver(c, Due(c)) IN
           /\ Good(d) /\ d.que = SubSeq(c.que, Due(c) + 1, Len(c.que))
           /\ d.match_cnt <= water_mark
           /\ Lit(d)
  <1> DEFINE d == HandOver(c, Due(c))
             q == c.que
             pending(n) == IF Continuous THEN c.pending_cnt ELSE c.pending_cnt - n
             retro(n) == IF Continuous \/ c.pending_retro_cnt = 0 THEN c.pending_retro_cnt
                         ELSE c.pending_retro_cnt - n
             off(n) == /\ ~Continuous /\ n > 0 /\ (pending(n) = 0 \/ c.stopZslSnapshot)
                       /\ c.startZSl
             wait(n) == c.bWait \/ (c.pending_retro_cnt > 0 /\ retro(n) = 0 /\ n > 0)
  <1>1. /\ c \in Channel /\ c.que \in Seq(Node) /\ Sorted(c.que, c.match_cnt) /\ ~c.spins
        /\ Len(c.que) - c.match_cnt <= max_unmatched_frames + 1
        /\ c.pending_cnt \in Nat /\ c.pending_retro_cnt \in Nat
        /\ c.pending_retro_cnt <= c.pending_cnt /\ (Continuous => ~c.bWait)
        /\ (c.burstSnapNum > 0 <=> c.startZSl) /\ ~c.stopZslSnapshot
        /\ (c.startZSl => c.pending_cnt > 0)
        /\ (c.pending_cnt > 0 /\ (c.needLEDFlash \/ c.bracketingState # "OFF") => c.startZSl)
    BY DEF Good, GoodQueue, GoodRequest, Channel, Lit
  <1>2. PICK n \in Nat : n = Due(c)
    BY DueFacts
  <1>3. /\ n <= c.match_cnt
        /\ ~Continuous => /\ n <= c.pending_cnt
                          /\ c.pending_retro_cnt > 0 => n <= c.pending_retro_cnt
        /\ Continuous => n = c.match_cnt
    BY <1>2, DueFacts
  <1>4. Len(c.que) \in Nat /\ c.match_cnt \in Nat /\ c.match_cnt <= Len(c.que)
    BY <1>1, QueueFacts
  <1>5. PICK r : r = SubSeq(c.que, n + 1, Len(c.que))
    OBVIOUS
  <1>6. r \in Seq(Node) /\ Len(r) = Len(c.que) - n /\ Sorted(r, c.match_cnt - n)
    BY <1>1, <1>3, <1>5, TailFacts
  <1>7. PICK k \in Int : k = c.match_cnt - n
    BY <1>4
  <1>8. PICK p \in Nat : p = pending(n)
    <2>1. pending(n) \in Nat
      BY <1>1, <1>3
    <2> QED
      BY <2>1
  <1>9. PICK t \in Nat : t = retro(n)
    <2>1. CASE Continuous \/ c.pending_retro_cnt = 0
      BY <1>1, <2>1
    <2>2. CASE ~(Continuous \/ c.pending_retro_cnt = 0)
      <3>1. c.pending_retro_cnt - n \in Nat
        BY <1>1, <1>3, <2>2
      <3> QED
        BY <2>2, <3>1
    <2> QED
      BY <2>1, <2>2
  <1>10. t <= p
    <2>1. CASE Continuous
      BY <1>1, <1>8, <1>9, <2>1
    <2>2. CASE ~Continuous /\ c.pending_retro_cnt = 0
      BY <1>8, <1>9, <2>2
    <2>3. CASE ~Continuous /\ c.pending_retro_cnt # 0
      BY <1>1, <1>8, <1>9, <2>3
    <2> QED
      BY <2>1, <2>2, <2>3
  <1>11. PICK w \in BOOLEAN : w = wait(n)
    OBVIOUS
  <1> DEFINE c2 == [c EXCEPT !.que = r, !.match_cnt = k, !.pending_cnt = p,
                             !.pending_retro_cnt = t, !.bWait = w]
  <1>12. d = IF off(n) THEN ZslStopped(c2) ELSE c2
    <2> DEFINE e == [c EXCEPT !.que = SubSeq(@, n + 1, Len(@)), !.match_cnt = @ - n,
                              !.pending_cnt = pending(n), !.pending_retro_cnt = retro(n),
                              !.bWait = @ \/ (c.pending_retro_cnt > 0 /\ retro(n) = 0 /\ n > 0)]
    <2>1. c2 = e
      <3>1. c \in Channel
        BY <1>1
      <3> QED
        BY <1>5, <1>7, <1>8, <1>9, <1>11, <3>1 DEF Channel
    <2>2. d = HandOver(c, n)
      BY <1>2
    <2>3. HandOver(c, n) = IF off(n) THEN ZslStopped(e) ELSE e
      BY DEF HandOver
    <2> HIDE DEF d, c2, e
    <2> QED
      BY <2>1, <2>2, <2>3
  <1>15. Continuous => ~w
    <2> SUFFICES ASSUME Continuous PROVE ~w
      OBVIOUS
    <2>1. retro(n) = c.pending_retro_cnt /\ ~c.bWait
      BY <1>1
    <2>2. ~wait(n)
      BY <1>1, <2>1
    <2> QED
      BY <1>11, <2>2
  <1>16. /\ ~Continuous /\ n > 0 /\ p = 0 /\ c.startZSl => off(n)
         /\ off(n) => p = 0
         /\ p <= c.pending_cnt /\ (p = 0 => c.pending_cnt = 0 \/ (~Continuous /\ n > 0))
    BY <1>1, <1>8
  <1>17. k <= water_mark
    <2>1. CASE Continuous
      BY <1>3, <1>4, <1>7, <2>1, ConstantTypes
    <2>2. CASE ~Continuous
      BY <1>3, <1>4, <1>7, <2>2, ConstantTypes
    <2> QED
      BY <2>1, <2>2
  <1>18. /\ c \in Channel /\ r \in Seq(Node) /\ k \in Int /\ p \in Nat /\ t \in Nat
         /\ w \in BOOLEAN
    BY <1>1, <1>6
  <1> HIDE DEF d, pending, retro, off, wait
  <1>19. /\ c2 \in Channel
         /\ c2.que = r /\ c2.match_cnt = k /\ c2.pending_cnt = p /\ c2.pending_retro_cnt = t
         /\ c2.bWait = w /\ c2.spins = c.spins /\ c2.startZSl = c.startZSl
         /\ c2.burstSnapNum = c.burstSnapNum /\ c2.stopZslSnapshot = c.stopZslSnapshot
         /\ c2.needLEDFlash = c.needLEDFlash /\ c2.bracketingState = c.bracketingState
    BY <1>18 DEF Channel
  <1> HIDE DEF c2
  <1>20. /\ d \in Channel
         /\ d.que = r /\ d.match_cnt = k /\ d.pending_cnt = p /\ d.pending_retro_cnt = t
         /\ d.bWait = w /\ d.spins = c.spins
         /\ d.burstSnapNum > 0 <=> d.startZSl
         /\ ~d.stopZslSnapshot /\ Lit(d)
    <2>1. CASE off(n)
      <3>1. d = [c2 EXCEPT !.startZSl = FALSE, !.needLEDFlash = FALSE, !.burstSnapNum = 0,
                           !.stopZslSnapshot = FALSE, !.bracketingState = "OFF"]
        BY <1>12, <2>1 DEF ZslStopped
      <3>2. /\ d \in Channel
            /\ d.que = r /\ d.match_cnt = k /\ d.pending_cnt = p /\ d.pending_retro_cnt = t
            /\ d.bWait = w /\ d.spins = c.spins
            /\ ~d.startZSl /\ d.burstSnapNum = 0 /\ ~d.stopZslSnapshot
            /\ ~d.needLEDFlash /\ d.bracketingState = "OFF"
        BY <1>19, <3>1 DEF Channel
      <3> QED
        BY <3>2 DEF Lit
    <2>2. CASE ~off(n)
      <3>1. d = c2
        BY <1>12, <2>2
      <3>2. c.startZSl => p > 0
        BY <1>1, <1>16, <1>18, <2>2
      <3>3. Lit(d)
        BY <1>1, <1>16, <1>18, <1>19, <3>1, <3>2 DEF Lit
      <3> QED
        BY <1>1, <1>19, <3>1, <3>3
    <2> QED
      BY <2>1, <2>2
  <1>21. Len(r) - k <= max_unmatched_frames + 1
    BY <1>1, <1>4, <1>6, <1>7, ConstantTypes
  <1>22. Good(d)
    BY <1>1, <1>6, <1>7, <1>10, <1>15, <1>20, <1>21 DEF Good, GoodQueue, GoodRequest
  <1> QED
    BY <1>2, <1>5, <1>17, <1>20, <1>22 DEF d

\* Two queues in a row ascend when each does and the first ends before the second.
LEMMA OrderSplits ==
    ASSUME NEW a \in Seq(Node), NEW b \in Seq(Node)
    PROVE  InOrder(a \o b) <=>
              /\ \A i, j \in 1 .. Len(a) : i < j => a[i].frame < a[j].frame
              /\ \A i, j \in 1 .. Len(b) : i < j => b[i].frame < b[j].frame
              /\ \A i \in 1 .. Len(a), j \in 1 .. Len(b) : a[i].frame < b[j].frame
  <1> DEFINE r == a \o b
             A == Len(a)
             B == Len(b)
  <1>1. A \in Nat /\ B \in Nat
    BY LenProperties
  <1>2. /\ r \in Seq(Node) /\ Len(r) = A + B
        /\ \A k \in 1 .. A + B : r[k] = IF k <= A THEN a[k] ELSE b[k - A]
    BY ConcatProperties
  <1>3. DOMAIN r = 1 .. A + B
    BY <1>2, LenProperties
  <1> HIDE DEF r, A, B
  <1>4. ASSUME InOrder(r)
        PROVE  /\ \A i, j \in 1 .. A : i < j => a[i].frame < a[j].frame
               /\ \A i, j \in 1 .. B : i < j => b[i].frame < b[j].frame
               /\ \A i \in 1 .. A, j \in 1 .. B : a[i].frame < b[j].frame
    <2>1. \A i, j \in 1 .. A + B : i < j => r[i].frame < r[j].frame
      BY <1>3, <1>4 DEF InOrder
    <2>2. \A i \in 1 .. A : i \in 1 .. A + B /\ r[i] = a[i]
      BY <1>1, <1>2
    <2>3. \A i \in 1 .. B : i + A \in 1 .. A + B /\ r[i + A] = b[i]
      <3> TAKE i \in 1 .. B
      <3>1. i + A \in 1 .. A + B
        BY <1>1
      <3>2. PICK k \in 1 .. A + B : k = i + A
        BY <3>1
      <3>3. ~(k <= A) /\ k - A = i
        BY <1>1, <3>2
      <3>4. r[k] = b[i]
        BY <1>2, <3>3
      <3> QED
        BY <3>1, <3>2, <3>4
    <2>4. \A i, j \in 1 .. A : i < j => a[i].frame < a[j].frame
      BY <2>1, <2>2
    <2>5. \A i, j \in 1 .. B : i < j => b[i].frame < b[j].frame
      <3> TAKE i, j \in 1 .. B
      <3> HAVE i < j
      <3>1. i + A < j + A
        BY <1>1
      <3> QED
        BY <2>1, <2>3, <3>1
    <2>6. \A i \in 1 .. A, j \in 1 .. B : a[i].frame < b[j].frame
      <3> TAKE i \in 1 .. A, j \in 1 .. B
      <3>1. i < j + A
        BY <1>1
      <3> QED
        BY <2>1, <2>2, <2>3, <3>1
    <2> QED
      BY <2>4, <2>5, <2>6
  <1>5. ASSUME \A i, j \in 1 .. A : i < j => a[i].frame < a[j].frame,
               \A i, j \in 1 .. B : i < j => b[i].frame < b[j].frame,
               \A i \in 1 .. A, j \in 1 .. B : a[i].frame < b[j].frame
        PROVE  InOrder(r)
    <2>1. ASSUME NEW i \in 1 .. A + B, NEW j \in 1 .. A + B, i < j
          PROVE  r[i].frame < r[j].frame
      <3>1. CASE j <= A
        <4>1. i \in 1 .. A /\ j \in 1 .. A /\ i <= A
          BY <1>1, <2>1, <3>1
        <4> QED
          BY <1>2, <1>5, <2>1, <3>1, <4>1
      <3>2. CASE i <= A /\ j > A
        <4>1. i \in 1 .. A /\ j - A \in 1 .. B /\ ~(j <= A)
          BY <1>1, <3>2
        <4>2. r[i] = a[i] /\ r[j] = b[j - A]
          BY <1>2, <3>2, <4>1
        <4> QED
          BY <1>5, <4>1, <4>2
      <3>3. CASE i > A
        <4>1. i - A \in 1 .. B /\ j - A \in 1 .. B /\ i - A < j - A /\ ~(i <= A) /\ ~(j <= A)
          BY <1>1, <2>1, <3>3
        <4>2. r[i] = b[i - A] /\ r[j] = b[j - A]
          BY <1>2, <4>1
        <4> QED
          BY <1>5, <4>1, <4>2
      <3> QED
        BY <1>1, <2>1, <3>1, <3>2, <3>3
    <2> QED
      BY <1>3, <2>1 DEF InOrder
  <1> QED
    BY <1>4, <1>5 DEF r, A, B

\* What the command thread does after a command but a flush.
Served(brought, out) ==
    /\ Good(ch') /\ ch'.match_cnt <= water_mark /\ Lit(ch')
    /\ out \in Seq(Node) /\ cb_queue' = cb_queue \o out
    /\ \A i \in 1 .. Len(out) : out[i].has = Streams
    /\ InOrder(out \o ch'.que)
    /\ BuffersOf(out) \cup BuffersOf(ch'.que) \subseteq BuffersOf(ch.que) \cup brought
    /\ BuffersOf(out) \cap BuffersOf(ch'.que) = {}
    /\ GiveBack((BuffersOf(ch.que) \cup brought) \ (BuffersOf(ch'.que) \cup BuffersOf(out)))

\* mm_channel_process_stream_buf after its command: the queue stays good,
\* the client gets complete frames older than the rest, the kernel what nobody has.
LEMMA ServesFacts ==
    ASSUME NEW c, Good(c), NEW brought, Serves(c, brought),
           BuffersOf(c.que) \subseteq BuffersOf(ch.que) \cup brought
    PROVE  \E out : Served(brought, out)
  <1> DEFINE d == SwitchZsl(c)
             e == DropUntil(d, water_mark)
  <1>1. Good(d) /\ d.que = c.que /\ Lit(d)
    BY SwitchFacts
  <1>2. /\ Good(e) /\ e.match_cnt <= water_mark /\ BuffersOf(e.que) \subseteq BuffersOf(d.que)
        /\ Lit(e)
    <2> HIDE DEF d
    <2>1. water_mark \in Nat
      BY ConstantTypes
    <2> QED
      BY <1>1, <2>1, DropFacts
  <1>3. PICK c2 : c2 = IF Continuous THEN d ELSE e
    OBVIOUS
  <1>4. /\ ch' = HandOver(c2, Due(c2))
        /\ cb_queue' = cb_queue \o SubSeq(c2.que, 1, Due(c2))
        /\ GiveBack((BuffersOf(ch.que) \cup brought)
                    \ (BuffersOf(ch'.que) \cup BuffersOf(SubSeq(c2.que, 1, Due(c2)))))
    BY <1>3 DEF Serves
  <1> HIDE DEF d, e
  <1>5. /\ Good(c2) /\ Lit(c2)
        /\ ~Continuous => c2.match_cnt <= water_mark
        /\ BuffersOf(c2.que) \subseteq BuffersOf(ch.que) \cup brought
    BY <1>1, <1>2, <1>3
  <1>6. /\ Good(ch') /\ ch'.que = SubSeq(c2.que, Due(c2) + 1, Len(c2.que))
        /\ ch'.match_cnt <= water_mark /\ Lit(ch')
    BY <1>4, <1>5, HandOverFacts
  <1>7. PICK n \in Nat : n = Due(c2) /\ n <= c2.match_cnt
    BY <1>5, DueFacts
  <1>8. c2.que \in Seq(Node) /\ Sorted(c2.que, c2.match_cnt)
    BY <1>5 DEF Good, GoodQueue, Channel
  <1> DEFINE q == c2.que
             r == SubSeq(q, n + 1, Len(q))
             o == SubSeq(q, 1, n)
  <1>9. /\ r \in Seq(Node) /\ Len(r) = Len(q) - n
        /\ \A i \in 1 .. Len(q) - n : r[i] = q[i + n]
        /\ o \in Seq(Node) /\ Len(o) = n
        /\ \A i \in 1 .. n : o[i] = q[i] /\ q[i].has = Streams
        /\ BuffersOf(q) = BuffersOf(r) \cup BuffersOf(o)
        /\ BuffersOf(r) \cap BuffersOf(o) = {}
    BY <1>7, <1>8, TailFacts
  <1>10. ch'.que = r /\ cb_queue' = cb_queue \o o
         /\ GiveBack((BuffersOf(ch.que) \cup brought) \ (BuffersOf(ch'.que) \cup BuffersOf(o)))
    BY <1>4, <1>6, <1>7
  <1>11. Len(q) \in Nat /\ c2.match_cnt <= Len(q) /\ c2.match_cnt \in Nat
    BY <1>8, QueueFacts
  <1>12. \A i, j \in 1 .. Len(q) : i < j => q[i].frame < q[j].frame
    BY <1>8 DEF Sorted
  <1> HIDE DEF r, o, q
  <1>13. InOrder(o \o r)
    <2>1. \A i, j \in 1 .. Len(o) : i < j => o[i].frame < o[j].frame
      <3> TAKE i, j \in 1 .. Len(o)
      <3>1. i \in 1 .. Len(q) /\ j \in 1 .. Len(q) /\ i \in 1 .. n /\ j \in 1 .. n
        BY <1>7, <1>9, <1>11
      <3> QED
        BY <1>9, <1>12, <3>1
    <2>2. \A i, j \in 1 .. Len(r) : i < j => r[i].frame < r[j].frame
      <3> TAKE i, j \in 1 .. Len(r)
      <3> HAVE i < j
      <3>1. i + n \in 1 .. Len(q) /\ j + n \in 1 .. Len(q) /\ i + n < j + n
            /\ i \in 1 .. Len(q) - n /\ j \in 1 .. Len(q) - n
        BY <1>7, <1>9, <1>11
      <3> QED
        BY <1>9, <1>12, <3>1
    <2>3. \A i \in 1 .. Len(o), j \in 1 .. Len(r) : o[i].frame < r[j].frame
      <3> TAKE i \in 1 .. Len(o), j \in 1 .. Len(r)
      <3>1. i \in 1 .. Len(q) /\ i \in 1 .. n /\ j + n \in 1 .. Len(q) /\ i < j + n
            /\ j \in 1 .. Len(q) - n
        BY <1>7, <1>9, <1>11
      <3> QED
        BY <1>9, <1>12, <3>1
    <2> QED
      BY <1>9, <2>1, <2>2, <2>3, OrderSplits
  <1>14. \A i \in 1 .. Len(o) : o[i].has = Streams
    BY <1>9
  <1>15. BuffersOf(o) \cup BuffersOf(ch'.que) \subseteq BuffersOf(ch.que) \cup brought
    BY <1>5, <1>9, <1>10 DEF q
  <1>16. BuffersOf(o) \cap BuffersOf(ch'.que) = {}
    BY <1>9, <1>10
  <1>17. InOrder(o \o ch'.que)
    BY <1>10, <1>13
  <1>18. Served(brought, o)
    BY <1>6, <1>9, <1>10, <1>14, <1>15, <1>16, <1>17 DEF Served
  <1> QED
    BY <1>18

\* The buffers of a set of pairs are finite.
LEMMA PairsAreFinite ==
    ASSUME NEW G \in SUBSET (Streams \X Frames)
    PROVE  IsFiniteSet(G) /\ Cardinality(G) \in Nat
  <1>1. IsFiniteSet(Streams) /\ IsFiniteSet(Frames)
    BY ConstantTypes, FS_Interval DEF Frames
  <1>2. IsFiniteSet(Streams \X Frames)
    BY <1>1, FS_Product
  <1> QED
    BY <1>2, FS_Subset, FS_CardinalityType

\* mm_channel_qbuf keeps the counts integers and starts and stops no stream.
LEMMA GiveBackTypes ==
    ASSUME TypeOK, NEW G \in SUBSET (Streams \X Frames), GiveBack(G)
    PROVE  /\ buf_refcnt' \in [Streams -> [Frames -> Int]]
           /\ queued_buffer_count' \in [Streams -> Int]
           /\ state' = state
  <1> DEFINE taken == {b \in G : state[b[1]] # "REG" /\ buf_refcnt[b[1]][b[2]] > 0}
             back(s) == {b \in taken : b[1] = s /\ buf_refcnt[s][b[2]] = 1}
             less(s, f) == IF <<s, f>> \in taken THEN 1 ELSE 0
  <1>1. /\ buf_refcnt' = [s \in Streams |-> [f \in Frames |-> buf_refcnt[s][f] - less(s, f)]]
        /\ queued_buffer_count' = [s \in Streams |-> queued_buffer_count[s] + Cardinality(back(s))]
        /\ state' = state
    BY DEF GiveBack
  <1>2. \A s \in Streams : Cardinality(back(s)) \in Nat
    <2> TAKE s \in Streams
    <2>1. back(s) \in SUBSET (Streams \X Frames)
      OBVIOUS
    <2> QED
      BY <2>1, PairsAreFinite
  <1>3. \A s \in Streams, f \in Frames : less(s, f) \in Int
    OBVIOUS
  <1> HIDE DEF back, less
  <1>4. buf_refcnt' \in [Streams -> [Frames -> Int]]
    BY <1>1, <1>3 DEF TypeOK
  <1>5. queued_buffer_count' \in [Streams -> Int]
    BY <1>1, <1>2 DEF TypeOK
  <1> QED
    BY <1>1, <1>4, <1>5

\* The queue of commands, and what the streams have seen last.
Taken == cmd_queue # <<>> /\ cmd_queue' = Tail(cmd_queue) /\ last' = last
Asked(x) == x \in Command /\ x.type # "DATA" /\ cmd_queue' = Append(cmd_queue, x) /\ last' = last
Arrived(x) ==
    /\ x \in DataCommand /\ x.frame > last[x.stream]
    /\ cmd_queue' = Append(cmd_queue, x)
    /\ last' = [last EXCEPT ![x.stream] = x.frame]

CommandStep ==
    \/ cmd_queue' = cmd_queue /\ last' = last
    \/ Taken
    \/ \E x : Asked(x) \/ Arrived(x)

\* Each step leaves the commands, takes the first, or appends one.
LEMMA NextCommands ==
    ASSUME TypeOK, Next
    PROVE  CommandStep
  <1>1. ASSUME NEW s \in Streams, NEW f \in Frames, NEW news \in News,
               FrameArrives(s, f, news)
        PROVE  CommandStep
    <2> DEFINE x == [type |-> "DATA", stream |-> s, frame |-> f, news |-> news]
    <2>2. x \in DataCommand /\ x.stream = s /\ x.frame = f
      BY DEF DataCommand
    <2>3. f > last[s] /\ cmd_queue' = Append(cmd_queue, x) /\ last' = [last EXCEPT ![s] = f]
      BY <1>1 DEF FrameArrives
    <2> HIDE DEF x
    <2>4. Arrived(x)
      BY <2>2, <2>3 DEF Arrived
    <2> QED
      BY <2>4 DEF CommandStep
  <1>2. ASSUME NEW r \in Requests, RequestSuperBuf(r) PROVE CommandStep
    <2> DEFINE x == [type |-> "REQ", num |-> r.num, retro |-> r.retro]
    <2>1. r \in [num : Nat, retro : Nat]
      BY ConstantTypes
    <2>2. x \in Command /\ x.type # "DATA"
      BY <2>1 DEF Command
    <2>3. cmd_queue' = Append(cmd_queue, x) /\ last' = last
      BY <1>2 DEF RequestSuperBuf
    <2> HIDE DEF x
    <2>4. Asked(x)
      BY <2>2, <2>3 DEF Asked
    <2> QED
      BY <2>4 DEF CommandStep
  <1>3. ASSUME NEW f \in Nat, cmd_queue' = Append(cmd_queue, [type |-> "FLUSH", frame |-> f]),
               last' = last
        PROVE  CommandStep
    <2> DEFINE x == [type |-> "FLUSH", frame |-> f]
    <2>1. x \in Command /\ x.type # "DATA"
      BY DEF Command
    <2>2. cmd_queue' = Append(cmd_queue, x)
      BY <1>3
    <2> HIDE DEF x
    <2>3. Asked(x)
      BY <1>3, <2>1, <2>2 DEF Asked
    <2> QED
      BY <2>3 DEF CommandStep
  <1>4. ASSUME NEW f \in Flushes, FlushBegins(f) PROVE CommandStep
    <2>1. f \in Nat
      BY ConstantTypes
    <2> QED
      BY <1>3, <1>4, <2>1 DEF FlushBegins
  <1>5. CASE StopFlushes
    BY <1>3, <1>5 DEF StopFlushes
  <1>6. CASE ProcessStreamBuf
    BY <1>6 DEF ProcessStreamBuf, CommandStep, Taken
  <1>7. ASSUME NEW s \in Watched, DispatchAppData(s) PROVE CommandStep
    BY <1>7 DEF DispatchAppData, CommandStep
  <1>8. ASSUME NEW h \in held, BufDone(h) PROVE CommandStep
    BY <1>8 DEF BufDone, CommandStep
  <1>9. ASSUME NEW s \in Streams, StartStream(s) \/ StreamOff(s) \/ StreamStops(s) PROVE CommandStep
    BY <1>9 DEF StartStream, StreamOff, StreamStops, CommandStep
  <1>10. CASE DispatchSuperBuf \/ FlushReturns \/ StopBegins \/ StopReturns \/ Stopped
    BY <1>10 DEF DispatchSuperBuf, FlushReturns, StopBegins, StopReturns, Stopped, CommandStep, vars
  <1> QED
    BY <1>1, <1>2, <1>4, <1>5, <1>6, <1>7, <1>8, <1>9, <1>10 DEF Next

\* What has been brought stays brought, whatever the step.
LEMMA PastStays ==
    ASSUME TypeOK, CommandsAscend, CommandStep
    PROVE  /\ cmd_queue' \in Seq(Command) /\ last' \in [Streams -> Nat]
           /\ CommandsAscend'
           /\ \A s \in Streams, f \in Frames : IsPast(s, f) => IsPast(s, f)'
           /\ \A s \in Streams : last[s] <= last'[s]
  <1>0. /\ cmd_queue \in Seq(Command) /\ Len(cmd_queue) \in Nat
        /\ DOMAIN cmd_queue = 1 .. Len(cmd_queue)
        /\ \A i \in 1 .. Len(cmd_queue) : cmd_queue[i] \in Command
        /\ \A s \in Streams : last[s] \in Nat
    BY LenProperties, ElementOfSeq DEF TypeOK
  <1>1. CASE cmd_queue' = cmd_queue /\ last' = last
    BY <1>0, <1>1 DEF CommandsAscend, IsPast, TypeOK
  <1>2. CASE Taken
    <2>1. /\ cmd_queue' \in Seq(Command) /\ Len(cmd_queue') = Len(cmd_queue) - 1
          /\ \A i \in 1 .. Len(cmd_queue') : cmd_queue'[i] = cmd_queue[i + 1]
          /\ last' = last
      BY <1>0, <1>2, HeadTailProperties DEF Taken
    <2>2. DOMAIN cmd_queue' = 1 .. Len(cmd_queue')
      BY <2>1, LenProperties
    <2>3. \A i \in DOMAIN cmd_queue' : i + 1 \in DOMAIN cmd_queue /\ cmd_queue'[i] = cmd_queue[i + 1]
      BY <1>0, <2>1, <2>2
    <2>4. CommandsAscend'
      <3>1. ASSUME NEW s \in Streams, NEW i \in DOMAIN cmd_queue', Brings(cmd_queue'[i], s)
            PROVE  cmd_queue'[i].frame <= last'[s]
        BY <2>1, <2>3, <3>1 DEF CommandsAscend
      <3>2. ASSUME NEW s \in Streams, NEW i \in DOMAIN cmd_queue', NEW j \in DOMAIN cmd_queue',
                   i < j, Brings(cmd_queue'[i], s), Brings(cmd_queue'[j], s)
            PROVE  cmd_queue'[i].frame < cmd_queue'[j].frame
        <4>1. i + 1 < j + 1
          BY <2>2, <3>2
        <4> QED
          BY <2>3, <3>2, <4>1 DEF CommandsAscend
      <3> QED
        BY <3>1, <3>2 DEF CommandsAscend
    <2>5. \A s \in Streams, f \in Frames : IsPast(s, f) => IsPast(s, f)'
      BY <2>1, <2>3 DEF IsPast
    <2> QED
      BY <1>0, <2>1, <2>4, <2>5 DEF TypeOK
  <1>3. ASSUME NEW x, x \in Command, cmd_queue' = Append(cmd_queue, x),
               last' \in [Streams -> Nat], \A s \in Streams : last[s] <= last'[s],
               \A s \in Streams : Brings(x, s) =>
                  x.frame \in Nat /\ x.frame > last[s] /\ x.frame <= last'[s]
        PROVE  /\ cmd_queue' \in Seq(Command)
               /\ CommandsAscend'
               /\ \A s \in Streams, f \in Frames : IsPast(s, f) => IsPast(s, f)'
    <2> DEFINE n == Len(cmd_queue)
    <2>1. /\ cmd_queue' \in Seq(Command) /\ Len(cmd_queue') = n + 1
          /\ \A i \in 1 .. n : cmd_queue'[i] = cmd_queue[i]
          /\ cmd_queue'[n + 1] = x
      BY <1>0, <1>3, AppendProperties
    <2>2. DOMAIN cmd_queue' = 1 .. n + 1
      BY <2>1, LenProperties
    <2>3. \A s \in Streams : last'[s] \in Nat /\ last[s] \in Nat /\ last[s] <= last'[s]
      BY <1>0, <1>3
    <2>4. n \in Nat
      BY <1>0
    <2>5. \A s \in Streams, i \in 1 .. n : Brings(cmd_queue[i], s) =>
             cmd_queue[i].frame \in Nat /\ cmd_queue[i].frame <= last[s]
      <3> TAKE s \in Streams, i \in 1 .. n
      <3> HAVE Brings(cmd_queue[i], s)
      <3>1. cmd_queue[i] \in Command /\ cmd_queue[i].type = "DATA" /\ i \in DOMAIN cmd_queue
        BY <1>0 DEF Brings
      <3>2. cmd_queue[i] \in DataCommand
        BY <3>1 DEF Command
      <3>3. cmd_queue[i].frame \in Frames
        BY <3>2 DEF DataCommand
      <3> QED
        BY <3>1, <3>3, ConstantTypes DEF CommandsAscend, Frames
    <2> HIDE DEF n
    <2>6. ASSUME NEW i \in DOMAIN cmd_queue' PROVE (i \in 1 .. n /\ cmd_queue'[i] = cmd_queue[i]) \/ (i = n + 1 /\ cmd_queue'[i] = x)
      BY <2>1, <2>2, <2>4
    <2>7. CommandsAscend'
      <3>1. ASSUME NEW s \in Streams, NEW i \in DOMAIN cmd_queue', Brings(cmd_queue'[i], s)
            PROVE  cmd_queue'[i].frame <= last'[s]
        <4>1. CASE i \in 1 .. n /\ cmd_queue'[i] = cmd_queue[i]
          BY <2>3, <2>5, <3>1, <4>1
        <4>2. CASE i = n + 1 /\ cmd_queue'[i] = x
          BY <1>3, <3>1, <4>2
        <4> QED
          BY <2>6, <4>1, <4>2
      <3>2. ASSUME NEW s \in Streams, NEW i \in DOMAIN cmd_queue', NEW j \in DOMAIN cmd_queue',
                   i < j, Brings(cmd_queue'[i], s), Brings(cmd_queue'[j], s)
            PROVE  cmd_queue'[i].frame < cmd_queue'[j].frame
        <4>1. i \in 1 .. n /\ cmd_queue'[i] = cmd_queue[i]
          BY <2>2, <2>4, <2>6, <3>2
        <4>2. CASE j \in 1 .. n /\ cmd_queue'[j] = cmd_queue[j]
          BY <1>0, <3>2, <4>1, <4>2 DEF CommandsAscend, n
        <4>3. CASE j = n + 1 /\ cmd_queue'[j] = x
          <5>1. cmd_queue[i].frame \in Nat /\ cmd_queue[i].frame <= last[s]
            BY <2>5, <3>2, <4>1
          <5>2. x.frame \in Nat /\ x.frame > last[s]
            BY <1>3, <3>2, <4>3
          <5> QED
            BY <2>3, <4>1, <4>3, <5>1, <5>2
        <4> QED
          BY <2>6, <4>2, <4>3
      <3> QED
        BY <3>1, <3>2 DEF CommandsAscend
    <2>8. ASSUME NEW s \in Streams, NEW f \in Frames, IsPast(s, f) PROVE IsPast(s, f)'
      <3>0. f \in Nat
        BY ConstantTypes DEF Frames
      <3>1. f <= last[s] /\ f <= last'[s]
        BY <2>3, <2>8, <3>0 DEF IsPast
      <3>2. ASSUME NEW i \in DOMAIN cmd_queue', Brings(cmd_queue'[i], s)
            PROVE  f < cmd_queue'[i].frame
        <4>1. CASE i \in 1 .. n /\ cmd_queue'[i] = cmd_queue[i]
          BY <1>0, <2>8, <3>2, <4>1 DEF IsPast, n
        <4>2. CASE i = n + 1 /\ cmd_queue'[i] = x
          BY <1>3, <2>3, <3>0, <3>1, <3>2, <4>2
        <4> QED
          BY <2>6, <4>1, <4>2
      <3> QED
        BY <3>1, <3>2 DEF IsPast
    <2> QED
      BY <2>1, <2>7, <2>8
  <1>4. ASSUME NEW x, Asked(x)
        PROVE  /\ cmd_queue' \in Seq(Command) /\ last' \in [Streams -> Nat]
               /\ CommandsAscend'
               /\ \A s \in Streams, f \in Frames : IsPast(s, f) => IsPast(s, f)'
               /\ \A s \in Streams : last[s] <= last'[s]
    <2>1. x \in Command /\ cmd_queue' = Append(cmd_queue, x) /\ last' = last /\ \A s \in Streams : ~Brings(x, s)
      BY <1>4 DEF Asked, Brings
    <2>2. last' \in [Streams -> Nat] /\ \A s \in Streams : last[s] <= last'[s]
      BY <1>0, <2>1 DEF TypeOK
    <2> QED
      BY <1>3, <2>1, <2>2
  <1>5. ASSUME NEW x, Arrived(x)
        PROVE  /\ cmd_queue' \in Seq(Command) /\ last' \in [Streams -> Nat]
               /\ CommandsAscend'
               /\ \A s \in Streams, f \in Frames : IsPast(s, f) => IsPast(s, f)'
               /\ \A s \in Streams : last[s] <= last'[s]
    <2>1. x \in DataCommand /\ x \in Command /\ cmd_queue' = Append(cmd_queue, x)
      BY <1>5 DEF Arrived, Command
    <2>2. x.stream \in Streams /\ x.frame \in Nat /\ x.frame > last[x.stream]
          /\ last' = [last EXCEPT ![x.stream] = x.frame]
      <3>1. x.frame \in Frames /\ x.stream \in Streams
        BY <2>1 DEF DataCommand
      <3> QED
        BY <1>5, <3>1, ConstantTypes DEF Arrived, Frames
    <2>3. /\ last' \in [Streams -> Nat] /\ last'[x.stream] = x.frame
          /\ \A s \in Streams : s # x.stream => last'[s] = last[s]
      BY <2>2 DEF TypeOK
    <2>4. \A s \in Streams : last[s] <= last'[s]
      BY <1>0, <2>2, <2>3
    <2>5. \A s \in Streams : Brings(x, s) =>
             x.frame \in Nat /\ x.frame > last[s] /\ x.frame <= last'[s]
      BY <2>2, <2>3 DEF Brings
    <2> QED
      BY <1>3, <2>1, <2>3, <2>4, <2>5
  <1> QED
    BY <1>1, <1>2, <1>4, <1>5 DEF CommandStep

\* What a command brings.
DataOf(cmd) == IF cmd.type = "DATA" THEN {<<cmd.stream, cmd.frame>>} ELSE {}

Flushed ==
    /\ Head(cmd_queue).type = "FLUSH" /\ cb_queue' = cb_queue /\ sync_sem' = sync_sem + 1
    /\ Good(ch') /\ ch'.que = <<>> /\ ch'.match_cnt = 0
    /\ Lit(ch) => Lit(ch')
    /\ GiveBack(BuffersOf(ch.que))

\* The commands, by their types.
LEMMA CommandTypes ==
    ASSUME TypeOK
    PROVE  /\ Len(cmd_queue) \in Nat /\ DOMAIN cmd_queue = 1 .. Len(cmd_queue)
           /\ \A i \in 1 .. Len(cmd_queue) :
                 /\ cmd_queue[i] \in Command
                 /\ cmd_queue[i].type \in {"DATA", "REQ", "FLUSH"}
                 /\ cmd_queue[i].type = "DATA" =>
                       cmd_queue[i] \in DataCommand /\ cmd_queue[i].frame \in Frames
                       /\ cmd_queue[i].frame \in Nat /\ cmd_queue[i].stream \in Streams
  <1>1. cmd_queue \in Seq(Command)
    BY DEF TypeOK
  <1>2. Len(cmd_queue) \in Nat /\ DOMAIN cmd_queue = 1 .. Len(cmd_queue)
        /\ \A i \in 1 .. Len(cmd_queue) : cmd_queue[i] \in Command
    BY <1>1, LenProperties, ElementOfSeq
  <1>3. ASSUME NEW x \in Command
        PROVE  /\ x.type \in {"DATA", "REQ", "FLUSH"}
               /\ x.type = "DATA" => x \in DataCommand /\ x.frame \in Frames
                                     /\ x.frame \in Nat /\ x.stream \in Streams
    <2>1. x.type \in {"DATA", "REQ", "FLUSH"} /\ (x.type = "DATA" => x \in DataCommand)
      BY DEF Command, DataCommand
    <2>2. x \in DataCommand => x.frame \in Frames /\ x.stream \in Streams
      BY DEF DataCommand
    <2> QED
      BY <2>1, <2>2, ConstantTypes DEF Frames
  <1> QED
    BY <1>2, <1>3

\* The command that is taken.
LEMMA HeadFacts ==
    ASSUME TypeOK, cmd_queue # <<>>
    PROVE  /\ 1 \in DOMAIN cmd_queue /\ Head(cmd_queue) = cmd_queue[1]
           /\ Head(cmd_queue) \in Command
           /\ Head(cmd_queue).type = "DATA" => Head(cmd_queue) \in DataCommand
           /\ DataOf(Head(cmd_queue)) \in SUBSET (Streams \X Frames)
  <1>1. cmd_queue \in Seq(Command)
    BY DEF TypeOK
  <1>2. Len(cmd_queue) \in Nat \ {0}
    BY <1>1, EmptySeq
  <1>3. 1 \in 1 .. Len(cmd_queue) /\ 1 \in DOMAIN cmd_queue
    BY <1>2, CommandTypes
  <1>4. Head(cmd_queue) = cmd_queue[1]
    BY <1>1
  <1> QED
    BY <1>3, <1>4, CommandTypes DEF DataOf

\* The frame that a command brings is newer than what the queue has of its stream,
\* and older than what the commands after it bring.
LEMMA BroughtFacts ==
    ASSUME TypeOK, CommandsAscend, QueuedArePast, SentArePast, HeldArePast, GoodQueue(ch),
           Taken, Head(cmd_queue).type = "DATA"
    PROVE  LET m == Head(cmd_queue) IN
           /\ m \in DataCommand
           /\ \A i \in DOMAIN ch.que : m.stream \in ch.que[i].has => ch.que[i].frame < m.frame
           /\ \A i \in DOMAIN cb_queue : cb_queue[i].frame < m.frame
           /\ \A h \in held : h[1] = "super" => h[3] < m.frame
           /\ \A s, f : s = m.stream /\ f = m.frame => IsPast(s, f)'
  <1> DEFINE m == Head(cmd_queue)
  <1>1. /\ m = cmd_queue[1] /\ 1 \in DOMAIN cmd_queue /\ m \in DataCommand
        /\ Brings(cmd_queue[1], m.stream) /\ m.stream \in Streams
    BY HeadFacts, CommandTypes DEF Taken, Brings
  <1> HIDE DEF m
  <1>2. \A f : IsPast(m.stream, f) => f < m.frame
    BY <1>1 DEF IsPast
  <1>3. /\ ch.que \in Seq(Node) /\ DOMAIN ch.que = 1 .. Len(ch.que)
        /\ \A i \in DOMAIN ch.que : ch.que[i].has \subseteq Streams
    <2>1. ch.que \in Seq(Node) /\ Sorted(ch.que, ch.match_cnt)
      BY DEF GoodQueue, Channel
    <2> QED
      BY <2>1, QueueFacts
  <1>4. \A i \in DOMAIN ch.que : m.stream \in ch.que[i].has => ch.que[i].frame < m.frame
    BY <1>2 DEF QueuedArePast
  <1>5. \A i \in DOMAIN cb_queue : cb_queue[i].frame < m.frame
    BY <1>1, <1>2 DEF SentArePast
  <1>6. \A h \in held : h[1] = "super" => h[3] < m.frame
    BY <1>1, <1>2 DEF HeldArePast
  <1>7. ASSUME NEW s, NEW f, s = m.stream, f = m.frame PROVE IsPast(s, f)'
    <2>1. /\ cmd_queue \in Seq(Command) /\ last' = last
          /\ cmd_queue' \in Seq(Command) /\ Len(cmd_queue') = Len(cmd_queue) - 1
          /\ \A i \in 1 .. Len(cmd_queue') : cmd_queue'[i] = cmd_queue[i + 1]
      BY HeadTailProperties DEF Taken, TypeOK
    <2>2. DOMAIN cmd_queue' = 1 .. Len(cmd_queue') /\ DOMAIN cmd_queue = 1 .. Len(cmd_queue)
          /\ Len(cmd_queue) \in Nat
      BY <2>1, LenProperties
    <2>3. ASSUME NEW i \in DOMAIN cmd_queue', Brings(cmd_queue'[i], s)
          PROVE  f < cmd_queue'[i].frame
      <3>1. i + 1 \in DOMAIN cmd_queue /\ 1 < i + 1 /\ cmd_queue'[i] = cmd_queue[i + 1]
        BY <2>1, <2>2
      <3> QED
        BY <1>1, <1>7, <2>3, <3>1 DEF CommandsAscend
    <2>4. f <= last'[s]
      BY <1>1, <1>7, <2>1 DEF CommandsAscend
    <2> QED
      BY <2>3, <2>4 DEF IsPast
  <1> QED
    BY <1>1, <1>4, <1>5, <1>6, <1>7 DEF m

\* mm_channel_process_stream_buf: a flush, or a command that is served.
LEMMA ProcessFacts ==
    ASSUME Inv, ProcessStreamBuf
    PROVE  /\ Taken /\ UNCHANGED <<app_queue, held, api>>
           /\ \/ Flushed
              \/ /\ \E out : Served(DataOf(Head(cmd_queue)), out)
                 /\ sync_sem' = sync_sem /\ Head(cmd_queue).type # "FLUSH"
  <1> DEFINE m == Head(cmd_queue)
  <1> USE DEF Inv
  <1>1. Taken /\ UNCHANGED <<app_queue, held, api>>
    BY DEF ProcessStreamBuf, Taken
  <1>2. m \in Command /\ (m.type = "DATA" => m \in DataCommand)
    BY <1>1, HeadFacts DEF Taken
  <1>3. Good(ch) /\ ch.que \in Seq(Node) /\ ch \in Channel
    BY DEF Good, GoodQueue, Channel
  <1>4. CASE m.type = "DATA" /\ Serves(CompAndEnqueue(ch, m), {<<m.stream, m.frame>>})
             /\ UNCHANGED sync_sem
    <2>1. \A i \in 1 .. Len(ch.que) : m.stream \in ch.que[i].has => ch.que[i].frame < m.frame
      <3>1. \A i \in DOMAIN ch.que : m.stream \in ch.que[i].has => ch.que[i].frame < m.frame
        BY <1>1, <1>4, BroughtFacts
      <3> QED
        BY <1>3, <3>1, LenProperties
    <2> HIDE DEF m, Inv
    <2>2. /\ Good(CompAndEnqueue(ch, m))
          /\ BuffersOf(CompAndEnqueue(ch, m).que) \subseteq BuffersOf(ch.que) \cup {<<m.stream, m.frame>>}
      BY <1>2, <1>3, <1>4, <2>1, CompFacts
    <2>3. \E out : Served({<<m.stream, m.frame>>}, out)
      BY <1>4, <2>2, ServesFacts
    <2> QED
      BY <1>1, <1>4, <2>3 DEF DataOf, m
  <1>5. CASE m.type = "REQ" /\ Serves(NewRequest(ch, m), {}) /\ UNCHANGED sync_sem
    <2>1. m.num \in Nat /\ m.retro \in Nat
      BY <1>2, <1>5 DEF Command, DataCommand
    <2> HIDE DEF m, Inv
    <2>2. /\ Good(NewRequest(ch, m))
          /\ BuffersOf(NewRequest(ch, m).que) \subseteq BuffersOf(ch.que)
      BY <1>3, <2>1, RequestFacts
    <2>3. BuffersOf(NewRequest(ch, m).que) \subseteq BuffersOf(ch.que) \cup {}
      BY <2>2
    <2>4. \E out : Served({}, out)
      BY <1>5, <2>2, <2>3, ServesFacts
    <2> QED
      BY <1>1, <1>5, <2>4 DEF DataOf, m
  <1>6. CASE /\ m.type = "FLUSH"
             /\ ch' = [Flush(ch) EXCEPT !.expected_frame_id = m.frame]
             /\ GiveBack(BuffersOf(ch.que)) /\ sync_sem' = sync_sem + 1 /\ UNCHANGED cb_queue
    <2>1. PICK f \in Nat : f = m.frame
      BY <1>2, <1>6 DEF Command, DataCommand
    <2>2. PICK d : d = Flush(ch)
      OBVIOUS
    <2>3. Good(d) /\ d.que = <<>> /\ d.match_cnt = 0
      BY <1>3, <2>2, FlushFacts
    <2>4. d \in Channel
      BY <2>3 DEF Good, GoodQueue
    <2>5. Lit(ch) => Lit(d)
      <3>1. /\ d.startZSl = ch.startZSl /\ d.pending_cnt = ch.pending_cnt
            /\ d.needLEDFlash = ch.needLEDFlash /\ d.bracketingState = ch.bracketingState
            /\ d.stopZslSnapshot = ch.stopZslSnapshot
        BY <1>3, <2>2 DEF Flush, Channel
      <3> QED
        BY <3>1 DEF Lit
    <2>6. d \in Channel /\ f \in Nat /\ ch' = [d EXCEPT !.expected_frame_id = f]
      BY <1>6, <2>1, <2>2, <2>4
    <2>7. ch' \in Channel
      BY <2>6 DEF Channel
    <2>8. /\ ch'.que = d.que /\ ch'.match_cnt = d.match_cnt /\ ch'.spins = d.spins
          /\ ch'.bWait = d.bWait /\ ch'.pending_cnt = d.pending_cnt
          /\ ch'.pending_retro_cnt = d.pending_retro_cnt /\ ch'.startZSl = d.startZSl
          /\ ch'.burstSnapNum = d.burstSnapNum /\ ch'.stopZslSnapshot = d.stopZslSnapshot
          /\ ch'.needLEDFlash = d.needLEDFlash /\ ch'.bracketingState = d.bracketingState
      BY <2>6 DEF Channel
    <2>9. Good(ch')
      BY <2>3, <2>7, <2>8 DEF Good, GoodQueue, GoodRequest
    <2>10. Lit(d) => Lit(ch')
      BY <2>8 DEF Lit
    <2> QED
      BY <1>1, <1>6, <2>3, <2>5, <2>8, <2>9, <2>10 DEF Flushed
  <1>7. \/ m.type = "DATA" /\ Serves(CompAndEnqueue(ch, m), {<<m.stream, m.frame>>}) /\ UNCHANGED sync_sem
        \/ m.type = "REQ" /\ Serves(NewRequest(ch, m), {}) /\ UNCHANGED sync_sem
        \/ /\ m.type = "FLUSH"
           /\ ch' = [Flush(ch) EXCEPT !.expected_frame_id = m.frame]
           /\ GiveBack(BuffersOf(ch.que)) /\ sync_sem' = sync_sem + 1 /\ UNCHANGED cb_queue
    BY DEF ProcessStreamBuf
  <1> QED
    BY <1>4, <1>5, <1>6, <1>7

\* A buffer that comes back.
LEMMA PairFacts ==
    ASSUME TypeOK, NEW h \in held
    PROVE  /\ h[1] \in {"app", "super"} /\ h[2] \in Streams /\ h[3] \in Frames
           /\ h = <<h[1], h[2], h[3]>> /\ h[3] \in Nat
           /\ {<<h[2], h[3]>>} \in SUBSET (Streams \X Frames)
  <1>1. h \in {"app", "super"} \X Streams \X Frames
    BY DEF TypeOK
  <1>2. h[1] \in {"app", "super"} /\ h[2] \in Streams /\ h[3] \in Frames /\ h = <<h[1], h[2], h[3]>>
    BY <1>1
  <1> QED
    BY <1>2, ConstantTypes DEF Frames

\* What a callback hands over.
LEMMA SuperFacts ==
    ASSUME TypeOK, cb_queue # <<>>
    PROVE  /\ cb_queue \in Seq(Node) /\ Len(cb_queue) \in Nat \ {0}
           /\ DOMAIN cb_queue = 1 .. Len(cb_queue)
           /\ Head(cb_queue) = cb_queue[1] /\ cb_queue[1] \in Node
           /\ BuffersOf(<<Head(cb_queue)>>) = cb_queue[1].has \X {cb_queue[1].frame}
           /\ Tail(cb_queue) \in Seq(Node) /\ Len(Tail(cb_queue)) = Len(cb_queue) - 1
           /\ \A i \in 1 .. Len(cb_queue) - 1 : Tail(cb_queue)[i] = cb_queue[i + 1]
           /\ \A i \in 1 .. Len(cb_queue) : cb_queue[i].frame \in Frames /\ cb_queue[i].frame \in Nat
  <1>1. cb_queue \in Seq(Node)
    BY DEF TypeOK
  <1>2. Len(cb_queue) \in Nat \ {0} /\ DOMAIN cb_queue = 1 .. Len(cb_queue)
    BY <1>1, EmptySeq, LenProperties
  <1>3. \A i \in 1 .. Len(cb_queue) : cb_queue[i] \in Node
    BY <1>1, ElementOfSeq
  <1>4. Head(cb_queue) = cb_queue[1] /\ cb_queue[1] \in Node
    BY <1>1, <1>2, <1>3
  <1>5. /\ Tail(cb_queue) \in Seq(Node) /\ Len(Tail(cb_queue)) = Len(cb_queue) - 1
        /\ \A i \in 1 .. Len(cb_queue) - 1 : Tail(cb_queue)[i] = cb_queue[i + 1]
    BY <1>1, HeadTailProperties
  <1>6. BuffersOf(<<Head(cb_queue)>>) = cb_queue[1].has \X {cb_queue[1].frame}
    BY <1>4 DEF BuffersOf
  <1>7. \A i \in 1 .. Len(cb_queue) : cb_queue[i].frame \in Frames
    BY <1>3 DEF Node
  <1>8. \A i \in 1 .. Len(cb_queue) : cb_queue[i].frame \in Nat
    BY <1>7, ConstantTypes DEF Frames
  <1> QED
    BY <1>1, <1>2, <1>4, <1>5, <1>6, <1>7, <1>8

\* A stream's frames for its callback.
LEMMA AppFacts ==
    ASSUME TypeOK, NEW s \in Streams
    PROVE  /\ app_queue[s] \in Seq(Frames) /\ Len(app_queue[s]) \in Nat
           /\ DOMAIN app_queue[s] = 1 .. Len(app_queue[s])
           /\ \A i \in 1 .. Len(app_queue[s]) : app_queue[s][i] \in Frames /\ app_queue[s][i] \in Nat
           /\ app_queue[s] # <<>> =>
                 /\ 1 \in DOMAIN app_queue[s] /\ Head(app_queue[s]) = app_queue[s][1]
                 /\ Tail(app_queue[s]) \in Seq(Frames)
                 /\ Len(Tail(app_queue[s])) = Len(app_queue[s]) - 1
                 /\ \A i \in 1 .. Len(app_queue[s]) - 1 : Tail(app_queue[s])[i] = app_queue[s][i + 1]
           /\ \A f \in Frames :
                 /\ Append(app_queue[s], f) \in Seq(Frames)
                 /\ Len(Append(app_queue[s], f)) = Len(app_queue[s]) + 1
                 /\ \A i \in 1 .. Len(app_queue[s]) : Append(app_queue[s], f)[i] = app_queue[s][i]
                 /\ Append(app_queue[s], f)[Len(app_queue[s]) + 1] = f
  <1> DEFINE a == app_queue[s]
  <1>1. a \in Seq(Frames)
    BY DEF TypeOK
  <1> HIDE DEF a
  <1>2. Len(a) \in Nat /\ DOMAIN a = 1 .. Len(a) /\ \A i \in 1 .. Len(a) : a[i] \in Frames
    BY <1>1, LenProperties, ElementOfSeq
  <1>3. \A i \in 1 .. Len(a) : a[i] \in Nat
    BY <1>2, ConstantTypes DEF Frames
  <1>4. ASSUME a # <<>>
        PROVE  /\ 1 \in DOMAIN a /\ Head(a) = a[1]
               /\ Tail(a) \in Seq(Frames) /\ Len(Tail(a)) = Len(a) - 1
               /\ \A i \in 1 .. Len(a) - 1 : Tail(a)[i] = a[i + 1]
    <2>1. Len(a) # 0
      BY <1>1, <1>4, EmptySeq
    <2>2. 1 \in DOMAIN a
      BY <1>2, <2>1
    <2>3. Head(a) = a[1]
      BY <1>1
    <2>4. /\ Tail(a) \in Seq(Frames) /\ Len(Tail(a)) = Len(a) - 1
          /\ \A i \in 1 .. Len(a) - 1 : Tail(a)[i] = a[i + 1]
      BY <1>1, <1>4, HeadTailProperties
    <2> QED
      BY <2>2, <2>3, <2>4
  <1>5. \A f \in Frames :
           /\ Append(a, f) \in Seq(Frames) /\ Len(Append(a, f)) = Len(a) + 1
           /\ \A i \in 1 .. Len(a) : Append(a, f)[i] = a[i]
           /\ Append(a, f)[Len(a) + 1] = f
    BY <1>1, AppendProperties
  <1> QED
    BY <1>1, <1>2, <1>3, <1>4, <1>5 DEF a

\* The buffers that a command sends back.
LEMMA ServedTypes ==
    ASSUME TypeOK, NEW brought \in SUBSET (Streams \X Frames), NEW out, Served(brought, out)
    PROVE  /\ buf_refcnt' \in [Streams -> [Frames -> Int]]
           /\ queued_buffer_count' \in [Streams -> Int]
           /\ state' = state /\ ch' \in Channel /\ cb_queue' \in Seq(Node)
  <1> DEFINE G == (BuffersOf(ch.que) \cup brought) \ (BuffersOf(ch'.que) \cup BuffersOf(out))
  <1>1. ch.que \in Seq(Node) /\ cb_queue \in Seq(Node)
    BY DEF TypeOK, Channel
  <1>2. GiveBack(G) /\ ch' \in Channel /\ cb_queue' = cb_queue \o out /\ out \in Seq(Node)
    BY DEF Served, Good, GoodQueue
  <1>3. BuffersOf(ch.que) \subseteq Streams \X Frames
    BY <1>1, BuffersFacts
  <1>4. G \in SUBSET (Streams \X Frames)
    BY <1>3
  <1> HIDE DEF G
  <1>5. cb_queue \o out \in Seq(Node)
    BY <1>1, <1>2, ConcatProperties
  <1> QED
    BY <1>2, <1>4, <1>5, GiveBackTypes

\* Each step keeps the types.
LEMMA TypesStay ==
    ASSUME Inv, Next
    PROVE  TypeOK'
  <1>0. TypeOK
    BY DEF Inv
  <1>1. cmd_queue' \in Seq(Command) /\ last' \in [Streams -> Nat]
    <2>1. CommandStep /\ CommandsAscend
      BY <1>0, NextCommands DEF Inv
    <2> QED
      BY <1>0, <2>1, PastStays
  <1>2. ASSUME NEW s \in Streams, NEW f \in Frames, NEW news \in News,
               FrameArrives(s, f, news)
        PROVE  TypeOK'
    <2>1. queued_buffer_count' \in [Streams -> Int]
      BY <1>0, <1>2 DEF FrameArrives, TypeOK
    <2>2. buf_refcnt' \in [Streams -> [Frames -> Int]]
      <3>1. PICK n \in Int : n = IF s \in Watched THEN 2 ELSE 1
        OBVIOUS
      <3>2. buf_refcnt' = [buf_refcnt EXCEPT ![s][f] = n]
        BY <1>2, <3>1 DEF FrameArrives
      <3> QED
        BY <1>0, <3>2 DEF TypeOK
    <2>3. app_queue' \in [Streams -> Seq(Frames)]
      <3>1. Append(app_queue[s], f) \in Seq(Frames)
        BY <1>0, AppFacts
      <3> QED
        BY <1>0, <1>2, <3>1 DEF FrameArrives, TypeOK
    <2> QED
      BY <1>0, <1>1, <1>2, <2>1, <2>2, <2>3 DEF FrameArrives, TypeOK, client
  <1>3. ASSUME NEW s \in Watched, DispatchAppData(s) PROVE TypeOK'
    <2>1. s \in Streams /\ app_queue[s] # <<>>
      BY <1>3, QueueConstants DEF DispatchAppData
    <2>2. Tail(app_queue[s]) \in Seq(Frames) /\ Head(app_queue[s]) \in Frames
      BY <1>0, <2>1, AppFacts
    <2>3. app_queue' \in [Streams -> Seq(Frames)]
      BY <1>0, <1>3, <2>1, <2>2 DEF DispatchAppData, TypeOK
    <2>4. held' \in SUBSET ({"app", "super"} \X Streams \X Frames)
      BY <1>0, <1>3, <2>1, <2>2 DEF DispatchAppData, TypeOK
    <2> QED
      BY <1>0, <1>1, <1>3, <2>3, <2>4 DEF DispatchAppData, TypeOK, streams
  <1>4. CASE ProcessStreamBuf
    <2>1. /\ Taken /\ UNCHANGED <<app_queue, held, api>>
          /\ \/ Flushed
             \/ /\ \E out : Served(DataOf(Head(cmd_queue)), out)
                /\ sync_sem' = sync_sem /\ Head(cmd_queue).type # "FLUSH"
      BY <1>4, ProcessFacts
    <2>2. CASE Flushed
      <3>1. ch.que \in Seq(Node)
        BY <1>0 DEF TypeOK, Channel
      <3>2. BuffersOf(ch.que) \in SUBSET (Streams \X Frames)
        BY <3>1, BuffersFacts
      <3>3. buf_refcnt' \in [Streams -> [Frames -> Int]] /\ queued_buffer_count' \in [Streams -> Int] /\ state' = state
        BY <1>0, <2>2, <3>2, GiveBackTypes DEF Flushed
      <3>4. ch' \in Channel /\ cb_queue' = cb_queue /\ sync_sem' = sync_sem + 1
        BY <2>2 DEF Flushed, Good, GoodQueue
      <3>5. sync_sem = 0
        <4>1. IsFlush(1) /\ 1 \in DOMAIN cmd_queue
          BY <1>0, <2>1, <2>2, HeadFacts DEF IsFlush, Flushed, Taken
        <4> QED
          BY <4>1 DEF Inv, FlushIsAwaited
      <3> QED
        BY <1>0, <1>1, <2>1, <3>3, <3>4, <3>5 DEF TypeOK
    <2>3. ASSUME NEW out, Served(DataOf(Head(cmd_queue)), out), sync_sem' = sync_sem PROVE TypeOK'
      <3>1. DataOf(Head(cmd_queue)) \in SUBSET (Streams \X Frames)
        BY <1>0, <2>1, HeadFacts DEF Taken
      <3>2. PICK b \in SUBSET (Streams \X Frames) : b = DataOf(Head(cmd_queue))
        BY <3>1
      <3>3. /\ buf_refcnt' \in [Streams -> [Frames -> Int]] /\ queued_buffer_count' \in [Streams -> Int]
            /\ state' = state /\ ch' \in Channel /\ cb_queue' \in Seq(Node)
        BY <1>0, <2>3, <3>2, ServedTypes
      <3> QED
        BY <1>0, <1>1, <2>1, <2>3, <3>3 DEF TypeOK
    <2> QED
      BY <2>1, <2>2, <2>3
  <1>5. CASE DispatchSuperBuf
    <2>1. cb_queue # <<>>
      BY <1>5 DEF DispatchSuperBuf
    <2>2. cb_queue' \in Seq(Node) /\ Head(cb_queue) = cb_queue[1] /\ cb_queue[1] \in Node
      BY <1>0, <1>5, <2>1, SuperFacts DEF DispatchSuperBuf
    <2>3. BuffersOf(<<Head(cb_queue)>>) = cb_queue[1].has \X {cb_queue[1].frame}
      BY <1>0, <2>1, SuperFacts
    <2>4. cb_queue[1].has \subseteq Streams /\ cb_queue[1].frame \in Frames
      BY <2>2 DEF Node
    <2>5. \A b \in BuffersOf(<<Head(cb_queue)>>) : b[1] \in Streams /\ b[2] \in Frames
      BY <2>3, <2>4
    <2>6. held' \in SUBSET ({"app", "super"} \X Streams \X Frames)
      <3>1. PICK B : B = BuffersOf(<<Head(cb_queue)>>)
        OBVIOUS
      <3>2. /\ held' = held \cup {<<"super", b[1], b[2]>> : b \in B}
            /\ held \in SUBSET ({"app", "super"} \X Streams \X Frames)
        BY <1>0, <1>5, <3>1 DEF DispatchSuperBuf, TypeOK
      <3>3. \A b \in B : b[1] \in Streams /\ b[2] \in Frames
        BY <2>5, <3>1
      <3>4. \A b \in B : <<"super", b[1], b[2]>> \in {"app", "super"} \X Streams \X Frames
        BY <3>3
      <3> QED
        BY <3>2, <3>4
    <2> QED
      BY <1>0, <1>1, <1>5, <2>2, <2>6 DEF DispatchSuperBuf, TypeOK, streams
  <1>6. ASSUME NEW h \in held, BufDone(h) PROVE TypeOK'
    <2>1. {<<h[2], h[3]>>} \in SUBSET (Streams \X Frames)
      BY <1>0, PairFacts
    <2>2. GiveBack({<<h[2], h[3]>>})
      BY <1>6 DEF BufDone
    <2>3. /\ buf_refcnt' \in [Streams -> [Frames -> Int]] /\ queued_buffer_count' \in [Streams -> Int]
          /\ state' = state
      BY <1>0, <2>1, <2>2, GiveBackTypes
    <2> QED
      BY <1>0, <1>1, <1>6, <2>3 DEF BufDone, TypeOK
  <1>7. ASSUME NEW s \in Streams, StartStream(s) PROVE TypeOK'
    BY <1>0, <1>1, <1>7 DEF StartStream, TypeOK, client
  <1>8. ASSUME NEW s \in Streams, StreamOff(s) PROVE TypeOK'
    BY <1>0, <1>1, <1>8 DEF StreamOff, TypeOK, client
  <1>9. ASSUME NEW s \in Streams, StreamStops(s) PROVE TypeOK'
    <2>1. PICK z \in [Frames -> Int] : z = [f \in Frames |-> 0]
      <3>1. [f \in Frames |-> 0] \in [Frames -> Int]
        OBVIOUS
      <3> QED
        BY <3>1
    <2>2. buf_refcnt' = [buf_refcnt EXCEPT ![s] = z] /\ state' = [state EXCEPT ![s] = "REG"]
      BY <1>9, <2>1 DEF StreamStops
    <2>3. buf_refcnt' \in [Streams -> [Frames -> Int]] /\ state' \in [Streams -> {"REG", "ACTIVE", "OFF"}]
      BY <1>0, <2>2 DEF TypeOK
    <2> QED
      BY <1>0, <1>1, <1>9, <2>3 DEF StreamStops, TypeOK, client
  <1>10. ASSUME NEW r \in Requests, RequestSuperBuf(r) PROVE TypeOK'
    BY <1>0, <1>1, <1>10 DEF RequestSuperBuf, TypeOK, client, streams
  <1>11. ASSUME NEW f \in Flushes, FlushBegins(f) PROVE TypeOK'
    BY <1>0, <1>1, <1>11 DEF FlushBegins, TypeOK, client, streams
  <1>12. CASE FlushReturns \/ StopBegins \/ StopFlushes
    BY <1>0, <1>1, <1>12 DEF FlushReturns, StopBegins, StopFlushes, TypeOK, client, streams
  <1>13. CASE StopReturns
    <2>1. PICK zn \in Nat : zn = 0
      OBVIOUS
    <2>2. PICK zi \in Int : zi = 0
      OBVIOUS
    <2>3. ch' = [ch EXCEPT !.expected_frame_id = zn, !.good_frame_id = zn, !.match_cnt = zi]
      BY <1>13, <2>1, <2>2 DEF StopReturns
    <2>4. ch \in Channel
      BY <1>0 DEF TypeOK
    <2>5. ch' \in Channel
      BY <2>3, <2>4 DEF Channel
    <2> QED
      BY <1>0, <1>1, <1>13, <2>5 DEF StopReturns, TypeOK, client, streams
  <1>14. CASE Stopped
    BY <1>0, <1>14 DEF Stopped, TypeOK, vars, client, streams
  <1> QED
    BY <1>2, <1>3, <1>4, <1>5, <1>6, <1>7, <1>8, <1>9, <1>10, <1>11, <1>12, <1>13, <1>14 DEF Next

\* Each step leaves the queue good, within the water mark, and the flash off when
\* nothing is requested.
LEMMA QueueStays ==
    ASSUME Inv, Next
    PROVE  Good(ch') /\ ch'.match_cnt <= water_mark /\ Lit(ch')
  <1>0. Good(ch) /\ ch.match_cnt <= water_mark /\ Lit(ch) /\ TypeOK
    BY DEF Inv, Good
  <1>1. CASE ch' = ch
    BY <1>0, <1>1
  <1>2. CASE ProcessStreamBuf
    <2>1. \/ Flushed
          \/ \E out : Served(DataOf(Head(cmd_queue)), out)
      BY <1>2, ProcessFacts
    <2>2. CASE Flushed
      BY <1>0, <2>2, ConstantTypes DEF Flushed
    <2>3. ASSUME NEW out, Served(DataOf(Head(cmd_queue)), out)
          PROVE  Good(ch') /\ ch'.match_cnt <= water_mark /\ Lit(ch')
      BY <2>3 DEF Served
    <2> QED
      BY <2>1, <2>2, <2>3
  <1>3. CASE StopReturns
    <2>1. ch.que = <<>>
      BY <1>3 DEF Inv, FlushIsAwaited, StopReturns
    <2>2. Sorted(ch.que, ch.match_cnt)
      BY <1>0 DEF Good, GoodQueue
    <2>3. ch.match_cnt = 0
      <3>1. ch.match_cnt \in 0 .. Len(ch.que)
        BY <2>2 DEF Sorted
      <3> QED
        BY <2>1, <3>1, EmptySeq
    <2>4. PICK zn \in Nat : zn = 0
      OBVIOUS
    <2>5. PICK zi \in Int : zi = 0
      OBVIOUS
    <2>6. ch' = [ch EXCEPT !.expected_frame_id = zn, !.good_frame_id = zn, !.match_cnt = zi]
      BY <1>3, <2>4, <2>5 DEF StopReturns
    <2>7. ch \in Channel
      BY <1>0 DEF TypeOK
    <2>8. ch' \in Channel
      BY <2>6, <2>7 DEF Channel
    <2>9. /\ ch'.que = ch.que /\ ch'.match_cnt = ch.match_cnt /\ ch'.spins = ch.spins
          /\ ch'.bWait = ch.bWait /\ ch'.pending_cnt = ch.pending_cnt
          /\ ch'.pending_retro_cnt = ch.pending_retro_cnt /\ ch'.startZSl = ch.startZSl
          /\ ch'.burstSnapNum = ch.burstSnapNum /\ ch'.stopZslSnapshot = ch.stopZslSnapshot
          /\ ch'.needLEDFlash = ch.needLEDFlash /\ ch'.bracketingState = ch.bracketingState
      <3>1. ch'.match_cnt = zi
        BY <2>6, <2>7 DEF Channel
      <3> QED
        BY <2>3, <2>5, <2>6, <2>7, <3>1 DEF Channel
    <2>10. Good(ch')
      BY <1>0, <2>8, <2>9 DEF Good, GoodQueue, GoodRequest
    <2>11. Lit(ch')
      BY <1>0, <2>9 DEF Lit
    <2> QED
      BY <1>0, <2>9, <2>10, <2>11
  <1>4. ch' = ch \/ ProcessStreamBuf \/ StopReturns
    BY DEF Next, FrameArrives, DispatchAppData, DispatchSuperBuf, BufDone, StartStream, StreamOff,
           StreamStops, RequestSuperBuf, FlushBegins, FlushReturns, StopBegins, StopFlushes,
           Stopped, vars
  <1> QED
    BY <1>1, <1>2, <1>3, <1>4
-----------------------------------------------------------------------------
(* The order of what is under way.                                         *)

\* The order of the frames, part by part.
Ascend(a, b) ==
    /\ \A i, j \in 1 .. Len(a) : i < j => a[i].frame < a[j].frame
    /\ \A i, j \in 1 .. Len(b) : i < j => b[i].frame < b[j].frame
    /\ \A i \in 1 .. Len(a), j \in 1 .. Len(b) : a[i].frame < b[j].frame

\* A queue and the super buffers under way: a node is newer than what went before it.
Passed(a, b) ==
    /\ Ascend(a, b)
    /\ \A i \in 1 .. Len(b) : \A s \in b[i].has : IsPast(s, b[i].frame)
    /\ \A i \in 1 .. Len(a) : a[i].has = Streams /\ \A s \in Streams : IsPast(s, a[i].frame)

\* The invariant's three parts, said of two sequences.
LEMMA PassedFacts ==
    ASSUME TypeOK
    PROVE  /\ ch.que \in Seq(Node) /\ cb_queue \in Seq(Node)
           /\ DOMAIN ch.que = 1 .. Len(ch.que) /\ DOMAIN cb_queue = 1 .. Len(cb_queue)
           /\ Len(ch.que) \in Nat /\ Len(cb_queue) \in Nat
           /\ Passed(cb_queue, ch.que) <=> QueuedArePast /\ SentArePast /\ FramesAreInOrder
  <1>1. ch.que \in Seq(Node) /\ cb_queue \in Seq(Node)
    BY DEF TypeOK, Channel
  <1>2. /\ DOMAIN ch.que = 1 .. Len(ch.que) /\ DOMAIN cb_queue = 1 .. Len(cb_queue)
        /\ Len(ch.que) \in Nat /\ Len(cb_queue) \in Nat
    BY <1>1, LenProperties
  <1>3. InOrder(cb_queue \o ch.que) <=> Ascend(cb_queue, ch.que)
    BY <1>1, OrderSplits DEF Ascend
  <1>4. QueuedArePast <=> \A i \in 1 .. Len(ch.que) : \A s \in ch.que[i].has : IsPast(s, ch.que[i].frame)
    BY <1>2 DEF QueuedArePast
  <1>5. SentArePast <=> \A i \in 1 .. Len(cb_queue) :
                           cb_queue[i].has = Streams /\ \A s \in Streams : IsPast(s, cb_queue[i].frame)
    BY <1>2 DEF SentArePast
  <1> QED
    BY <1>1, <1>2, <1>3, <1>4, <1>5 DEF FramesAreInOrder, Passed

\* What comes out of the queue, or stays in it, is newer than what went before.
LEMMA ServedNodes ==
    ASSUME Inv, Taken, Head(cmd_queue).type # "FLUSH", NEW out, Served(DataOf(Head(cmd_queue)), out),
           NEW x \in Node, x.has \X {x.frame} \subseteq BuffersOf(out) \cup BuffersOf(ch'.que)
    PROVE  /\ \A s \in x.has : IsPast(s, x.frame)'
           /\ \A i \in 1 .. Len(cb_queue) : cb_queue[i].frame < x.frame
           /\ \A h \in held : h[1] = "super" => h[3] < x.frame
  <1> DEFINE m == Head(cmd_queue)
  <1>1. /\ TypeOK /\ CommandsAscend /\ CommandStep
        /\ QueuedArePast /\ FramesAreInOrder /\ HeldArePast /\ SentArePast /\ GoodQueue(ch)
    BY DEF Inv, CommandStep
  <1>2. /\ ch.que \in Seq(Node) /\ Ascend(cb_queue, ch.que) /\ DOMAIN ch.que = 1 .. Len(ch.que)
        /\ DOMAIN cb_queue = 1 .. Len(cb_queue)
    BY <1>1, PassedFacts DEF Passed
  <1>3. x.has \in (SUBSET Streams) \ {{}} /\ x.frame \in Frames
    BY DEF Node
  <1>4. \A s \in Streams, f \in Frames : IsPast(s, f) => IsPast(s, f)'
    BY <1>1, PastStays
  <1>5. ASSUME NEW s \in x.has
        PROVE  /\ IsPast(s, x.frame)'
               /\ \A i \in 1 .. Len(cb_queue) : cb_queue[i].frame < x.frame
               /\ \A h \in held : h[1] = "super" => h[3] < x.frame
    <2>1. <<s, x.frame>> \in BuffersOf(ch.que) \/ <<s, x.frame>> \in DataOf(m)
      BY DEF Served
    <2>2. CASE <<s, x.frame>> \in BuffersOf(ch.que)
      <3>1. <<s, x.frame>> \in BuffersOf(ch.que) <=>
               \E i \in 1 .. Len(ch.que) : s \in ch.que[i].has /\ ch.que[i].frame = x.frame
        BY <1>2, BuffersFacts
      <3>2. PICK i \in 1 .. Len(ch.que) : s \in ch.que[i].has /\ ch.que[i].frame = x.frame
        BY <2>2, <3>1
      <3>3. IsPast(s, x.frame)
        BY <1>1, <1>2, <3>2 DEF QueuedArePast
      <3>4. IsPast(s, x.frame)'
        BY <1>3, <1>4, <3>3
      <3>5. \A k \in 1 .. Len(cb_queue) : cb_queue[k].frame < x.frame
        BY <1>2, <3>2 DEF Ascend
      <3>6. \A h \in held : h[1] = "super" => h[3] < x.frame
        BY <1>1, <1>2, <3>2 DEF HeldArePast
      <3> QED
        BY <3>4, <3>5, <3>6
    <2>3. CASE <<s, x.frame>> \in DataOf(m)
      <3>1. m.type = "DATA" /\ s = m.stream /\ x.frame = m.frame
        BY <2>3 DEF DataOf
      <3>2. /\ \A i \in DOMAIN cb_queue : cb_queue[i].frame < m.frame
            /\ \A h \in held : h[1] = "super" => h[3] < m.frame
            /\ \A t, f : t = m.stream /\ f = m.frame => IsPast(t, f)'
        BY <1>1, <3>1, BroughtFacts
      <3> HIDE DEF m
      <3>3. PICK t : t = s
        OBVIOUS
      <3>4. PICK f : f = x.frame
        OBVIOUS
      <3>5. IsPast(t, f)'
        BY <3>1, <3>2, <3>3, <3>4
      <3>6. IsPast(s, x.frame)'
        BY <3>3, <3>4, <3>5
      <3> QED
        BY <1>2, <3>1, <3>2, <3>6
    <2> QED
      BY <2>1, <2>2, <2>3
  <1>6. PICK s : s \in x.has
    BY <1>3
  <1> QED
    BY <1>5, <1>6

\* What is past after a step.
PastAfter(s, f) ==
    /\ f <= last'[s]
    /\ \A i \in DOMAIN cmd_queue' : Brings(cmd_queue'[i], s) => f < cmd_queue'[i].frame

\* The order of what is under way, after a step.
Ordered ==
    /\ Ascend(cb_queue', ch'.que)
    /\ \A i \in 1 .. Len(ch'.que) : \A s \in ch'.que[i].has : PastAfter(s, ch'.que[i].frame)
    /\ \A i \in 1 .. Len(cb_queue') :
          cb_queue'[i].has = Streams /\ \A s \in Streams : PastAfter(s, cb_queue'[i].frame)
    /\ \A h \in held' : h[1] = "super" =>
          /\ \A s \in Streams : PastAfter(s, h[3])
          /\ \A i \in 1 .. Len(cb_queue') : h[3] < cb_queue'[i].frame
          /\ \A i \in 1 .. Len(ch'.que) : h[3] < ch'.que[i].frame

\* The same of the primed state.
LEMMA OrderedFacts ==
    ASSUME TypeOK', Ordered
    PROVE  QueuedArePast' /\ SentArePast' /\ FramesAreInOrder' /\ HeldArePast'
  <1>1. ch'.que \in Seq(Node) /\ cb_queue' \in Seq(Node)
    BY DEF TypeOK, Channel
  <1>2. DOMAIN ch'.que = 1 .. Len(ch'.que) /\ DOMAIN cb_queue' = 1 .. Len(cb_queue')
    BY <1>1, LenProperties
  <1>3. InOrder(cb_queue' \o ch'.que)
    BY <1>1, OrderSplits DEF Ordered, Ascend
  <1>4. QueuedArePast'
    BY <1>2 DEF Ordered, QueuedArePast, IsPast, PastAfter
  <1>5. SentArePast'
    BY <1>2 DEF Ordered, SentArePast, IsPast, PastAfter
  <1>6. HeldArePast'
    BY <1>2 DEF Ordered, HeldArePast, IsPast, PastAfter
  <1>7. FramesAreInOrder'
    BY <1>3 DEF FramesAreInOrder, InOrder
  <1> QED
    BY <1>4, <1>5, <1>6, <1>7

\* A step that sends nothing and takes no command back keeps the order.
LEMMA KeptInOrder ==
    ASSUME Inv, Next
    PROVE  /\ \A s \in Streams, f \in Frames : IsPast(s, f) => PastAfter(s, f)
           /\ Ascend(cb_queue, ch.que)
           /\ \A i \in 1 .. Len(ch.que) : /\ ch.que[i] \in Node /\ ch.que[i].frame \in Frames
                                          /\ ch.que[i].has \subseteq Streams
                                          /\ \A s \in ch.que[i].has : PastAfter(s, ch.que[i].frame)
           /\ \A i \in 1 .. Len(cb_queue) :
                 /\ cb_queue[i] \in Node /\ cb_queue[i].frame \in Frames
                 /\ cb_queue[i].has = Streams /\ \A s \in Streams : PastAfter(s, cb_queue[i].frame)
           /\ \A h \in held : h[1] = "super" =>
                 /\ \A s \in Streams : PastAfter(s, h[3])
                 /\ \A i \in 1 .. Len(cb_queue) : h[3] < cb_queue[i].frame
                 /\ \A i \in 1 .. Len(ch.que) : h[3] < ch.que[i].frame
  <1>1. /\ TypeOK /\ CommandsAscend /\ QueuedArePast /\ SentArePast /\ FramesAreInOrder /\ HeldArePast
    BY DEF Inv
  <1>2. CommandStep
    BY <1>1, NextCommands
  <1>3. ASSUME NEW s \in Streams, NEW f \in Frames, IsPast(s, f) PROVE PastAfter(s, f)
    <2>1. IsPast(s, f)'
      BY <1>1, <1>2, <1>3, PastStays
    <2> QED
      BY <2>1 DEF IsPast, PastAfter
  <1>4. /\ ch.que \in Seq(Node) /\ cb_queue \in Seq(Node) /\ Passed(cb_queue, ch.que)
        /\ DOMAIN ch.que = 1 .. Len(ch.que) /\ DOMAIN cb_queue = 1 .. Len(cb_queue)
    BY <1>1, PassedFacts
  <1>5. \A i \in 1 .. Len(ch.que) : /\ ch.que[i] \in Node /\ ch.que[i].frame \in Frames
                                    /\ ch.que[i].has \subseteq Streams
    <2>1. \A i \in 1 .. Len(ch.que) : ch.que[i] \in Node
      BY <1>4, ElementOfSeq
    <2> QED
      BY <2>1 DEF Node
  <1>6. \A i \in 1 .. Len(cb_queue) : cb_queue[i] \in Node /\ cb_queue[i].frame \in Frames
    <2>1. \A i \in 1 .. Len(cb_queue) : cb_queue[i] \in Node
      BY <1>4, ElementOfSeq
    <2> QED
      BY <2>1 DEF Node
  <1>7. \A i \in 1 .. Len(ch.que) : \A s \in ch.que[i].has : PastAfter(s, ch.que[i].frame)
    BY <1>3, <1>4, <1>5 DEF Passed
  <1>8. \A i \in 1 .. Len(cb_queue) :
           cb_queue[i].has = Streams /\ \A s \in Streams : PastAfter(s, cb_queue[i].frame)
    BY <1>3, <1>4, <1>6 DEF Passed
  <1>9. ASSUME NEW h \in held, h[1] = "super"
        PROVE  /\ \A s \in Streams : PastAfter(s, h[3])
               /\ \A i \in 1 .. Len(cb_queue) : h[3] < cb_queue[i].frame
               /\ \A i \in 1 .. Len(ch.que) : h[3] < ch.que[i].frame
    <2>1. h[3] \in Frames
      BY <1>1, PairFacts
    <2>2. /\ \A s \in Streams : IsPast(s, h[3])
          /\ \A i \in 1 .. Len(cb_queue) : h[3] < cb_queue[i].frame
          /\ \A i \in 1 .. Len(ch.que) : h[3] < ch.que[i].frame
      BY <1>1, <1>4, <1>9 DEF HeldArePast
    <2> QED
      BY <1>3, <2>1, <2>2
  <1> QED
    BY <1>3, <1>4, <1>5, <1>6, <1>7, <1>8, <1>9 DEF Passed

\* A step of the command thread.
LEMMA ServedInOrder ==
    ASSUME Inv, Next, Taken, held' = held, Head(cmd_queue).type # "FLUSH",
           NEW out, Served(DataOf(Head(cmd_queue)), out)
    PROVE  Ordered
  <1> DEFINE r == ch'.que
             A == Len(cb_queue)
  <1>1. /\ TypeOK /\ ch.que \in Seq(Node) /\ cb_queue \in Seq(Node)
        /\ A \in Nat /\ Len(ch.que) \in Nat
    BY PassedFacts DEF Inv
  <1>2. /\ out \in Seq(Node) /\ r \in Seq(Node) /\ cb_queue' = cb_queue \o out
        /\ \A i \in 1 .. Len(out) : out[i].has = Streams
        /\ InOrder(out \o r)
    BY DEF Served, Good, GoodQueue, Channel
  <1>3. Len(out) \in Nat /\ Len(r) \in Nat
    BY <1>2, LenProperties
  <1>4. /\ Len(cb_queue') = A + Len(out)
        /\ \A k \in 1 .. A + Len(out) : cb_queue'[k] = IF k <= A THEN cb_queue[k] ELSE out[k - A]
    BY <1>1, <1>2, ConcatProperties
  <1>5. Ascend(out, r)
    BY <1>2, OrderSplits DEF Ascend
  <1>6. ASSUME NEW x \in Node, x.has \X {x.frame} \subseteq BuffersOf(out) \cup BuffersOf(r)
        PROVE  /\ \A s \in x.has : PastAfter(s, x.frame)
               /\ \A i \in 1 .. A : cb_queue[i].frame < x.frame
               /\ \A h \in held : h[1] = "super" => h[3] < x.frame
    <2>1. /\ \A s \in x.has : IsPast(s, x.frame)'
          /\ \A i \in 1 .. A : cb_queue[i].frame < x.frame
          /\ \A h \in held : h[1] = "super" => h[3] < x.frame
      BY <1>6, ServedNodes
    <2> QED
      BY <2>1 DEF IsPast, PastAfter
  <1> HIDE DEF r, A
  <1>7. ASSUME NEW i \in 1 .. Len(out)
        PROVE  /\ \A s \in Streams : PastAfter(s, out[i].frame)
               /\ \A k \in 1 .. A : cb_queue[k].frame < out[i].frame
               /\ \A h \in held : h[1] = "super" => h[3] < out[i].frame
    <2>1. PICK x \in Node : x = out[i]
      BY <1>2, ElementOfSeq
    <2>2. x.has \X {x.frame} \subseteq BuffersOf(out)
      BY <1>2, <2>1, BuffersFacts
    <2>3. x.has = Streams
      BY <1>2, <2>1
    <2> QED
      BY <1>6, <2>1, <2>2, <2>3
  <1>8. ASSUME NEW i \in 1 .. Len(r)
        PROVE  /\ \A s \in r[i].has : PastAfter(s, r[i].frame)
               /\ \A k \in 1 .. A : cb_queue[k].frame < r[i].frame
               /\ \A h \in held : h[1] = "super" => h[3] < r[i].frame
    <2>1. PICK x \in Node : x = r[i]
      BY <1>2, ElementOfSeq
    <2>2. x.has \X {x.frame} \subseteq BuffersOf(r)
      BY <1>2, <2>1, BuffersFacts
    <2> QED
      BY <1>6, <2>1, <2>2
  <1>9. ASSUME NEW k \in 1 .. A + Len(out)
        PROVE  \/ k \in 1 .. A /\ cb_queue'[k] = cb_queue[k]
               \/ k > A /\ k - A \in 1 .. Len(out) /\ cb_queue'[k] = out[k - A]
    <2>1. CASE k <= A
      BY <1>1, <1>4, <2>1
    <2>2. CASE ~(k <= A)
      <3>1. k - A \in 1 .. Len(out) /\ k > A
        BY <1>1, <1>3, <2>2
      <3> QED
        BY <1>4, <2>2, <3>1
    <2> QED
      BY <2>1, <2>2
  <1>10. /\ \A i, j \in 1 .. A : i < j => cb_queue[i].frame < cb_queue[j].frame
         /\ \A i \in 1 .. A : cb_queue[i].has = Streams /\ \A s \in Streams : PastAfter(s, cb_queue[i].frame)
         /\ \A h \in held : h[1] = "super" =>
               /\ \A s \in Streams : PastAfter(s, h[3])
               /\ \A i \in 1 .. A : h[3] < cb_queue[i].frame
    BY KeptInOrder DEF Ascend, A
  <1>11. Ascend(cb_queue', r)
    <2>1. ASSUME NEW i \in 1 .. A + Len(out), NEW j \in 1 .. A + Len(out), i < j
          PROVE  cb_queue'[i].frame < cb_queue'[j].frame
      <3>1. CASE j \in 1 .. A /\ cb_queue'[j] = cb_queue[j]
        <4>1. i \in 1 .. A /\ ~(i > A)
          BY <1>1, <2>1, <3>1
        <4>2. cb_queue'[i] = cb_queue[i]
          BY <1>9, <4>1
        <4> QED
          BY <1>10, <2>1, <3>1, <4>1, <4>2
      <3>2. CASE j > A /\ j - A \in 1 .. Len(out) /\ cb_queue'[j] = out[j - A]
        <4>1. CASE i \in 1 .. A /\ cb_queue'[i] = cb_queue[i]
          BY <1>7, <3>2, <4>1
        <4>2. CASE i > A /\ i - A \in 1 .. Len(out) /\ cb_queue'[i] = out[i - A]
          <5>1. i - A < j - A
            BY <1>1, <2>1
          <5> QED
            BY <1>5, <3>2, <4>2, <5>1 DEF Ascend
        <4> QED
          BY <1>9, <4>1, <4>2
      <3> QED
        BY <1>9, <3>1, <3>2
    <2>2. ASSUME NEW i \in 1 .. A + Len(out), NEW j \in 1 .. Len(r)
          PROVE  cb_queue'[i].frame < r[j].frame
      <3>1. CASE i \in 1 .. A /\ cb_queue'[i] = cb_queue[i]
        BY <1>8, <3>1
      <3>2. CASE i - A \in 1 .. Len(out) /\ cb_queue'[i] = out[i - A]
        BY <1>5, <3>2 DEF Ascend
      <3> QED
        BY <1>9, <3>1, <3>2
    <2> QED
      BY <1>4, <1>5, <2>1, <2>2 DEF Ascend
  <1>12. ASSUME NEW i \in 1 .. Len(cb_queue')
         PROVE  cb_queue'[i].has = Streams /\ \A s \in Streams : PastAfter(s, cb_queue'[i].frame)
    <2>1. i \in 1 .. A + Len(out)
      BY <1>4
    <2>2. CASE i \in 1 .. A /\ cb_queue'[i] = cb_queue[i]
      BY <1>10, <2>2
    <2>3. CASE i - A \in 1 .. Len(out) /\ cb_queue'[i] = out[i - A]
      BY <1>2, <1>7, <2>3
    <2> QED
      BY <1>9, <2>1, <2>2, <2>3
  <1>13. ASSUME NEW h \in held, h[1] = "super"
         PROVE  /\ \A s \in Streams : PastAfter(s, h[3])
                /\ \A i \in 1 .. Len(cb_queue') : h[3] < cb_queue'[i].frame
                /\ \A i \in 1 .. Len(r) : h[3] < r[i].frame
    <2>1. ASSUME NEW i \in 1 .. A + Len(out) PROVE h[3] < cb_queue'[i].frame
      <3>1. CASE i \in 1 .. A /\ cb_queue'[i] = cb_queue[i]
        BY <1>10, <1>13, <3>1
      <3>2. CASE i - A \in 1 .. Len(out) /\ cb_queue'[i] = out[i - A]
        BY <1>7, <1>13, <3>2
      <3> QED
        BY <1>9, <3>1, <3>2
    <2> QED
      BY <1>4, <1>8, <1>10, <1>13, <2>1
  <1> QED
    BY <1>8, <1>11, <1>12, <1>13 DEF Ordered, r

\* A super buffer goes to the client.
LEMMA SentInOrder ==
    ASSUME Inv, Next, DispatchSuperBuf
    PROVE  Ordered
  <1> DEFINE A == Len(cb_queue)
             x == cb_queue[1]
             r == ch.que
  <1>1. /\ TypeOK /\ cb_queue # <<>> /\ cb_queue' = Tail(cb_queue) /\ ch' = ch
        /\ held' = held \cup {<<"super", b[1], b[2]>> : b \in BuffersOf(<<Head(cb_queue)>>)}
    BY DEF Inv, DispatchSuperBuf
  <1>2. /\ A \in Nat \ {0} /\ Len(cb_queue') = A - 1
        /\ \A i \in 1 .. A - 1 : cb_queue'[i] = cb_queue[i + 1]
        /\ BuffersOf(<<Head(cb_queue)>>) = x.has \X {x.frame}
    BY <1>1, SuperFacts
  <1>3. /\ Ascend(cb_queue, r)
        /\ \A i \in 1 .. Len(r) : \A s \in r[i].has : PastAfter(s, r[i].frame)
        /\ \A i \in 1 .. A : cb_queue[i].has = Streams /\ \A s \in Streams : PastAfter(s, cb_queue[i].frame)
        /\ \A h \in held : h[1] = "super" =>
              /\ \A s \in Streams : PastAfter(s, h[3])
              /\ \A i \in 1 .. A : h[3] < cb_queue[i].frame
              /\ \A i \in 1 .. Len(r) : h[3] < r[i].frame
    BY KeptInOrder
  <1>4. 1 \in 1 .. A /\ \A i \in 1 .. A - 1 : i + 1 \in 1 .. A /\ i \in Int /\ 1 < i + 1
    BY <1>2
  <1>5. ASSUME NEW h \in held' \ held
        PROVE  h[3] = x.frame
    <2>1. PICK b \in BuffersOf(<<Head(cb_queue)>>) : h = <<"super", b[1], b[2]>>
      BY <1>1
    <2>2. b[2] = x.frame
      BY <1>2
    <2> QED
      BY <2>1, <2>2
  <1> HIDE DEF A, r
  <1>6. Ascend(cb_queue', r)
    <2>1. ASSUME NEW i \in 1 .. A - 1, NEW j \in 1 .. A - 1, i < j
          PROVE  cb_queue'[i].frame < cb_queue'[j].frame
      <3>1. i + 1 < j + 1
        BY <1>2, <2>1
      <3> QED
        BY <1>2, <1>3, <1>4, <3>1 DEF Ascend, A
    <2>2. \A i \in 1 .. A - 1, j \in 1 .. Len(r) : cb_queue'[i].frame < r[j].frame
      BY <1>2, <1>3, <1>4 DEF Ascend, A
    <2> QED
      BY <1>2, <1>3, <2>1, <2>2 DEF Ascend
  <1>7. \A i \in 1 .. Len(cb_queue') :
           cb_queue'[i].has = Streams /\ \A s \in Streams : PastAfter(s, cb_queue'[i].frame)
    BY <1>2, <1>3, <1>4
  <1>8. ASSUME NEW h \in held', h[1] = "super"
        PROVE  /\ \A s \in Streams : PastAfter(s, h[3])
               /\ \A i \in 1 .. Len(cb_queue') : h[3] < cb_queue'[i].frame
               /\ \A i \in 1 .. Len(r) : h[3] < r[i].frame
    <2>1. CASE h \in held
      BY <1>2, <1>3, <1>4, <1>8, <2>1
    <2>2. CASE h \notin held
      <3>1. h[3] = x.frame
        BY <1>5, <1>8, <2>2
      <3>2. \A i \in 1 .. A - 1 : x.frame < cb_queue'[i].frame
        <4> TAKE i \in 1 .. A - 1
        <4>1. cb_queue[1].frame < cb_queue[i + 1].frame
          BY <1>3, <1>4 DEF Ascend, A
        <4> QED
          BY <1>2, <4>1
      <3>3. \A i \in 1 .. Len(r) : x.frame < r[i].frame
        BY <1>3, <1>4 DEF Ascend, A
      <3>4. \A s \in Streams : PastAfter(s, x.frame)
        BY <1>3, <1>4
      <3> HIDE DEF x
      <3> QED
        BY <1>2, <3>1, <3>2, <3>3, <3>4
    <2> QED
      BY <2>1, <2>2
  <1> QED
    BY <1>1, <1>3, <1>6, <1>7, <1>8 DEF Ordered, r

\* Each step keeps the order of what is under way.
LEMMA OrderStays ==
    ASSUME Inv, Next
    PROVE  Ordered
  <1>1. /\ TypeOK /\ Ascend(cb_queue, ch.que)
        /\ \A i \in 1 .. Len(ch.que) : \A s \in ch.que[i].has : PastAfter(s, ch.que[i].frame)
        /\ \A i \in 1 .. Len(cb_queue) :
              cb_queue[i].has = Streams /\ \A s \in Streams : PastAfter(s, cb_queue[i].frame)
        /\ \A h \in held : h[1] = "super" =>
              /\ \A s \in Streams : PastAfter(s, h[3])
              /\ \A i \in 1 .. Len(cb_queue) : h[3] < cb_queue[i].frame
              /\ \A i \in 1 .. Len(ch.que) : h[3] < ch.que[i].frame
    BY KeptInOrder DEF Inv
  <1>2. ASSUME ch'.que = ch.que, cb_queue' = cb_queue,
               \A h \in held' : h[1] = "super" => h \in held
        PROVE  Ordered
    BY <1>1, <1>2 DEF Ordered
  <1>3. CASE ProcessStreamBuf
    <2>1. /\ Taken /\ held' = held
          /\ \/ Flushed
             \/ /\ \E out : Served(DataOf(Head(cmd_queue)), out)
                /\ Head(cmd_queue).type # "FLUSH"
      BY <1>3, ProcessFacts
    <2>2. CASE Flushed
      <3>1. ch'.que = <<>> /\ cb_queue' = cb_queue /\ Len(<<>>) = 0
        BY <2>2, EmptySeq DEF Flushed
      <3>2. Ascend(cb_queue', ch'.que)
        BY <1>1, <3>1 DEF Ascend
      <3> QED
        BY <1>1, <2>1, <3>1, <3>2 DEF Ordered
    <2>3. ASSUME NEW out, Served(DataOf(Head(cmd_queue)), out), Head(cmd_queue).type # "FLUSH"
          PROVE  Ordered
      BY <2>1, <2>3, ServedInOrder
    <2> QED
      BY <2>1, <2>2, <2>3
  <1>4. ASSUME NEW s \in Watched, DispatchAppData(s) PROVE Ordered
    <2>1. \A h \in held' : h[1] = "super" => h \in held
      BY <1>4 DEF DispatchAppData
    <2> QED
      BY <1>2, <1>4, <2>1 DEF DispatchAppData
  <1>5. ASSUME NEW h \in held, BufDone(h) PROVE Ordered
    BY <1>2, <1>5 DEF BufDone
  <1>6. CASE StopReturns
    <2>1. ch \in Channel
      BY <1>1 DEF TypeOK
    <2>2. ch'.que = ch.que
      BY <1>6, <2>1 DEF StopReturns, Channel
    <2> QED
      BY <1>2, <1>6, <2>2 DEF StopReturns, client
  <1>7. CASE UNCHANGED <<ch, client>>
    BY <1>2, <1>7 DEF client
  <1>8. \/ UNCHANGED <<ch, client>> \/ ProcessStreamBuf \/ DispatchSuperBuf \/ StopReturns
        \/ (\E s \in Watched : DispatchAppData(s)) \/ \E h \in held : BufDone(h)
    BY DEF Next, FrameArrives, StartStream, StreamOff, StreamStops, RequestSuperBuf, FlushBegins,
           FlushReturns, StopBegins, StopFlushes, Stopped, vars
  <1> QED
    BY <1>3, <1>4, <1>5, <1>6, <1>7, <1>8, SentInOrder

\* The frames of a stream with a callback thread of its own.
LEMMA CallbacksStay ==
    ASSUME Inv, Next
    PROVE  CallbacksAscend' /\ AnswersArePast'
  <1>1. TypeOK /\ CallbacksAscend /\ AnswersArePast
    BY DEF Inv
  <1>2. \A s \in Streams : /\ last[s] \in Nat /\ last'[s] \in Nat /\ last[s] <= last'[s]
                           /\ Len(app_queue[s]) \in Nat /\ DOMAIN app_queue[s] = 1 .. Len(app_queue[s])
    <2>1. CommandStep /\ CommandsAscend
      BY <1>1, NextCommands DEF Inv
    <2>2. last' \in [Streams -> Nat] /\ \A s \in Streams : last[s] <= last'[s]
      BY <1>1, <2>1, PastStays
    <2> QED
      BY <1>1, <2>2, AppFacts DEF TypeOK
  <1>3. \A s \in Streams : \A i \in 1 .. Len(app_queue[s]) : app_queue[s][i] \in Nat
    BY <1>1, AppFacts
  <1>4. \A h \in held : h[2] \in Streams /\ h[3] \in Nat
    BY <1>1, PairFacts
  <1>5. ASSUME app_queue' = app_queue, \A h \in held' : h[1] = "app" => h \in held,
               \A s \in Streams : app_queue[s] # <<>> /\ state[s] # "REG" => state'[s] # "REG"
        PROVE  CallbacksAscend' /\ AnswersArePast'
    <2>1. ASSUME NEW s \in Streams, NEW i \in DOMAIN app_queue[s]
          PROVE  /\ app_queue[s][i] <= last'[s] /\ state'[s] # "REG"
                 /\ \A j \in DOMAIN app_queue[s] : i < j => app_queue[s][i] < app_queue[s][j]
      <3>1. app_queue[s][i] <= last[s] /\ state[s] # "REG"
        BY <1>1 DEF CallbacksAscend
      <3>2. app_queue[s] # <<>>
        BY <1>2, EmptySeq
      <3>3. app_queue[s][i] <= last'[s]
        BY <1>2, <1>3, <3>1
      <3> QED
        BY <1>1, <1>5, <3>1, <3>2, <3>3 DEF CallbacksAscend
    <2>2. CallbacksAscend'
      BY <1>5, <2>1 DEF CallbacksAscend
    <2>3. ASSUME NEW h \in held', h[1] = "app"
          PROVE  /\ h[3] <= last'[h[2]]
                 /\ \A i \in DOMAIN app_queue[h[2]] : h[3] < app_queue[h[2]][i]
      <3>1. h \in held /\ h[3] <= last[h[2]]
        BY <1>1, <1>5, <2>3 DEF AnswersArePast
      <3>2. h[3] <= last'[h[2]]
        BY <1>2, <1>4, <3>1
      <3> QED
        BY <1>1, <2>3, <3>1, <3>2 DEF AnswersArePast
    <2>4. AnswersArePast'
      BY <1>5, <2>3 DEF AnswersArePast
    <2> QED
      BY <2>2, <2>4
  <1>6. ASSUME NEW s \in Streams, NEW f \in Frames, NEW news \in News,
               FrameArrives(s, f, news)
        PROVE  CallbacksAscend' /\ AnswersArePast'
    <2>1. CASE s \notin Watched
      BY <1>5, <1>6, <2>1 DEF FrameArrives, client
    <2>2. CASE s \in Watched
      <3>1. PICK a : a = Append(app_queue[s], f)
        OBVIOUS
      <3>2. /\ a \in Seq(Frames) /\ Len(a) = Len(app_queue[s]) + 1
            /\ \A i \in 1 .. Len(app_queue[s]) : a[i] = app_queue[s][i]
            /\ a[Len(app_queue[s]) + 1] = f
        BY <1>1, <3>1, AppFacts
      <3>3. DOMAIN a = 1 .. Len(app_queue[s]) + 1
        BY <3>2, LenProperties
      <3>4. /\ app_queue' = [app_queue EXCEPT ![s] = a] /\ held' = held /\ state' = state
            /\ state[s] = "ACTIVE" /\ f > last[s] /\ last' = [last EXCEPT ![s] = f]
        BY <1>6, <2>2, <3>1 DEF FrameArrives, client
      <3>5. app_queue'[s] = a /\ last'[s] = f /\ \A t \in Streams : t # s => app_queue'[t] = app_queue[t]
        BY <1>1, <3>4 DEF TypeOK
      <3>6. f \in Nat
        BY ConstantTypes DEF Frames
      <3>7. \A i \in 1 .. Len(app_queue[s]) : app_queue[s][i] <= last[s]
        BY <1>1, <1>2 DEF CallbacksAscend
      <3>8. \A i \in DOMAIN a : (i \in 1 .. Len(app_queue[s]) /\ a[i] = app_queue[s][i])
                                \/ (i = Len(app_queue[s]) + 1 /\ a[i] = f)
        BY <1>2, <3>2, <3>3
      <3>9. ASSUME NEW i \in DOMAIN a
            PROVE  /\ a[i] <= f
                   /\ \A j \in DOMAIN a : i < j => a[i] < a[j]
        <4>1. CASE i \in 1 .. Len(app_queue[s]) /\ a[i] = app_queue[s][i]
          <5>1. a[i] <= last[s] /\ last[s] < f /\ a[i] \in Nat /\ last[s] \in Nat
            BY <1>2, <1>3, <3>4, <3>7, <4>1, <3>6
          <5>2. a[i] < f
            BY <3>6, <5>1
          <5>3. ASSUME NEW j \in DOMAIN a, i < j PROVE a[i] < a[j]
            <6>1. CASE j \in 1 .. Len(app_queue[s]) /\ a[j] = app_queue[s][j]
              BY <1>1, <1>2, <4>1, <5>3, <6>1 DEF CallbacksAscend
            <6>2. CASE a[j] = f
              BY <5>2, <6>2
            <6> QED
              BY <3>8, <6>1, <6>2
          <5> QED
            BY <3>6, <5>1, <5>2, <5>3
        <4>2. CASE i = Len(app_queue[s]) + 1 /\ a[i] = f
          BY <1>2, <3>3, <3>6, <4>2
        <4> QED
          BY <3>8, <4>1, <4>2
      <3>10. ASSUME NEW t \in Streams, t # s, NEW i \in DOMAIN app_queue[t]
             PROVE  /\ app_queue[t][i] <= last'[t] /\ state[t] # "REG"
                    /\ \A j \in DOMAIN app_queue[t] : i < j => app_queue[t][i] < app_queue[t][j]
        <4>1. app_queue[t][i] <= last[t]
          BY <1>1 DEF CallbacksAscend
        <4>2. app_queue[t][i] <= last'[t]
          BY <1>2, <1>3, <4>1
        <4> QED
          BY <1>1, <4>2 DEF CallbacksAscend
      <3>11. CallbacksAscend'
        <4>1. ASSUME NEW t \in Streams, NEW i \in DOMAIN app_queue'[t]
              PROVE  /\ app_queue'[t][i] <= last'[t] /\ state'[t] # "REG"
                     /\ \A j \in DOMAIN app_queue'[t] : i < j => app_queue'[t][i] < app_queue'[t][j]
          <5>1. CASE t = s
            BY <3>4, <3>5, <3>9, <4>1, <5>1
          <5>2. CASE t # s
            BY <3>4, <3>5, <3>10, <4>1, <5>2
          <5> QED
            BY <5>1, <5>2
        <4> QED
          BY <4>1 DEF CallbacksAscend
      <3>12. AnswersArePast'
        <4>1. ASSUME NEW h \in held, h[1] = "app"
              PROVE  /\ h[3] <= last'[h[2]]
                     /\ \A i \in DOMAIN app_queue'[h[2]] : h[3] < app_queue'[h[2]][i]
          <5>1. h[3] <= last[h[2]] /\ \A i \in DOMAIN app_queue[h[2]] : h[3] < app_queue[h[2]][i]
            BY <1>1, <4>1 DEF AnswersArePast
          <5>2. h[3] <= last'[h[2]]
            BY <1>2, <1>4, <5>1
          <5>3. CASE h[2] # s
            BY <1>4, <3>5, <5>1, <5>2, <5>3
          <5>4. CASE h[2] = s
            <6>1. h[3] < f
              BY <1>2, <1>4, <3>4, <3>6, <5>1, <5>4
            <6>2. \A i \in DOMAIN a : h[3] < a[i]
              BY <1>2, <3>8, <5>1, <5>4, <6>1
            <6> QED
              BY <3>5, <5>2, <5>4, <6>2
          <5> QED
            BY <5>3, <5>4
        <4> QED
          BY <3>4, <4>1 DEF AnswersArePast
      <3> QED
        BY <3>11, <3>12
    <2> QED
      BY <2>1, <2>2
  <1>7. ASSUME NEW s \in Watched, DispatchAppData(s) PROVE CallbacksAscend' /\ AnswersArePast'
    <2>1. s \in Streams /\ app_queue[s] # <<>>
      BY <1>7, QueueConstants DEF DispatchAppData
    <2>2. PICK a : a = Tail(app_queue[s])
      OBVIOUS
    <2>3. /\ 1 \in DOMAIN app_queue[s] /\ Head(app_queue[s]) = app_queue[s][1]
          /\ a \in Seq(Frames) /\ Len(a) = Len(app_queue[s]) - 1
          /\ \A i \in 1 .. Len(app_queue[s]) - 1 : a[i] = app_queue[s][i + 1]
      BY <1>1, <2>1, <2>2, AppFacts
    <2>4. DOMAIN a = 1 .. Len(app_queue[s]) - 1
      BY <2>3, LenProperties
    <2>5. /\ app_queue' = [app_queue EXCEPT ![s] = a] /\ last' = last /\ state' = state
          /\ held' = held \cup {<<"app", s, app_queue[s][1]>>}
      BY <1>7, <2>2, <2>3 DEF DispatchAppData, streams
    <2>6. app_queue'[s] = a /\ \A t \in Streams : t # s => app_queue'[t] = app_queue[t]
      BY <1>1, <2>1, <2>5 DEF TypeOK
    <2>7. \A i \in DOMAIN a : i + 1 \in DOMAIN app_queue[s] /\ a[i] = app_queue[s][i + 1] /\ 1 < i + 1
      BY <1>2, <2>1, <2>3, <2>4
    <2>8. ASSUME NEW i \in DOMAIN a
          PROVE  /\ a[i] <= last[s] /\ state[s] # "REG" /\ app_queue[s][1] < a[i]
                 /\ \A j \in DOMAIN a : i < j => a[i] < a[j]
      <3>1. a[i] <= last[s] /\ state[s] # "REG" /\ app_queue[s][1] < a[i]
        BY <1>1, <2>1, <2>3, <2>7 DEF CallbacksAscend
      <3>2. ASSUME NEW j \in DOMAIN a, i < j PROVE a[i] < a[j]
        <4>1. i + 1 < j + 1
          BY <2>4, <3>2
        <4> QED
          BY <1>1, <2>1, <2>7, <4>1 DEF CallbacksAscend
      <3> QED
        BY <3>1, <3>2
    <2>9. CallbacksAscend'
      <3>1. ASSUME NEW t \in Streams, NEW i \in DOMAIN app_queue'[t]
            PROVE  /\ app_queue'[t][i] <= last'[t] /\ state'[t] # "REG"
                   /\ \A j \in DOMAIN app_queue'[t] : i < j => app_queue'[t][i] < app_queue'[t][j]
        <4>1. CASE t = s
          BY <2>5, <2>6, <2>8, <3>1, <4>1
        <4>2. CASE t # s
          BY <1>1, <2>5, <2>6, <3>1, <4>2 DEF CallbacksAscend
        <4> QED
          BY <4>1, <4>2
      <3> QED
        BY <3>1 DEF CallbacksAscend
    <2>10. AnswersArePast'
      <3>1. ASSUME NEW h \in held', h[1] = "app"
            PROVE  /\ h[3] <= last'[h[2]]
                   /\ \A i \in DOMAIN app_queue'[h[2]] : h[3] < app_queue'[h[2]][i]
        <4>1. CASE h = <<"app", s, app_queue[s][1]>>
          <5>1. h[2] = s /\ h[3] = app_queue[s][1]
            BY <4>1
          <5>2. app_queue[s][1] <= last[s]
            BY <1>1, <2>1, <2>3 DEF CallbacksAscend
          <5> QED
            BY <2>5, <2>6, <2>8, <5>1, <5>2
        <4>2. CASE h \in held
          <5>1. h[3] <= last[h[2]] /\ \A i \in DOMAIN app_queue[h[2]] : h[3] < app_queue[h[2]][i]
            BY <1>1, <3>1, <4>2 DEF AnswersArePast
          <5>2. CASE h[2] = s
            BY <2>5, <2>6, <2>7, <5>1, <5>2
          <5>3. CASE h[2] # s
            BY <1>4, <2>5, <2>6, <4>2, <5>1, <5>3
          <5> QED
            BY <5>2, <5>3
        <4> QED
          BY <2>5, <3>1, <4>1, <4>2
      <3> QED
        BY <3>1 DEF AnswersArePast
    <2> QED
      BY <2>9, <2>10
  <1>8. CASE DispatchSuperBuf
    <2>1. \A h \in held' : h[1] = "app" => h \in held
      BY <1>8 DEF DispatchSuperBuf
    <2> QED
      BY <1>5, <1>8, <2>1 DEF DispatchSuperBuf, streams
  <1>9. ASSUME NEW h \in held, BufDone(h) PROVE CallbacksAscend' /\ AnswersArePast'
    BY <1>5, <1>9 DEF BufDone, GiveBack
  <1>10. CASE ProcessStreamBuf
    <2>1. app_queue' = app_queue /\ held' = held
      BY <1>10, ProcessFacts
    <2>2. state' = state
      BY <1>10 DEF ProcessStreamBuf, Serves, GiveBack
    <2> QED
      BY <1>5, <2>1, <2>2
  <1>11. ASSUME NEW s \in Streams, StartStream(s) \/ StreamOff(s) \/ StreamStops(s)
         PROVE  CallbacksAscend' /\ AnswersArePast'
    <2>1. app_queue' = app_queue /\ held' = held
      BY <1>11 DEF StartStream, StreamOff, StreamStops, client
    <2>2. \A t \in Streams : app_queue[t] # <<>> /\ state[t] # "REG" => state'[t] # "REG"
      BY <1>1, <1>11 DEF StartStream, StreamOff, StreamStops, TypeOK
    <2> QED
      BY <1>5, <2>1, <2>2
  <1>12. CASE UNCHANGED <<app_queue, held, state>>
    BY <1>5, <1>12
  <1>13. \/ UNCHANGED <<app_queue, held, state>> \/ ProcessStreamBuf \/ DispatchSuperBuf
         \/ (\E s \in Streams, f \in Frames, news \in News :
                FrameArrives(s, f, news))
         \/ (\E s \in Watched : DispatchAppData(s)) \/ (\E h \in held : BufDone(h))
         \/ \E s \in Streams : StartStream(s) \/ StreamOff(s) \/ StreamStops(s)
    BY DEF Next, RequestSuperBuf, FlushBegins, FlushReturns, StopBegins, StopFlushes, StopReturns,
           Stopped, vars, streams, client
  <1> QED
    BY <1>6, <1>7, <1>8, <1>9, <1>10, <1>11, <1>12, <1>13

\* A stream that is not running ignores the buffers that come back.
LEMMA IdleIgnores ==
    ASSUME TypeOK, NEW G \in SUBSET (Streams \X Frames), GiveBack(G),
           NEW s \in Streams, state[s] = "REG"
    PROVE  /\ \A f \in Frames : buf_refcnt'[s][f] = buf_refcnt[s][f]
           /\ queued_buffer_count'[s] = queued_buffer_count[s]
  <1> DEFINE taken == {b \in G : state[b[1]] # "REG" /\ buf_refcnt[b[1]][b[2]] > 0}
             back(t) == {b \in taken : b[1] = t /\ buf_refcnt[t][b[2]] = 1}
             less(t, f) == IF <<t, f>> \in taken THEN 1 ELSE 0
  <1>1. /\ buf_refcnt' = [t \in Streams |-> [f \in Frames |-> buf_refcnt[t][f] - less(t, f)]]
        /\ queued_buffer_count' = [t \in Streams |-> queued_buffer_count[t] + Cardinality(back(t))]
    BY DEF GiveBack
  <1>2. \A f \in Frames : less(s, f) = 0
    OBVIOUS
  <1>3. back(s) = {}
    OBVIOUS
  <1>4. Cardinality(back(s)) = 0
    BY <1>3, FS_EmptySet
  <1>5. queued_buffer_count[s] \in Int /\ \A f \in Frames : buf_refcnt[s][f] \in Int
    BY DEF TypeOK
  <1> HIDE DEF back, less
  <1> QED
    BY <1>1, <1>2, <1>4, <1>5

\* Which buffers a step gives back.
LEMMA GivenBack ==
    ASSUME Inv, ProcessStreamBuf \/ \E h \in held : BufDone(h)
    PROVE  /\ \E G \in SUBSET (Streams \X Frames) : GiveBack(G)
           /\ state' = state /\ api' = api /\ last' = last
  <1>1. TypeOK
    BY DEF Inv
  <1>2. ASSUME NEW h \in held, BufDone(h) PROVE \E G \in SUBSET (Streams \X Frames) : GiveBack(G)
    <2>1. {<<h[2], h[3]>>} \in SUBSET (Streams \X Frames)
      BY <1>1, PairFacts
    <2> QED
      BY <1>2, <2>1 DEF BufDone
  <1>3. ASSUME ProcessStreamBuf PROVE \E G \in SUBSET (Streams \X Frames) : GiveBack(G)
    <2>1. /\ Taken
          /\ \/ Flushed
             \/ \E out : Served(DataOf(Head(cmd_queue)), out)
      BY <1>3, ProcessFacts
    <2>2. BuffersOf(ch.que) \in SUBSET (Streams \X Frames)
      <3>1. ch.que \in Seq(Node)
        BY <1>1 DEF TypeOK, Channel
      <3> QED
        BY <3>1, BuffersFacts
    <2>3. CASE Flushed
      BY <2>2, <2>3 DEF Flushed
    <2>4. ASSUME NEW out, Served(DataOf(Head(cmd_queue)), out)
          PROVE  \E G \in SUBSET (Streams \X Frames) : GiveBack(G)
      <3>1. PICK b \in SUBSET (Streams \X Frames) : b = DataOf(Head(cmd_queue))
        BY <1>1, <2>1, HeadFacts DEF Taken
      <3>2. PICK G : G = (BuffersOf(ch.que) \cup b) \ (BuffersOf(ch'.que) \cup BuffersOf(out))
        OBVIOUS
      <3>3. G \in SUBSET (Streams \X Frames)
        BY <2>2, <3>1, <3>2
      <3>4. GiveBack(G)
        BY <2>4, <3>1, <3>2 DEF Served
      <3> QED
        BY <3>3, <3>4
    <2> QED
      BY <2>1, <2>3, <2>4
  <1>4. api' = api /\ last' = last
    BY DEF ProcessStreamBuf, BufDone
  <1> QED
    BY <1>2, <1>3, <1>4 DEF GiveBack

\* Each step leaves the streams that do not run without counts.
LEMMA IdleStreamsStay ==
    ASSUME Inv, Next
    PROVE  IdleStreams'
  <1>1. TypeOK /\ IdleStreams
    BY DEF Inv
  <1>2. CASE ProcessStreamBuf \/ \E h \in held : BufDone(h)
    <2>1. PICK G \in SUBSET (Streams \X Frames) : GiveBack(G) /\ state' = state /\ api' = api /\ last' = last
      BY <1>2, GivenBack
    <2>2. \A s \in Streams : state[s] = "REG" =>
             /\ \A f \in Frames : buf_refcnt'[s][f] = buf_refcnt[s][f]
             /\ queued_buffer_count'[s] = queued_buffer_count[s]
      BY <1>1, <2>1, IdleIgnores
    <2> QED
      BY <1>1, <2>1, <2>2 DEF IdleStreams
  <1>3. ASSUME NEW s \in Streams, NEW f \in Frames, NEW news \in News,
               FrameArrives(s, f, news)
        PROVE  IdleStreams'
    <2>1. /\ state' = state /\ api' = api /\ state[s] = "ACTIVE"
          /\ \A t \in Streams : t # s => /\ last'[t] = last[t] /\ buf_refcnt'[t] = buf_refcnt[t]
                                         /\ queued_buffer_count'[t] = queued_buffer_count[t]
      BY <1>1, <1>3 DEF FrameArrives, TypeOK
    <2> QED
      BY <1>1, <2>1 DEF IdleStreams
  <1>4. ASSUME NEW s \in Streams, StartStream(s) PROVE IdleStreams'
    <2>1. /\ api = "starting" /\ api' \in {"starting", "idle"}
          /\ state'[s] = "ACTIVE" /\ \A t \in Streams : t # s => state'[t] = state[t]
          /\ UNCHANGED <<buf_refcnt, queued_buffer_count, last>>
      BY <1>1, <1>4 DEF StartStream, TypeOK
    <2> QED
      BY <1>1, <2>1 DEF IdleStreams
  <1>5. ASSUME NEW s \in Streams, StreamOff(s) PROVE IdleStreams'
    <2>1. /\ api = "stopping" /\ api' = api
          /\ state'[s] = "OFF" /\ \A t \in Streams : t # s => state'[t] = state[t]
          /\ UNCHANGED <<buf_refcnt, queued_buffer_count, last>>
      BY <1>1, <1>5 DEF StreamOff, TypeOK
    <2> QED
      BY <1>1, <2>1 DEF IdleStreams
  <1>6. ASSUME NEW s \in Streams, StreamStops(s) PROVE IdleStreams'
    <2>1. api = "stopping" /\ api' = api
      BY <1>1, <1>6 DEF StreamStops, IdleStreams
    <2>2. PICK z : z = [f \in Frames |-> 0]
      OBVIOUS
    <2>3. buf_refcnt' = [buf_refcnt EXCEPT ![s] = z] /\ state' = [state EXCEPT ![s] = "REG"]
      BY <1>6, <2>2 DEF StreamStops
    <2>4. /\ state'[s] = "REG" /\ buf_refcnt'[s] = z
          /\ \A t \in Streams : t # s => state'[t] = state[t] /\ buf_refcnt'[t] = buf_refcnt[t]
      BY <1>1, <2>3 DEF TypeOK
    <2>5. \A f \in Frames : z[f] = 0
      BY <2>2
    <2> QED
      BY <1>1, <2>1, <2>4, <2>5 DEF IdleStreams
  <1>7. CASE StopFlushes
    BY <1>1, <1>7 DEF StopFlushes, IdleStreams, streams
  <1>8. CASE UNCHANGED streams /\ UNCHANGED <<last, api>>
    BY <1>1, <1>8 DEF IdleStreams, streams
  <1>9. CASE UNCHANGED streams /\ last' = last /\ api = "idle" /\ api' \in {"flushing", "stopping"}
    BY <1>1, <1>9 DEF IdleStreams, streams
  <1>10. CASE UNCHANGED streams /\ last' = last
              /\ <<api, api'>> \in {<<"flushing", "idle">>, <<"joining", "stopped">>}
    BY <1>1, <1>10 DEF IdleStreams, streams
  <1>11. \/ UNCHANGED streams /\ UNCHANGED <<last, api>>
         \/ UNCHANGED streams /\ last' = last /\ api = "idle" /\ api' \in {"flushing", "stopping"}
         \/ UNCHANGED streams /\ last' = last
              /\ <<api, api'>> \in {<<"flushing", "idle">>, <<"joining", "stopped">>}
         \/ StopFlushes \/ ProcessStreamBuf \/ (\E h \in held : BufDone(h))
         \/ (\E s \in Streams : StartStream(s) \/ StreamOff(s) \/ StreamStops(s))
         \/ (\E s \in Streams, f \in Frames, news \in News :
                FrameArrives(s, f, news))
    BY DEF Next, DispatchAppData, DispatchSuperBuf, RequestSuperBuf, FlushBegins, FlushReturns,
           StopBegins, StopReturns, Stopped, vars
  <1> QED
    BY <1>2, <1>3, <1>4, <1>5, <1>6, <1>7, <1>8, <1>9, <1>10, <1>11

\* A command is appended.
LEMMA FlushAppended ==
    ASSUME TypeOK, FlushIsAwaited, NEW x, cmd_queue' = Append(cmd_queue, x), sync_sem' = sync_sem,
           UNCHANGED <<cb_queue, ch>>,
           \/ x.type # "FLUSH" /\ api' = api /\ api \notin {"joining", "stopped"}
           \/ x.type = "FLUSH" /\ api \in {"idle", "stopping"} /\ api' \in {"flushing", "joining"}
    PROVE  FlushIsAwaited'
  <1> DEFINE n == Len(cmd_queue)
  <1>1. /\ Len(cmd_queue') = n + 1 /\ n \in Nat /\ DOMAIN cmd_queue = 1 .. n
        /\ DOMAIN cmd_queue' = 1 .. n + 1
        /\ \A i \in 1 .. n : cmd_queue'[i] = cmd_queue[i]
        /\ cmd_queue'[n + 1] = x
        /\ cmd_queue' # <<>>
    <2>1. cmd_queue \in Seq(Command) /\ n \in Nat /\ DOMAIN cmd_queue = 1 .. n
      BY LenProperties DEF TypeOK
    <2> QED
      BY <2>1
  <1> HIDE DEF n
  <1>2. sync_sem \in {0, 1}
    BY DEF TypeOK
  <1>3. \A i \in 1 .. n + 1 : (i \in 1 .. n /\ cmd_queue'[i] = cmd_queue[i]) \/ (i = n + 1 /\ cmd_queue'[i] = x)
    BY <1>1
  <1>4. CASE x.type # "FLUSH" /\ api' = api /\ api \notin {"joining", "stopped"}
    BY <1>1, <1>3, <1>4 DEF FlushIsAwaited, IsFlush
  <1>5. CASE x.type = "FLUSH" /\ api \in {"idle", "stopping"} /\ api' \in {"flushing", "joining"}
    <2>1. \A i \in 1 .. n : cmd_queue[i].type # "FLUSH"
      BY <1>1, <1>5 DEF FlushIsAwaited, IsFlush
    <2>2. sync_sem = 0
      BY <1>2, <1>5 DEF FlushIsAwaited
    <2>3. \A i \in 1 .. n + 1 : cmd_queue'[i].type = "FLUSH" => i = n + 1
      BY <1>3, <2>1
    <2> QED
      BY <1>1, <1>5, <2>2, <2>3 DEF FlushIsAwaited, IsFlush
  <1> QED
    BY <1>4, <1>5

\* Each step leaves one flush at most for who waits.
LEMMA FlushesStay ==
    ASSUME Inv, Next
    PROVE  FlushIsAwaited'
  <1>1. TypeOK /\ FlushIsAwaited /\ IdleStreams
    BY DEF Inv
  <1>2. sync_sem \in {0, 1} /\ ch \in Channel
    BY <1>1 DEF TypeOK
  <1>3. ASSUME NEW s \in Streams, NEW f \in Frames, NEW news \in News,
               FrameArrives(s, f, news)
        PROVE  FlushIsAwaited'
    <2>1. PICK x : x = [type |-> "DATA", stream |-> s, frame |-> f, news |-> news]
      OBVIOUS
    <2>2. x.type # "FLUSH"
      BY <2>1
    <2>3. api \notin {"joining", "stopped"}
      BY <1>1, <1>3 DEF FrameArrives, IdleStreams
    <2>4. cmd_queue' = Append(cmd_queue, x) /\ sync_sem' = sync_sem /\ api' = api /\ UNCHANGED <<cb_queue, ch>>
      BY <1>3, <2>1 DEF FrameArrives, client
    <2> QED
      BY <1>1, <2>2, <2>3, <2>4, FlushAppended
  <1>4. ASSUME NEW r \in Requests, RequestSuperBuf(r) PROVE FlushIsAwaited'
    <2>1. PICK x : x = [type |-> "REQ", num |-> r.num, retro |-> r.retro]
      OBVIOUS
    <2>2. x.type # "FLUSH"
      BY <2>1
    <2>3. cmd_queue' = Append(cmd_queue, x) /\ sync_sem' = sync_sem /\ api' = api /\ UNCHANGED <<cb_queue, ch>>
          /\ api = "idle"
      BY <1>4, <2>1 DEF RequestSuperBuf, client
    <2> QED
      BY <1>1, <2>2, <2>3, FlushAppended
  <1>5. ASSUME NEW f, cmd_queue' = Append(cmd_queue, [type |-> "FLUSH", frame |-> f]),
               sync_sem' = sync_sem, UNCHANGED <<cb_queue, ch>>,
               api \in {"idle", "stopping"}, api' \in {"flushing", "joining"}
        PROVE  FlushIsAwaited'
    <2>1. PICK x : x = [type |-> "FLUSH", frame |-> f]
      OBVIOUS
    <2>2. x.type = "FLUSH" /\ cmd_queue' = Append(cmd_queue, x)
      BY <1>5, <2>1
    <2> QED
      BY <1>1, <1>5, <2>2, FlushAppended
  <1>6. ASSUME NEW f \in Flushes, FlushBegins(f) PROVE FlushIsAwaited'
    BY <1>5, <1>6 DEF FlushBegins, client
  <1>7. CASE StopFlushes
    BY <1>5, <1>7 DEF StopFlushes, client
  <1>8. CASE ProcessStreamBuf
    <2> DEFINE n == Len(cmd_queue)
    <2>1. /\ Taken /\ api' = api
          /\ \/ Flushed
             \/ /\ \E out : Served(DataOf(Head(cmd_queue)), out)
                /\ sync_sem' = sync_sem /\ Head(cmd_queue).type # "FLUSH"
      BY <1>8, ProcessFacts DEF Inv
    <2>2. cmd_queue \in Seq(Command) /\ cmd_queue # <<>> /\ cmd_queue' = Tail(cmd_queue)
      BY <1>1, <2>1 DEF Taken, TypeOK
    <2>3. n \in Nat \ {0} /\ DOMAIN cmd_queue = 1 .. n /\ Head(cmd_queue) = cmd_queue[1]
      BY <2>2, EmptySeq, LenProperties
    <2>4. /\ Len(cmd_queue') = n - 1 /\ cmd_queue' \in Seq(Command)
          /\ \A i \in 1 .. n - 1 : cmd_queue'[i] = cmd_queue[i + 1]
      BY <2>2, HeadTailProperties
    <2>5. DOMAIN cmd_queue' = 1 .. n - 1 /\ (n = 1 <=> cmd_queue' = <<>>)
      BY <2>3, <2>4, LenProperties, EmptySeq
    <2> HIDE DEF n
    <2>6. \A i \in 1 .. n - 1 : i + 1 \in 1 .. n /\ i + 1 # 1 /\ cmd_queue'[i] = cmd_queue[i + 1]
      BY <2>3, <2>4
    <2>7. api # "stopped"
      BY <1>1, <2>2 DEF FlushIsAwaited
    <2>8. CASE Flushed
      <3>1. cmd_queue[1].type = "FLUSH" /\ 1 \in 1 .. n
        BY <2>3, <2>8 DEF Flushed
      <3>2. sync_sem = 0 /\ api \in {"flushing", "joining"} /\ \A i \in 1 .. n : cmd_queue[i].type = "FLUSH" => i = 1
        BY <1>1, <2>3, <3>1 DEF FlushIsAwaited, IsFlush
      <3>3. \A i \in 1 .. n - 1 : cmd_queue'[i].type # "FLUSH"
        BY <2>6, <3>2
      <3>4. api = "joining" => cmd_queue' = <<>>
        <4>1. api = "joining" => cmd_queue[n].type = "FLUSH"
          BY <1>1, <2>2 DEF FlushIsAwaited, IsFlush, n
        <4>2. n \in 1 .. n
          BY <2>3
        <4> QED
          BY <2>5, <3>2, <4>1, <4>2
      <3>5. ch'.que = <<>> /\ sync_sem' = 1
        BY <2>8, <3>2 DEF Flushed
      <3> QED
        BY <2>1, <2>5, <2>7, <3>2, <3>3, <3>4, <3>5 DEF FlushIsAwaited, IsFlush
    <2>9. CASE sync_sem' = sync_sem /\ Head(cmd_queue).type # "FLUSH"
      <3>1. \A i, j \in 1 .. n - 1 : cmd_queue'[i].type = "FLUSH" /\ cmd_queue'[j].type = "FLUSH" => i = j
        <4> TAKE i, j \in 1 .. n - 1
        <4> HAVE cmd_queue'[i].type = "FLUSH" /\ cmd_queue'[j].type = "FLUSH"
        <4>1. i + 1 = j + 1
          BY <1>1, <2>3, <2>6 DEF FlushIsAwaited, IsFlush
        <4> QED
          BY <4>1
      <3>2. (\E i \in 1 .. n - 1 : cmd_queue'[i].type = "FLUSH") =>
               sync_sem' = 0 /\ api' \in {"flushing", "joining"}
        BY <1>1, <2>1, <2>3, <2>6, <2>9 DEF FlushIsAwaited, IsFlush
      <3>3. api = "joining" => cmd_queue' # <<>> /\ cmd_queue'[n - 1].type = "FLUSH"
        <4> HAVE api = "joining"
        <4>1. cmd_queue[n].type = "FLUSH"
          BY <1>1, <2>2 DEF FlushIsAwaited, IsFlush, n
        <4>2. n # 1
          BY <2>3, <2>9, <4>1
        <4>3. n - 1 \in 1 .. n - 1 /\ (n - 1) + 1 = n
          BY <2>3, <4>2
        <4>4. cmd_queue'[n - 1] = cmd_queue[(n - 1) + 1]
          BY <2>6, <4>3
        <4> QED
          BY <2>5, <4>1, <4>2, <4>3, <4>4
      <3>4. sync_sem' = 1 => api' \in {"flushing", "joining"}
        BY <1>1, <2>1, <2>9 DEF FlushIsAwaited
      <3> QED
        BY <2>1, <2>4, <2>5, <2>7, <3>1, <3>2, <3>3, <3>4 DEF FlushIsAwaited, IsFlush
    <2> QED
      BY <2>1, <2>8, <2>9
  <1>9. CASE FlushReturns
    <2>1. api = "flushing" /\ sync_sem = 1 /\ sync_sem' = 0 /\ api' = "idle" /\ UNCHANGED <<cmd_queue, cb_queue, ch>>
      BY <1>2, <1>9 DEF FlushReturns, client
    <2> QED
      BY <1>1, <2>1 DEF FlushIsAwaited, IsFlush
  <1>10. CASE StopReturns
    <2>1. /\ api = "joining" /\ cmd_queue = <<>> /\ cb_queue = <<>> /\ api' = "stopped" /\ sync_sem' = 0
          /\ UNCHANGED <<cmd_queue, cb_queue>>
      BY <1>10 DEF StopReturns, client
    <2>2. ch'.que = ch.que
      BY <1>2, <1>10 DEF StopReturns, Channel
    <2>3. ch.que = <<>>
      BY <1>1, <2>1 DEF FlushIsAwaited
    <2> QED
      BY <2>1, <2>2, <2>3 DEF FlushIsAwaited, IsFlush
  <1>11. CASE StopBegins
    BY <1>1, <1>11 DEF StopBegins, client, FlushIsAwaited, IsFlush
  <1>12. ASSUME NEW s \in Streams, StartStream(s) PROVE FlushIsAwaited'
    <2>1. api = "starting" /\ api' \in {"starting", "idle"} /\ UNCHANGED <<cmd_queue, cb_queue, ch, sync_sem>>
      BY <1>12 DEF StartStream, client
    <2> QED
      BY <1>1, <2>1 DEF FlushIsAwaited, IsFlush
  <1>13. CASE DispatchSuperBuf
    <2>1. cb_queue # <<>> /\ UNCHANGED <<cmd_queue, ch, sync_sem, api>>
      BY <1>13 DEF DispatchSuperBuf
    <2> QED
      BY <1>1, <2>1 DEF FlushIsAwaited, IsFlush
  <1>14. CASE UNCHANGED <<cmd_queue, cb_queue, ch, sync_sem, api>>
    BY <1>1, <1>14 DEF FlushIsAwaited, IsFlush
  <1>15. \/ UNCHANGED <<cmd_queue, cb_queue, ch, sync_sem, api>>
         \/ ProcessStreamBuf \/ DispatchSuperBuf \/ FlushReturns \/ StopBegins \/ StopFlushes \/ StopReturns
         \/ (\E s \in Streams : StartStream(s))
         \/ (\E s \in Streams, f \in Frames, news \in News :
                FrameArrives(s, f, news))
         \/ (\E r \in Requests : RequestSuperBuf(r)) \/ \E f \in Flushes : FlushBegins(f)
    BY DEF Next, DispatchAppData, BufDone, StreamOff, StreamStops, Stopped, vars, client
  <1> QED
    BY <1>3, <1>4, <1>6, <1>7, <1>8, <1>9, <1>10, <1>11, <1>12, <1>13, <1>14, <1>15

\* Every state that mm_channel's threads reach satisfies the invariant: the queue is
\* sorted and counted, what has been brought is not brought again, a flush is awaited
\* by one thread.
THEOREM QueueInv == Spec => []Inv
  <1>1. Init => Inv
    <2> SUFFICES ASSUME Init PROVE Inv
      OBVIOUS
    <2>0. /\ <<>> \in Seq(Node) /\ <<>> \in Seq(Command) /\ <<>> \in Seq(Frames) /\ Len(<<>>) = 0
          /\ DOMAIN <<>> = {}
      BY EmptySeq
    <2>1. ch \in Channel
      BY <2>0 DEF Init, Channel
    <2>2. TypeOK
      <3>1. buf_refcnt \in [Streams -> [Frames -> Int]]
        <4>1. [f \in Frames |-> 0] \in [Frames -> Int]
          OBVIOUS
        <4> QED
          BY <4>1 DEF Init
      <3>2. queued_buffer_count \in [Streams -> Int] /\ last \in [Streams -> Nat]
        BY ConstantTypes DEF Init
      <3> QED
        BY <2>0, <2>1, <3>1, <3>2 DEF Init, TypeOK
    <2>3. /\ ch.que = <<>> /\ ch.match_cnt = 0 /\ ch.pending_cnt = 0 /\ ch.pending_retro_cnt = 0
          /\ ~ch.bWait /\ ~ch.startZSl /\ ~ch.spins
          /\ ch.burstSnapNum = 0 /\ ~ch.stopZslSnapshot
      BY DEF Init
    <2>4. GoodQueue(ch) /\ GoodRequest(ch) /\ ch.match_cnt <= water_mark /\ Lit(ch)
      <3>1. Sorted(ch.que, ch.match_cnt)
        BY <2>3, EmptyFacts
      <3> QED
        BY <2>0, <2>1, <2>3, <3>1, ConstantTypes DEF GoodQueue, GoodRequest, Lit
    <2>5. /\ cmd_queue = <<>> /\ cb_queue = <<>> /\ held = {} /\ sync_sem = 0 /\ api = "starting"
          /\ \A s \in Streams : app_queue[s] = <<>>
      BY DEF Init
    <2>6. CommandsAscend /\ QueuedArePast /\ SentArePast /\ HeldArePast /\ CallbacksAscend /\ AnswersArePast
      BY <2>0, <2>3, <2>5 DEF CommandsAscend, QueuedArePast, SentArePast, HeldArePast, CallbacksAscend,
                              AnswersArePast
    <2>7. FramesAreInOrder
      <3>1. PICK e \in Seq(Node) : e = <<>> /\ Len(e) = 0
        BY <2>0
      <3>2. 1 .. Len(e) = {}
        BY <3>1
      <3>3. InOrder(e \o e)
        BY <3>2, OrderSplits
      <3> QED
        BY <2>3, <2>5, <3>1, <3>3 DEF FramesAreInOrder
    <2>8. IdleStreams
      BY DEF Init, IdleStreams
    <2>9. FlushIsAwaited
      BY <2>0, <2>3, <2>5 DEF FlushIsAwaited
    <2> QED
      BY <2>2, <2>4, <2>6, <2>7, <2>8, <2>9 DEF Inv
  <1>2. Inv /\ [Next]_vars => Inv'
    <2>1. ASSUME Inv, Next PROVE Inv'
      <3>1. TypeOK'
        BY <2>1, TypesStay
      <3>2. Good(ch') /\ ch'.match_cnt <= water_mark /\ Lit(ch')
        BY <2>1, QueueStays
      <3>3. GoodQueue(ch)' /\ GoodRequest(ch)' /\ Lit(ch)'
        BY <3>2 DEF Good, GoodQueue, GoodRequest, Lit
      <3>4. CommandsAscend'
        BY <2>1, NextCommands, PastStays DEF Inv
      <3>5. QueuedArePast' /\ SentArePast' /\ FramesAreInOrder' /\ HeldArePast'
        BY <2>1, <3>1, OrderStays, OrderedFacts
      <3>6. CallbacksAscend' /\ AnswersArePast'
        BY <2>1, CallbacksStay
      <3>7. IdleStreams' /\ FlushIsAwaited'
        BY <2>1, IdleStreamsStay, FlushesStay
      <3> QED
        BY <3>1, <3>2, <3>3, <3>4, <3>5, <3>6, <3>7 DEF Inv
    <2>2. ASSUME Inv, UNCHANGED vars PROVE Inv'
      <3>1. /\ UNCHANGED <<state, buf_refcnt, queued_buffer_count, last, cmd_queue, app_queue, ch,
                           cb_queue, held, sync_sem, api>>
        BY <2>2 DEF vars, streams, client
      <3>2. TypeOK' /\ GoodQueue(ch)' /\ GoodRequest(ch)' /\ (ch.match_cnt <= water_mark)' /\ Lit(ch)'
        BY <2>2, <3>1 DEF Inv, TypeOK, GoodQueue, GoodRequest, Lit
      <3>3. CommandsAscend' /\ QueuedArePast' /\ SentArePast' /\ HeldArePast'
        BY <2>2, <3>1 DEF Inv, CommandsAscend, QueuedArePast, SentArePast, HeldArePast, IsPast
      <3>4. FramesAreInOrder' /\ CallbacksAscend' /\ AnswersArePast'
        BY <2>2, <3>1 DEF Inv, FramesAreInOrder, CallbacksAscend, AnswersArePast
      <3>5. IdleStreams' /\ FlushIsAwaited'
        BY <2>2, <3>1 DEF Inv, IdleStreams, FlushIsAwaited, IsFlush
      <3> QED
        BY <3>2, <3>3, <3>4, <3>5 DEF Inv
    <2> QED
      BY <2>1, <2>2
  <1> QED
    BY <1>1, <1>2, PTL DEF Spec

\* mm_channel_dispatch_super_buf gets the frames in the order of their numbers, and
\* what still stands in the queue is newer.
THEOREM InOrderAlways == Spec => []FramesAreInOrder
  <1>1. Inv => FramesAreInOrder
    BY DEF Inv
  <1> QED
    BY <1>1, QueueInv, PTL

\* mm_channel_process_stream_buf never leaves the sensor in its flash mode
\* (startZSlSnapshotCalled) with nothing requested, or out of it with something requested
\* that needs the flash or follows a range of good frames; nor does an order to stop
\* (stopZslSnapshot) outlive the command that brought it.
THEOREM FlashFollowsRequestAlways == Spec => []FlashFollowsRequest
  <1>1. Inv => FlashFollowsRequest
    BY DEF Inv, FlashFollowsRequest, Lit, GoodRequest
  <1> QED
    BY <1>1, QueueInv, PTL

\* The loops of mm_channel_superbuf_bufdone_overflow and mm_channel_superbuf_skip, which
\* wait for match_cnt to fall, find a complete super buffer at the head each time; and
\* mm_channel_superbuf_comp_and_enqueue has at most one frame too many to remove.
THEOREM LoopsEnd == Spec => []LoopsFindTheirNodes
  <1>1. Inv => LoopsFindTheirNodes
    <2> SUFFICES ASSUME Inv PROVE LoopsFindTheirNodes
      OBVIOUS
    <2>1. /\ ch.que \in Seq(Node) /\ Sorted(ch.que, ch.match_cnt) /\ ~ch.spins
          /\ Len(ch.que) - ch.match_cnt <= max_unmatched_frames + 1
      BY DEF Inv, GoodQueue, Channel
    <2>2. /\ MatchedHead(ch.que) = ch.match_cnt
          /\ DOMAIN ch.que \ Unmatched(ch.que) = 1 .. ch.match_cnt
          /\ Cardinality(Unmatched(ch.que)) = Len(ch.que) - ch.match_cnt
      BY <2>1, QueueFacts
    <2> QED
      BY <2>1, <2>2 DEF LoopsFindTheirNodes
  <1> QED
    BY <1>1, QueueInv, PTL

\* When mm_channel_stop has returned no command, super buffer or frame for a callback
\* is left.
THEOREM StoppedIsEmptyAlways == Spec => []StoppedIsEmpty
  <1>1. Inv => StoppedIsEmpty
    <2> SUFFICES ASSUME Inv, api = "stopped" PROVE
          /\ cmd_queue = <<>> /\ cb_queue = <<>> /\ ch.que = <<>>
          /\ \A s \in Streams : app_queue[s] = <<>>
      BY DEF StoppedIsEmpty
    <2>1. cmd_queue = <<>> /\ cb_queue = <<>> /\ ch.que = <<>>
      BY DEF Inv, FlushIsAwaited
    <2>2. ASSUME NEW s \in Streams, app_queue[s] # <<>> PROVE FALSE
      <3>1. 1 \in DOMAIN app_queue[s]
        BY <2>2, AppFacts DEF Inv
      <3>2. state[s] = "REG"
        BY DEF Inv, IdleStreams
      <3> QED
        BY <3>1, <3>2 DEF Inv, CallbacksAscend
    <2> QED
      BY <2>1, <2>2
  <1> QED
    BY <1>1, QueueInv, PTL
-----------------------------------------------------------------------------
(* The accounts of the buffers. The queue has a buffer from the command    *)
(* that brings it to the client's super buffer; the stream's own callback  *)
(* has it besides. Each counts one.                                        *)

Coming == {b \in Streams \X Frames : \E i \in DOMAIN cmd_queue :
              Brings(cmd_queue[i], b[1]) /\ cmd_queue[i].frame = b[2]}
Given(kind) == {b \in Streams \X Frames : <<kind, b[1], b[2]>> \in held}
InQueue == Coming \cup BuffersOf(ch.que) \cup BuffersOf(cb_queue) \cup Given("super")
Waiting == {b \in Streams \X Frames : \E i \in DOMAIN app_queue[b[1]] : app_queue[b[1]][i] = b[2]}
InCallback == Waiting \cup Given("app")

One(b, S) == IF b \in S THEN 1 ELSE 0
Counts(s, f) == One(<<s, f>>, InQueue) + One(<<s, f>>, InCallback)
Out(s) == {f \in Frames : buf_refcnt[s][f] > 0}

Accounts == \A s \in Streams : state[s] # "REG" =>
    /\ \A f \in Frames : buf_refcnt[s][f] = Counts(s, f)
    /\ queued_buffer_count[s] + Cardinality(Out(s)) = num_bufs

\* The places of the queue have nothing in common: a frame is in one of them.
LEMMA PlacesAreApart ==
    ASSUME Inv
    PROVE  /\ BuffersOf(ch.que) \subseteq Streams \X Frames /\ BuffersOf(cb_queue) \subseteq Streams \X Frames
           /\ Coming \cap BuffersOf(ch.que) = {} /\ Coming \cap BuffersOf(cb_queue) = {}
           /\ Coming \cap Given("super") = {}
           /\ BuffersOf(ch.que) \cap BuffersOf(cb_queue) = {}
           /\ BuffersOf(ch.que) \cap Given("super") = {}
           /\ BuffersOf(cb_queue) \cap Given("super") = {}
           /\ Waiting \cap Given("app") = {}
           /\ \A s \in Streams, f \in Frames :
                 <<s, f>> \in InQueue \cup InCallback => f \in Nat /\ last[s] \in Nat /\ f <= last[s]
  <1>1. /\ TypeOK /\ CommandsAscend /\ QueuedArePast /\ SentArePast /\ HeldArePast
        /\ FramesAreInOrder /\ CallbacksAscend /\ AnswersArePast
    BY DEF Inv
  <1>2. /\ ch.que \in Seq(Node) /\ cb_queue \in Seq(Node) /\ Passed(cb_queue, ch.que)
        /\ DOMAIN ch.que = 1 .. Len(ch.que) /\ DOMAIN cb_queue = 1 .. Len(cb_queue)
    BY <1>1, PassedFacts
  <1>3. /\ BuffersOf(ch.que) \subseteq Streams \X Frames /\ BuffersOf(cb_queue) \subseteq Streams \X Frames
        /\ \A s, f : <<s, f>> \in BuffersOf(ch.que) <=>
              \E i \in 1 .. Len(ch.que) : s \in ch.que[i].has /\ ch.que[i].frame = f
        /\ \A s, f : <<s, f>> \in BuffersOf(cb_queue) <=>
              \E i \in 1 .. Len(cb_queue) : s \in cb_queue[i].has /\ cb_queue[i].frame = f
    BY <1>2, BuffersFacts
  <1>4. \A f \in Frames : f \in Nat
    BY ConstantTypes DEF Frames
  <1>5. ASSUME NEW s \in Streams, NEW f \in Frames
        PROVE  /\ <<s, f>> \in BuffersOf(ch.que) => IsPast(s, f)
               /\ <<s, f>> \in BuffersOf(cb_queue) => IsPast(s, f)
               /\ <<s, f>> \in Given("super") => IsPast(s, f)
               /\ <<s, f>> \in Coming => ~IsPast(s, f) /\ f <= last[s]
               /\ <<s, f>> \in Waiting => f <= last[s]
               /\ <<s, f>> \in Given("app") =>
                     f <= last[s] /\ \A i \in DOMAIN app_queue[s] : f < app_queue[s][i]
    <2>1. <<s, f>> \in BuffersOf(ch.que) => IsPast(s, f)
      BY <1>2, <1>3 DEF Passed
    <2>2. <<s, f>> \in BuffersOf(cb_queue) => IsPast(s, f)
      BY <1>2, <1>3 DEF Passed
    <2>3. <<s, f>> \in Given("super") => IsPast(s, f)
      <3>1. <<s, f>> \in Given("super") => \E h \in held : h[1] = "super" /\ h[3] = f
        BY DEF Given
      <3> QED
        BY <1>1, <3>1 DEF HeldArePast
    <2>4. <<s, f>> \in Coming => ~IsPast(s, f) /\ f <= last[s]
      <3>1. <<s, f>> \in Coming => \E i \in DOMAIN cmd_queue : Brings(cmd_queue[i], s) /\ cmd_queue[i].frame = f
        BY DEF Coming
      <3>2. ~(f < f)
        BY <1>4
      <3> QED
        BY <1>1, <3>1, <3>2 DEF IsPast, CommandsAscend
    <2>5. <<s, f>> \in Waiting => f <= last[s]
      <3>1. <<s, f>> \in Waiting => \E i \in DOMAIN app_queue[s] : app_queue[s][i] = f
        BY DEF Waiting
      <3> QED
        BY <1>1, <3>1 DEF CallbacksAscend
    <2>6. <<s, f>> \in Given("app") => f <= last[s] /\ \A i \in DOMAIN app_queue[s] : f < app_queue[s][i]
      <3>1. <<s, f>> \in Given("app") => \E h \in held : h[1] = "app" /\ h[2] = s /\ h[3] = f
        BY DEF Given
      <3> QED
        BY <1>1, <3>1 DEF AnswersArePast
    <2> QED
      BY <2>1, <2>2, <2>3, <2>4, <2>5, <2>6
  <1>6. Coming \subseteq Streams \X Frames /\ Given("super") \subseteq Streams \X Frames
        /\ Waiting \subseteq Streams \X Frames
    BY DEF Coming, Given, Waiting
  <1>7. Coming \cap BuffersOf(ch.que) = {} /\ Coming \cap BuffersOf(cb_queue) = {}
        /\ Coming \cap Given("super") = {}
    <2>1. ASSUME NEW b \in Streams \X Frames
          PROVE  b \in Coming => b \notin BuffersOf(ch.que) /\ b \notin BuffersOf(cb_queue) /\ b \notin Given("super")
      <3>1. PICK s \in Streams, f \in Frames : b = <<s, f>>
        OBVIOUS
      <3> QED
        BY <1>5, <3>1
    <2> QED
      BY <1>6, <2>1
  <1>8. ASSUME NEW s \in Streams, NEW f \in Frames
        PROVE  /\ ~(<<s, f>> \in BuffersOf(ch.que) /\ <<s, f>> \in BuffersOf(cb_queue))
               /\ ~(<<s, f>> \in BuffersOf(ch.que) /\ <<s, f>> \in Given("super"))
               /\ ~(<<s, f>> \in BuffersOf(cb_queue) /\ <<s, f>> \in Given("super"))
               /\ ~(<<s, f>> \in Waiting /\ <<s, f>> \in Given("app"))
    <2>0. ~(f < f)
      BY <1>4
    <2>1. ~(<<s, f>> \in BuffersOf(ch.que) /\ <<s, f>> \in BuffersOf(cb_queue))
      BY <1>2, <1>3, <2>0 DEF Passed, Ascend
    <2>2. <<s, f>> \in Given("super") => \E h \in held : h[1] = "super" /\ h[3] = f
      BY DEF Given
    <2>3. <<s, f>> \in Given("super") => /\ \A i \in 1 .. Len(ch.que) : f < ch.que[i].frame
                                        /\ \A i \in 1 .. Len(cb_queue) : f < cb_queue[i].frame
      BY <1>1, <1>2, <2>2 DEF HeldArePast
    <2>4. /\ ~(<<s, f>> \in BuffersOf(ch.que) /\ <<s, f>> \in Given("super"))
          /\ ~(<<s, f>> \in BuffersOf(cb_queue) /\ <<s, f>> \in Given("super"))
      BY <1>3, <2>0, <2>3
    <2>5. <<s, f>> \in Waiting => \E i \in DOMAIN app_queue[s] : app_queue[s][i] = f
      BY DEF Waiting
    <2>6. ~(<<s, f>> \in Waiting /\ <<s, f>> \in Given("app"))
      BY <1>5, <2>0, <2>5
    <2> QED
      BY <2>1, <2>4, <2>6
  <1>9. /\ BuffersOf(ch.que) \cap BuffersOf(cb_queue) = {}
        /\ BuffersOf(ch.que) \cap Given("super") = {}
        /\ BuffersOf(cb_queue) \cap Given("super") = {}
        /\ Waiting \cap Given("app") = {}
    <2>1. ASSUME NEW b \in Streams \X Frames
          PROVE  /\ ~(b \in BuffersOf(ch.que) /\ b \in BuffersOf(cb_queue))
                 /\ ~(b \in BuffersOf(ch.que) /\ b \in Given("super"))
                 /\ ~(b \in BuffersOf(cb_queue) /\ b \in Given("super"))
                 /\ ~(b \in Waiting /\ b \in Given("app"))
      <3>1. PICK s \in Streams, f \in Frames : b = <<s, f>>
        OBVIOUS
      <3> QED
        BY <1>8, <3>1
    <2> QED
      BY <1>3, <1>6, <2>1
  <1>10. ASSUME NEW s \in Streams, NEW f \in Frames, <<s, f>> \in InQueue \cup InCallback
         PROVE  f \in Nat /\ last[s] \in Nat /\ f <= last[s]
    <2>1. IsPast(s, f) => f <= last[s]
      BY DEF IsPast
    <2>2. f <= last[s]
      BY <1>5, <1>10, <2>1 DEF InQueue, InCallback
    <2> QED
      BY <1>1, <1>4, <2>2 DEF TypeOK
  <1> QED
    BY <1>3, <1>7, <1>9, <1>10

\* Buffers given back: the counts fall, and what nobody counts is with the kernel.
Falls(G) ==
    \/ G \subseteq InQueue /\ InQueue' = InQueue \ G /\ InCallback' = InCallback
    \/ G \subseteq InCallback /\ InCallback' = InCallback \ G /\ InQueue' = InQueue

LEMMA GiveBackCounts ==
    ASSUME TypeOK, Accounts, NEW G \in SUBSET (Streams \X Frames), GiveBack(G), Falls(G)
    PROVE  Accounts'
  <1> DEFINE taken == {b \in G : state[b[1]] # "REG" /\ buf_refcnt[b[1]][b[2]] > 0}
             back(s) == {b \in taken : b[1] = s /\ buf_refcnt[s][b[2]] = 1}
             less(s, f) == IF <<s, f>> \in taken THEN 1 ELSE 0
  <1>1. /\ buf_refcnt' = [s \in Streams |-> [f \in Frames |-> buf_refcnt[s][f] - less(s, f)]]
        /\ queued_buffer_count' = [s \in Streams |-> queued_buffer_count[s] + Cardinality(back(s))]
        /\ state' = state
    BY DEF GiveBack
  <1>2. ASSUME NEW s \in Streams, state[s] # "REG"
        PROVE  /\ \A f \in Frames : buf_refcnt'[s][f] = Counts(s, f)'
               /\ queued_buffer_count'[s] + Cardinality(Out(s)') = num_bufs
    <2>1. /\ \A f \in Frames : buf_refcnt[s][f] = Counts(s, f)
          /\ queued_buffer_count[s] + Cardinality(Out(s)) = num_bufs
      BY <1>2 DEF Accounts
    <2>2. ASSUME NEW f \in Frames
          PROVE  /\ less(s, f) = One(<<s, f>>, G)
                 /\ Counts(s, f)' = Counts(s, f) - One(<<s, f>>, G)
                 /\ Counts(s, f) \in 0 .. 2 /\ Counts(s, f)' \in 0 .. 2
      <3>1. <<s, f>> \in G => buf_refcnt[s][f] > 0
        <4>1. <<s, f>> \in G => Counts(s, f) > 0
          BY DEF Counts, One, Falls
        <4> QED
          BY <2>1, <4>1
      <3>2. less(s, f) = One(<<s, f>>, G)
        BY <1>2, <3>1 DEF One
      <3>3. One(<<s, f>>, InQueue') + One(<<s, f>>, InCallback') = Counts(s, f) - One(<<s, f>>, G)
        BY DEF Counts, One, Falls
      <3>4. Counts(s, f)' = One(<<s, f>>, InQueue') + One(<<s, f>>, InCallback')
        BY DEF Counts, One
      <3> QED
        BY <3>2, <3>3, <3>4 DEF Counts, One
    <2>3. \A f \in Frames : buf_refcnt'[s][f] = Counts(s, f)'
      <3> HIDE DEF less
      <3> QED
        BY <1>1, <2>1, <2>2
    <2> DEFINE P == Out(s)
               R == Out(s)'
               Q == {f \in P : <<s, f>> \in G /\ buf_refcnt[s][f] = 1}
    <2>4. R = P \ Q
      <3>1. \A f \in Frames : f \in R <=> Counts(s, f)' > 0
        BY <2>3 DEF Out
      <3>2. \A f \in Frames : f \in P <=> Counts(s, f) > 0
        BY <2>1 DEF Out
      <3>3. \A f \in Frames : f \in Q <=> f \in P /\ <<s, f>> \in G /\ Counts(s, f) = 1
        BY <2>1
      <3>4. \A f \in Frames : <<s, f>> \in G => Counts(s, f) # 0
        BY DEF Counts, One, Falls
      <3>5. \A f \in Frames : Counts(s, f)' > 0 <=> Counts(s, f) > 0 /\ ~(<<s, f>> \in G /\ Counts(s, f) = 1)
        BY <2>2, <3>4 DEF One
      <3>6. R \subseteq Frames /\ P \subseteq Frames
        BY DEF Out
      <3> HIDE DEF P, Q, R
      <3> QED
        BY <3>1, <3>2, <3>3, <3>5, <3>6
    <2>5. IsFiniteSet(P) /\ Q \in SUBSET P /\ Cardinality(P) \in Nat /\ IsFiniteSet(Q)
      <3>1. IsFiniteSet(Frames) /\ P \in SUBSET Frames /\ Q \in SUBSET P
        BY FS_Interval, ConstantTypes DEF Frames, Out
      <3> HIDE DEF P, Q
      <3> QED
        BY <3>1, FS_Subset, FS_CardinalityType
    <2>6. Cardinality(R) = Cardinality(P) - Cardinality(Q) /\ Cardinality(Q) \in Nat
      <3> HIDE DEF P, Q, R
      <3>1. P \cap Q = Q
        BY <2>5
      <3>2. Cardinality(P \ Q) = Cardinality(P) - Cardinality(P \cap Q)
        BY <2>5, FS_Difference
      <3>3. Cardinality(Q) \in Nat
        BY <2>5, FS_CardinalityType
      <3> QED
        BY <2>4, <3>1, <3>2, <3>3
    <2>7. Cardinality(back(s)) = Cardinality(Q)
      <3> DEFINE g == [f \in Q |-> <<s, f>>]
      <3>1. \A b \in back(s) : b[1] = s /\ b[2] \in Q /\ b = <<s, b[2]>>
        <4> TAKE b \in back(s)
        <4>1. b \in Streams \X Frames /\ b[1] = s /\ b \in G /\ buf_refcnt[s][b[2]] = 1
          OBVIOUS
        <4>2. b = <<s, b[2]>> /\ b[2] \in Frames
          BY <4>1
        <4> QED
          BY <4>1, <4>2 DEF Out
      <3>2. \A f \in Q : <<s, f>> \in back(s)
        <4> TAKE f \in Q
        <4>1. <<s, f>> \in G /\ buf_refcnt[s][f] = 1
          OBVIOUS
        <4> QED
          BY <1>2, <4>1
      <3>3. g \in [Q -> back(s)] /\ \A x, y \in Q : g[x] = g[y] => x = y
        BY <3>2
      <3>4. \A b \in back(s) : \E f \in Q : g[f] = b
        BY <3>1
      <3> HIDE DEF g, back, Q
      <3>5. g \in Bijection(Q, back(s))
        BY <3>3, <3>4 DEF Bijection, Injection, Surjection, IsInjective
      <3>6. ExistsBijection(Q, back(s))
        BY <3>5 DEF ExistsBijection
      <3> QED
        BY <2>5, <3>6, FS_Bijection
    <2>8. queued_buffer_count[s] \in Int /\ num_bufs \in Nat
      BY ConstantTypes DEF TypeOK
    <2>9. queued_buffer_count'[s] = queued_buffer_count[s] + Cardinality(back(s))
      <3> HIDE DEF back
      <3> QED
        BY <1>1
    <2> HIDE DEF P, Q, R, back
    <2>10. queued_buffer_count'[s] + Cardinality(R) = num_bufs
      BY <2>1, <2>5, <2>6, <2>7, <2>8, <2>9 DEF P
    <2> QED
      BY <2>3, <2>10 DEF R
  <1> QED
    BY <1>1, <1>2 DEF Accounts

\* A command that is taken brings its buffer, which no other will bring.
LEMMA ComingTaken ==
    ASSUME TypeOK, CommandsAscend, Taken
    PROVE  /\ Coming = DataOf(Head(cmd_queue)) \cup Coming'
           /\ DataOf(Head(cmd_queue)) \cap Coming' = {}
  <1> DEFINE n == Len(cmd_queue)
             m == Head(cmd_queue)
  <1>1. cmd_queue \in Seq(Command) /\ cmd_queue # <<>> /\ cmd_queue' = Tail(cmd_queue)
    BY DEF Taken, TypeOK
  <1>2. n \in Nat \ {0} /\ DOMAIN cmd_queue = 1 .. n /\ m = cmd_queue[1]
    BY <1>1, EmptySeq, LenProperties
  <1>3. /\ Len(cmd_queue') = n - 1 /\ cmd_queue' \in Seq(Command)
        /\ \A i \in 1 .. n - 1 : cmd_queue'[i] = cmd_queue[i + 1]
    BY <1>1, HeadTailProperties
  <1>4. DOMAIN cmd_queue' = 1 .. n - 1
    BY <1>3, LenProperties
  <1>5. DataOf(m) \in SUBSET (Streams \X Frames)
    BY <1>1, HeadFacts
  <1> HIDE DEF n, m
  <1>6. ASSUME NEW s \in Streams, NEW f \in Frames
        PROVE  /\ <<s, f>> \in Coming <=> \E i \in 1 .. n : Brings(cmd_queue[i], s) /\ cmd_queue[i].frame = f
               /\ <<s, f>> \in Coming' <=> \E i \in 1 .. n - 1 : Brings(cmd_queue'[i], s) /\ cmd_queue'[i].frame = f
               /\ <<s, f>> \in DataOf(m) <=> Brings(cmd_queue[1], s) /\ cmd_queue[1].frame = f
    <2>1. <<s, f>> \in Coming <=> \E i \in 1 .. n : Brings(cmd_queue[i], s) /\ cmd_queue[i].frame = f
      BY <1>2 DEF Coming
    <2>2. <<s, f>> \in Coming' <=> \E i \in 1 .. n - 1 : Brings(cmd_queue'[i], s) /\ cmd_queue'[i].frame = f
      BY <1>4 DEF Coming
    <2>3. <<s, f>> \in DataOf(m) <=> Brings(cmd_queue[1], s) /\ cmd_queue[1].frame = f
      BY <1>2 DEF DataOf, Brings
    <2> QED
      BY <2>1, <2>2, <2>3
  <1>7. ASSUME NEW s \in Streams, NEW f \in Frames
        PROVE  /\ <<s, f>> \in Coming <=> <<s, f>> \in DataOf(m) \/ <<s, f>> \in Coming'
               /\ ~(<<s, f>> \in DataOf(m) /\ <<s, f>> \in Coming')
    <2>1. \A i \in 1 .. n - 1 : i + 1 \in 1 .. n /\ 1 < i + 1 /\ cmd_queue'[i] = cmd_queue[i + 1]
      BY <1>2, <1>3
    <2>2. 1 \in 1 .. n /\ \A i \in 1 .. n : i = 1 \/ (i - 1 \in 1 .. n - 1 /\ cmd_queue'[i - 1] = cmd_queue[i])
      <3>1. \A i \in 1 .. n : i = 1 \/ (i - 1 \in 1 .. n - 1 /\ (i - 1) + 1 = i)
        BY <1>2
      <3> QED
        BY <1>2, <1>3, <3>1
    <2>3. <<s, f>> \in Coming' => <<s, f>> \in Coming
      BY <1>6, <2>1
    <2>4. <<s, f>> \in DataOf(m) => <<s, f>> \in Coming
      BY <1>6, <2>2
    <2>5. <<s, f>> \in Coming => <<s, f>> \in DataOf(m) \/ <<s, f>> \in Coming'
      BY <1>6, <2>2
    <2>6. ASSUME <<s, f>> \in DataOf(m), <<s, f>> \in Coming' PROVE FALSE
      <3>1. PICK i \in 1 .. n - 1 : Brings(cmd_queue'[i], s) /\ cmd_queue'[i].frame = f
        BY <1>6, <2>6
      <3>2. Brings(cmd_queue[1], s) /\ cmd_queue[1].frame = f
        BY <1>6, <2>6
      <3>3. f < f
        BY <1>2, <2>1, <2>2, <3>1, <3>2 DEF CommandsAscend
      <3> QED
        BY <3>3, ConstantTypes DEF Frames
    <2> QED
      BY <2>3, <2>4, <2>5, <2>6
  <1>8. Coming \subseteq Streams \X Frames /\ Coming' \subseteq Streams \X Frames
    BY DEF Coming
  <1>9. ASSUME NEW b \in Streams \X Frames
        PROVE  /\ b \in Coming <=> b \in DataOf(m) \/ b \in Coming'
               /\ ~(b \in DataOf(m) /\ b \in Coming')
    <2>1. PICK s \in Streams, f \in Frames : b = <<s, f>>
      OBVIOUS
    <2> QED
      BY <1>7, <2>1
  <1>10. Coming = DataOf(m) \cup Coming' /\ DataOf(m) \cap Coming' = {}
    BY <1>5, <1>8, <1>9
  <1> QED
    BY <1>10 DEF m

\* A command that is appended will bring its buffer.
LEMMA ComingAppended ==
    ASSUME TypeOK, NEW x, cmd_queue' = Append(cmd_queue, x), DataOf(x) \subseteq Streams \X Frames
    PROVE  Coming' = Coming \cup DataOf(x)
  <1> DEFINE n == Len(cmd_queue)
  <1>1. /\ n \in Nat /\ DOMAIN cmd_queue = 1 .. n /\ DOMAIN cmd_queue' = 1 .. n + 1
        /\ \A i \in 1 .. n : cmd_queue'[i] = cmd_queue[i]
        /\ cmd_queue'[n + 1] = x
    <2>1. cmd_queue \in Seq(Command) /\ n \in Nat /\ DOMAIN cmd_queue = 1 .. n
      BY LenProperties DEF TypeOK
    <2> QED
      BY <2>1
  <1> HIDE DEF n
  <1>2. ASSUME NEW s \in Streams, NEW f \in Frames
        PROVE  <<s, f>> \in Coming' <=> <<s, f>> \in Coming \/ <<s, f>> \in DataOf(x)
    <2>1. <<s, f>> \in Coming <=> \E i \in 1 .. n : Brings(cmd_queue[i], s) /\ cmd_queue[i].frame = f
      BY <1>1 DEF Coming
    <2>2. <<s, f>> \in Coming' <=> \E i \in 1 .. n + 1 : Brings(cmd_queue'[i], s) /\ cmd_queue'[i].frame = f
      BY <1>1 DEF Coming
    <2>3. <<s, f>> \in DataOf(x) <=> Brings(x, s) /\ x.frame = f
      BY DEF DataOf, Brings
    <2>4. \A i \in 1 .. n + 1 : i \in 1 .. n \/ i = n + 1
      BY <1>1
    <2>5. n + 1 \in 1 .. n + 1 /\ \A i \in 1 .. n : i \in 1 .. n + 1
      BY <1>1
    <2> QED
      BY <1>1, <2>1, <2>2, <2>3, <2>4, <2>5
  <1>3. Coming \subseteq Streams \X Frames /\ Coming' \subseteq Streams \X Frames
    BY DEF Coming
  <1>4. ASSUME NEW b \in Streams \X Frames PROVE b \in Coming' <=> b \in Coming \/ b \in DataOf(x)
    <2>1. PICK s \in Streams, f \in Frames : b = <<s, f>>
      OBVIOUS
    <2> QED
      BY <1>2, <2>1
  <1> QED
    BY <1>3, <1>4

\* Two queues in a row have the buffers of both.
LEMMA ConcatBuffers ==
    ASSUME NEW a \in Seq(Node), NEW b \in Seq(Node)
    PROVE  BuffersOf(a \o b) = BuffersOf(a) \cup BuffersOf(b)
  <1> DEFINE r == a \o b
  <1>1. Len(a) \in Nat /\ Len(b) \in Nat
    BY LenProperties
  <1>2. /\ r \in Seq(Node) /\ Len(r) = Len(a) + Len(b)
        /\ \A k \in 1 .. Len(a) + Len(b) : r[k] = IF k <= Len(a) THEN a[k] ELSE b[k - Len(a)]
    BY ConcatProperties
  <1> HIDE DEF r
  <1>3. ASSUME NEW s, NEW f
        PROVE  <<s, f>> \in BuffersOf(r) <=> <<s, f>> \in BuffersOf(a) \/ <<s, f>> \in BuffersOf(b)
    <2>1. /\ <<s, f>> \in BuffersOf(r) <=> \E i \in 1 .. Len(a) + Len(b) : s \in r[i].has /\ r[i].frame = f
          /\ <<s, f>> \in BuffersOf(a) <=> \E i \in 1 .. Len(a) : s \in a[i].has /\ a[i].frame = f
          /\ <<s, f>> \in BuffersOf(b) <=> \E i \in 1 .. Len(b) : s \in b[i].has /\ b[i].frame = f
      <3>0. r \in Seq(Node)
        BY <1>2
      <3>1. <<s, f>> \in BuffersOf(r) <=> \E i \in 1 .. Len(r) : s \in r[i].has /\ r[i].frame = f
        BY <3>0, BuffersFacts
      <3>2. <<s, f>> \in BuffersOf(a) <=> \E i \in 1 .. Len(a) : s \in a[i].has /\ a[i].frame = f
        BY BuffersFacts
      <3>3. <<s, f>> \in BuffersOf(b) <=> \E i \in 1 .. Len(b) : s \in b[i].has /\ b[i].frame = f
        BY BuffersFacts
      <3> QED
        BY <1>2, <3>1, <3>2, <3>3
    <2>2. \A i \in 1 .. Len(a) : i \in 1 .. Len(a) + Len(b) /\ r[i] = a[i]
      BY <1>1, <1>2
    <2>3. \A i \in 1 .. Len(b) : i + Len(a) \in 1 .. Len(a) + Len(b) /\ r[i + Len(a)] = b[i]
      <3> TAKE i \in 1 .. Len(b)
      <3>1. PICK k \in 1 .. Len(a) + Len(b) : k = i + Len(a)
        BY <1>1
      <3>2. ~(k <= Len(a)) /\ k - Len(a) = i
        BY <1>1, <3>1
      <3> QED
        BY <1>2, <3>1, <3>2
    <2>4. \A i \in 1 .. Len(a) + Len(b) :
             \/ i \in 1 .. Len(a) /\ r[i] = a[i]
             \/ i - Len(a) \in 1 .. Len(b) /\ r[i] = b[i - Len(a)]
      BY <1>1, <1>2
    <2> QED
      BY <2>1, <2>2, <2>3, <2>4
  <1>4. /\ BuffersOf(a) \subseteq Streams \X Frames /\ BuffersOf(b) \subseteq Streams \X Frames
        /\ BuffersOf(r) \subseteq Streams \X Frames
    BY <1>2, BuffersFacts
  <1>5. \A c \in Streams \X Frames : c \in BuffersOf(r) <=> c \in BuffersOf(a) \/ c \in BuffersOf(b)
    <2> TAKE c \in Streams \X Frames
    <2>1. PICK s \in Streams, f \in Frames : c = <<s, f>>
      OBVIOUS
    <2> QED
      BY <1>3, <2>1
  <1> QED
    BY <1>4, <1>5 DEF r

\* What a step leaves alone.
LEMMA PlacesStay ==
    /\ cmd_queue' = cmd_queue => Coming' = Coming
    /\ ch'.que = ch.que => BuffersOf(ch'.que) = BuffersOf(ch.que)
    /\ cb_queue' = cb_queue => BuffersOf(cb_queue') = BuffersOf(cb_queue)
    /\ held' = held => Given("super")' = Given("super") /\ Given("app")' = Given("app")
    /\ app_queue' = app_queue => Waiting' = Waiting
    /\ InQueue' = Coming' \cup BuffersOf(ch'.que) \cup BuffersOf(cb_queue') \cup Given("super")'
    /\ InCallback' = Waiting' \cup Given("app")'
  BY DEF Coming, Given, Waiting, InQueue, InCallback, BuffersOf

\* The command thread gives back what leaves the queue and goes to nobody.
LEMMA ProcessCounts ==
    ASSUME Inv, Accounts, ProcessStreamBuf
    PROVE  Accounts'
  <1>1. /\ TypeOK /\ CommandsAscend /\ ch.que \in Seq(Node) /\ cb_queue \in Seq(Node)
    BY PassedFacts DEF Inv
  <1>2. /\ Taken /\ UNCHANGED <<app_queue, held, api>>
        /\ \/ Flushed
           \/ /\ \E out : Served(DataOf(Head(cmd_queue)), out)
              /\ Head(cmd_queue).type # "FLUSH"
    BY ProcessFacts
  <1> DEFINE D == DataOf(Head(cmd_queue))
  <1>3. Coming = D \cup Coming' /\ D \cap Coming' = {} /\ D \in SUBSET (Streams \X Frames)
    BY <1>1, <1>2, ComingTaken, HeadFacts DEF Taken
  <1>4. /\ Given("super")' = Given("super") /\ InCallback' = InCallback
        /\ InQueue' = Coming' \cup BuffersOf(ch'.que) \cup BuffersOf(cb_queue') \cup Given("super")'
    BY <1>2, PlacesStay DEF InCallback
  <1>5. /\ BuffersOf(ch.que) \subseteq Streams \X Frames
        /\ Coming \cap BuffersOf(ch.que) = {} /\ Coming \cap BuffersOf(cb_queue) = {}
        /\ Coming \cap Given("super") = {}
        /\ BuffersOf(ch.que) \cap BuffersOf(cb_queue) = {}
        /\ BuffersOf(ch.que) \cap Given("super") = {}
    BY PlacesAreApart
  <1>6. CASE Flushed
    <2>1. D = {}
      BY <1>6 DEF Flushed, DataOf
    <2>2. BuffersOf(ch'.que) = {} /\ cb_queue' = cb_queue /\ GiveBack(BuffersOf(ch.que))
      BY <1>6, EmptyFacts DEF Flushed
    <2> HIDE DEF D
    <2>3. InQueue' = InQueue \ BuffersOf(ch.que)
      BY <1>3, <1>4, <1>5, <2>1, <2>2 DEF InQueue
    <2>4. Falls(BuffersOf(ch.que))
      BY <1>4, <2>3 DEF Falls, InQueue
    <2>5. PICK G \in SUBSET (Streams \X Frames) : G = BuffersOf(ch.que)
      BY <1>5
    <2> QED
      BY <1>1, <2>2, <2>4, <2>5, GiveBackCounts
  <1>7. ASSUME NEW out, Served(D, out), Head(cmd_queue).type # "FLUSH" PROVE Accounts'
    <2>1. PICK G : G = (BuffersOf(ch.que) \cup D) \ (BuffersOf(ch'.que) \cup BuffersOf(out))
      OBVIOUS
    <2> HIDE DEF D
    <2>2. GiveBack(G) /\ out \in Seq(Node) /\ cb_queue' = cb_queue \o out
          /\ BuffersOf(out) \cup BuffersOf(ch'.que) \subseteq BuffersOf(ch.que) \cup D
      BY <1>7, <2>1 DEF Served
    <2>3. BuffersOf(cb_queue') = BuffersOf(cb_queue) \cup BuffersOf(out)
      BY <1>1, <2>2, ConcatBuffers
    <2>4. InQueue' = InQueue \ G
      BY <1>3, <1>4, <1>5, <2>1, <2>2, <2>3 DEF InQueue
    <2>5. G \subseteq InQueue
      BY <1>3, <2>1 DEF InQueue
    <2>6. G \in SUBSET (Streams \X Frames)
      BY <1>3, <1>5, <2>1
    <2> QED
      BY <1>1, <1>4, <2>2, <2>4, <2>5, <2>6, GiveBackCounts DEF Falls
  <1> QED
    BY <1>2, <1>6, <1>7

\* The client gives back what it holds, each for its callback.
LEMMA BufDoneCounts ==
    ASSUME Inv, Accounts, NEW h \in held, BufDone(h)
    PROVE  Accounts'
  <1>1. TypeOK
    BY DEF Inv
  <1>2. /\ h[1] \in {"app", "super"} /\ h[2] \in Streams /\ h[3] \in Frames /\ h = <<h[1], h[2], h[3]>>
    BY <1>1, PairFacts
  <1>3. PICK s \in Streams, f \in Frames : s = h[2] /\ f = h[3]
    BY <1>2
  <1>4. /\ held' = held \ {h} /\ GiveBack({<<s, f>>})
        /\ UNCHANGED <<cmd_queue, app_queue, ch, cb_queue>>
    BY <1>3 DEF BufDone
  <1>5. /\ Coming' = Coming /\ Waiting' = Waiting
        /\ InQueue' = Coming \cup BuffersOf(ch.que) \cup BuffersOf(cb_queue) \cup Given("super")'
        /\ InCallback' = Waiting \cup Given("app")'
    BY <1>4, PlacesStay
  <1>6. CASE h[1] = "super"
    <2>1. h = <<"super", s, f>>
      BY <1>2, <1>3, <1>6
    <2>2. Given("super")' = Given("super") \ {<<s, f>>} /\ <<s, f>> \in Given("super")
      BY <1>4, <2>1 DEF Given
    <2>3. Given("app")' = Given("app")
      BY <1>4, <2>1 DEF Given
    <2>4. InQueue' = InQueue \ {<<s, f>>}
      BY <1>5, <2>2, PlacesAreApart DEF InQueue
    <2>5. Falls({<<s, f>>})
      BY <1>5, <2>2, <2>3, <2>4 DEF Falls, InQueue, InCallback
    <2>6. PICK G \in SUBSET (Streams \X Frames) : G = {<<s, f>>}
      <3>1. {<<s, f>>} \in SUBSET (Streams \X Frames)
        OBVIOUS
      <3> QED
        BY <3>1
    <2> QED
      BY <1>1, <1>4, <2>5, <2>6, GiveBackCounts
  <1>7. CASE h[1] = "app"
    <2>1. h = <<"app", s, f>>
      BY <1>2, <1>3, <1>7
    <2>2. Given("app")' = Given("app") \ {<<s, f>>} /\ <<s, f>> \in Given("app")
      BY <1>4, <2>1 DEF Given
    <2>3. Given("super")' = Given("super")
      BY <1>4, <2>1 DEF Given
    <2>4. InCallback' = InCallback \ {<<s, f>>}
      BY <1>5, <2>2, PlacesAreApart DEF InCallback
    <2>5. Falls({<<s, f>>})
      BY <1>5, <2>2, <2>3, <2>4 DEF Falls, InQueue, InCallback
    <2>6. PICK G \in SUBSET (Streams \X Frames) : G = {<<s, f>>}
      <3>1. {<<s, f>>} \in SUBSET (Streams \X Frames)
        OBVIOUS
      <3> QED
        BY <3>1
    <2> QED
      BY <1>1, <1>4, <2>5, <2>6, GiveBackCounts
  <1> QED
    BY <1>2, <1>6, <1>7

\* A frame comes in: its stream has not had it before, and nobody counts it.
LEMMA ArrivalCounts ==
    ASSUME Inv, Accounts, NEW s \in Streams, NEW f \in Frames, NEW news \in News,
           FrameArrives(s, f, news)
    PROVE  Accounts'
  <1>1. TypeOK
    BY DEF Inv
  <1>2. PICK x : x = [type |-> "DATA", stream |-> s, frame |-> f, news |-> news]
    OBVIOUS
  <1>3. DataOf(x) = {<<s, f>>}
    BY <1>2 DEF DataOf
  <1>4. /\ cmd_queue' = Append(cmd_queue, x) /\ UNCHANGED <<ch, cb_queue, held, state>>
        /\ state[s] = "ACTIVE" /\ f > last[s]
    BY <1>2 DEF FrameArrives, client
  <1>5. Coming' = Coming \cup {<<s, f>>}
    <2>1. DataOf(x) \subseteq Streams \X Frames
      BY <1>3
    <2> QED
      BY <1>1, <1>3, <1>4, <2>1, ComingAppended
  <1>6. /\ InQueue' = InQueue \cup {<<s, f>>} /\ Given("app")' = Given("app")
        /\ InCallback' = Waiting' \cup Given("app")
    BY <1>4, <1>5, PlacesStay DEF InQueue
  <1>7. InCallback' = IF s \in Watched THEN InCallback \cup {<<s, f>>} ELSE InCallback
    <2>1. CASE s \notin Watched
      <3>1. app_queue' = app_queue
        BY <2>1 DEF FrameArrives
      <3> QED
        BY <1>6, <2>1, <3>1, PlacesStay DEF InCallback
    <2>2. CASE s \in Watched
      <3>1. PICK a : a = Append(app_queue[s], f)
        OBVIOUS
      <3>2. app_queue' = [app_queue EXCEPT ![s] = a]
        BY <2>2, <3>1 DEF FrameArrives
      <3>3. app_queue'[s] = a /\ \A t \in Streams : t # s => app_queue'[t] = app_queue[t]
        BY <1>1, <3>2 DEF TypeOK
      <3>4. /\ Len(app_queue[s]) \in Nat /\ DOMAIN app_queue[s] = 1 .. Len(app_queue[s])
            /\ a \in Seq(Frames) /\ Len(a) = Len(app_queue[s]) + 1
            /\ \A i \in 1 .. Len(app_queue[s]) : a[i] = app_queue[s][i]
            /\ a[Len(app_queue[s]) + 1] = f
        BY <1>1, <3>1, AppFacts
      <3>5. DOMAIN a = 1 .. Len(app_queue[s]) + 1
        BY <3>4, LenProperties
      <3>6. ASSUME NEW t \in Streams, NEW g \in Frames
            PROVE  <<t, g>> \in Waiting' <=> <<t, g>> \in Waiting \/ (t = s /\ g = f)
        <4>1. /\ <<t, g>> \in Waiting <=> \E i \in DOMAIN app_queue[t] : app_queue[t][i] = g
              /\ <<t, g>> \in Waiting' <=> \E i \in DOMAIN app_queue'[t] : app_queue'[t][i] = g
          BY DEF Waiting
        <4>2. CASE t # s
          BY <3>3, <4>1, <4>2
        <4>3. CASE t = s
          <5>1. \A i \in 1 .. Len(app_queue[s]) + 1 : i \in 1 .. Len(app_queue[s]) \/ i = Len(app_queue[s]) + 1
            BY <3>4
          <5>2. /\ Len(app_queue[s]) + 1 \in 1 .. Len(app_queue[s]) + 1
                /\ \A i \in 1 .. Len(app_queue[s]) : i \in 1 .. Len(app_queue[s]) + 1
            BY <3>4
          <5> QED
            BY <3>3, <3>4, <3>5, <4>1, <4>3, <5>1, <5>2
        <4> QED
          BY <4>2, <4>3
      <3>7. Waiting' = Waiting \cup {<<s, f>>}
        <4>1. Waiting \subseteq Streams \X Frames /\ Waiting' \subseteq Streams \X Frames
          BY DEF Waiting
        <4>2. \A b \in Streams \X Frames : b \in Waiting' <=> b \in Waiting \/ b = <<s, f>>
          <5> TAKE b \in Streams \X Frames
          <5>1. PICK t \in Streams, g \in Frames : b = <<t, g>>
            OBVIOUS
          <5>2. <<t, g>> = <<s, f>> <=> t = s /\ g = f
            OBVIOUS
          <5> QED
            BY <3>6, <5>1, <5>2
        <4> QED
          BY <4>1, <4>2
      <3> QED
        BY <1>6, <2>2, <3>7 DEF InCallback
    <2> QED
      BY <2>1, <2>2
  <1>8. <<s, f>> \notin InQueue /\ <<s, f>> \notin InCallback
    <2>1. <<s, f>> \in InQueue \cup InCallback => f \in Nat /\ last[s] \in Nat /\ f <= last[s]
      BY PlacesAreApart
    <2> QED
      BY <1>4, <2>1
  <1>9. PICK n \in {1, 2} : n = IF s \in Watched THEN 2 ELSE 1
    OBVIOUS
  <1>10. /\ buf_refcnt' = [buf_refcnt EXCEPT ![s][f] = n]
         /\ queued_buffer_count' = [queued_buffer_count EXCEPT ![s] = @ - 1]
    BY <1>9 DEF FrameArrives
  <1>11. /\ buf_refcnt'[s][f] = n
         /\ \A g \in Frames : g # f => buf_refcnt'[s][g] = buf_refcnt[s][g]
         /\ \A t \in Streams : t # s => buf_refcnt'[t] = buf_refcnt[t]
         /\ queued_buffer_count'[s] = queued_buffer_count[s] - 1
         /\ \A t \in Streams : t # s => queued_buffer_count'[t] = queued_buffer_count[t]
    BY <1>1, <1>10 DEF TypeOK
  <1>12. ASSUME NEW t \in Streams, NEW g \in Frames
         PROVE  /\ Counts(t, g) \in Int /\ Counts(t, g)' = One(<<t, g>>, InQueue') + One(<<t, g>>, InCallback')
                /\ <<t, g>> # <<s, f>> => Counts(t, g)' = Counts(t, g)
    BY <1>6, <1>7 DEF Counts, One
  <1>13. Counts(s, f) = 0 /\ Counts(s, f)' = n
    BY <1>6, <1>7, <1>8, <1>9, <1>12 DEF Counts, One
  <1>14. ASSUME NEW t \in Streams, t # s
         PROVE  Out(t)' = Out(t) /\ \A g \in Frames : Counts(t, g)' = Counts(t, g) /\ buf_refcnt'[t][g] = buf_refcnt[t][g]
    <2>1. \A g \in Frames : <<t, g>> # <<s, f>>
      BY <1>14
    <2> QED
      BY <1>11, <1>12, <1>14, <2>1 DEF Out
  <1>15. /\ \A g \in Frames : buf_refcnt[s][g] = Counts(s, g)
         /\ queued_buffer_count[s] + Cardinality(Out(s)) = num_bufs
    BY <1>4 DEF Accounts
  <1>16. \A g \in Frames : buf_refcnt'[s][g] = Counts(s, g)'
    <2> TAKE g \in Frames
    <2>1. g # f => <<s, g>> # <<s, f>>
      OBVIOUS
    <2> QED
      BY <1>11, <1>12, <1>13, <1>15, <2>1
  <1>17. Out(s)' = Out(s) \cup {f} /\ f \notin Out(s)
    <2>1. \A g \in Frames : g \in Out(s)' <=> g \in Out(s) \/ g = f
      BY <1>9, <1>11 DEF Out
    <2>2. Out(s) \subseteq Frames /\ Out(s)' \subseteq Frames
      BY DEF Out
    <2>3. f \notin Out(s)
      BY <1>13, <1>15 DEF Out
    <2> QED
      BY <2>1, <2>2, <2>3
  <1>18. queued_buffer_count'[s] + Cardinality(Out(s)') = num_bufs
    <2>1. IsFiniteSet(Frames) /\ Out(s) \in SUBSET Frames
      BY FS_Interval, ConstantTypes DEF Frames, Out
    <2>2. IsFiniteSet(Out(s)) /\ Cardinality(Out(s)) \in Nat
      BY <2>1, FS_Subset, FS_CardinalityType
    <2>3. Cardinality(Out(s) \cup {f}) = Cardinality(Out(s)) + 1
      BY <1>17, <2>2, FS_AddElement
    <2>4. queued_buffer_count[s] \in Int
      BY <1>1 DEF TypeOK
    <2> QED
      BY <1>11, <1>15, <1>17, <2>2, <2>3, <2>4
  <1>19. ASSUME NEW t \in Streams, state'[t] # "REG"
         PROVE  /\ \A g \in Frames : buf_refcnt'[t][g] = Counts(t, g)'
                /\ queued_buffer_count'[t] + Cardinality(Out(t)') = num_bufs
    <2>1. CASE t = s
      BY <1>16, <1>18, <2>1
    <2>2. CASE t # s
      <3>1. state[t] # "REG"
        BY <1>4, <1>19
      <3>2. /\ \A g \in Frames : buf_refcnt[t][g] = Counts(t, g)
            /\ queued_buffer_count[t] + Cardinality(Out(t)) = num_bufs
        BY <3>1 DEF Accounts
      <3> QED
        BY <1>11, <1>14, <2>2, <3>2
    <2> QED
      BY <2>1, <2>2
  <1> QED
    BY <1>19 DEF Accounts

\* Who holds a buffer may change without a count.
LEMMA SameCounts ==
    ASSUME Accounts, InQueue' = InQueue, InCallback' = InCallback, UNCHANGED streams
    PROVE  Accounts'
  BY DEF Accounts, Counts, Out, One, streams

\* A callback hands its buffers to the client, who holds them instead.
LEMMA DispatchCounts ==
    ASSUME Inv, Accounts, DispatchSuperBuf \/ \E s \in Watched : DispatchAppData(s)
    PROVE  Accounts'
  <1>1. TypeOK
    BY DEF Inv
  <1>2. CASE DispatchSuperBuf
    <2>1. /\ cb_queue # <<>> /\ cb_queue' = Tail(cb_queue)
          /\ held' = held \cup {<<"super", b[1], b[2]>> : b \in BuffersOf(<<Head(cb_queue)>>)}
          /\ UNCHANGED streams /\ UNCHANGED <<cmd_queue, app_queue, ch>>
      BY <1>2 DEF DispatchSuperBuf
    <2>2. PICK B : B = BuffersOf(<<Head(cb_queue)>>)
      OBVIOUS
    <2>3. /\ cb_queue \in Seq(Node) /\ Len(cb_queue) \in Nat \ {0} /\ cb_queue' \in Seq(Node)
          /\ Len(cb_queue') = Len(cb_queue) - 1
          /\ \A i \in 1 .. Len(cb_queue) - 1 : cb_queue'[i] = cb_queue[i + 1]
          /\ B = cb_queue[1].has \X {cb_queue[1].frame}
      BY <1>1, <2>1, <2>2, SuperFacts
    <2>4. \A s, f : <<s, f>> \in BuffersOf(cb_queue) <=>
             \E i \in 1 .. Len(cb_queue) : s \in cb_queue[i].has /\ cb_queue[i].frame = f
      BY <2>3, BuffersFacts
    <2>5. \A s, f : <<s, f>> \in BuffersOf(cb_queue') <=>
             \E i \in 1 .. Len(cb_queue') : s \in cb_queue'[i].has /\ cb_queue'[i].frame = f
      BY <2>3, BuffersFacts
    <2>6. BuffersOf(cb_queue) \subseteq Streams \X Frames /\ BuffersOf(cb_queue') \subseteq Streams \X Frames
      BY <2>3, BuffersFacts
    <2>7. /\ 1 \in 1 .. Len(cb_queue)
          /\ \A i \in 1 .. Len(cb_queue') : i + 1 \in 1 .. Len(cb_queue) /\ cb_queue'[i] = cb_queue[i + 1]
          /\ \A i \in 1 .. Len(cb_queue) : i = 1 \/ (i - 1 \in 1 .. Len(cb_queue') /\ cb_queue'[i - 1] = cb_queue[i])
      <3>1. \A i \in 1 .. Len(cb_queue) : i = 1 \/ (i - 1 \in 1 .. Len(cb_queue) - 1 /\ (i - 1) + 1 = i)
        BY <2>3
      <3>2. \A i \in 1 .. Len(cb_queue') : i + 1 \in 1 .. Len(cb_queue) /\ i \in 1 .. Len(cb_queue) - 1
        BY <2>3
      <3> QED
        BY <2>3, <3>1, <3>2
    <2>8. ASSUME NEW s \in Streams, NEW f \in Frames
          PROVE  <<s, f>> \in BuffersOf(cb_queue) <=> <<s, f>> \in B \/ <<s, f>> \in BuffersOf(cb_queue')
      <3>1. <<s, f>> \in B <=> s \in cb_queue[1].has /\ cb_queue[1].frame = f
        <4>1. PICK h, g : h = cb_queue[1].has /\ g = cb_queue[1].frame
          OBVIOUS
        <4>2. B = h \X {g}
          BY <2>3, <4>1
        <4>3. <<s, f>> \in h \X {g} <=> s \in h /\ f = g
          OBVIOUS
        <4>4. <<s, f>> \in B <=> s \in h /\ f = g
          BY <4>2, <4>3
        <4> QED
          BY <4>1, <4>4
      <3>2. ASSUME <<s, f>> \in BuffersOf(cb_queue') PROVE <<s, f>> \in BuffersOf(cb_queue)
        <4>1. PICK i \in 1 .. Len(cb_queue') : s \in cb_queue'[i].has /\ cb_queue'[i].frame = f
          BY <2>5, <3>2
        <4>2. PICK j \in 1 .. Len(cb_queue) : cb_queue'[i] = cb_queue[j]
          BY <2>7, <4>1
        <4>3. s \in cb_queue[j].has /\ cb_queue[j].frame = f
          BY <4>1, <4>2
        <4> QED
          BY <2>4, <4>3
      <3>3. <<s, f>> \in B => <<s, f>> \in BuffersOf(cb_queue)
        BY <2>4, <2>7, <3>1
      <3>4. <<s, f>> \in BuffersOf(cb_queue) => <<s, f>> \in B \/ <<s, f>> \in BuffersOf(cb_queue')
        BY <2>4, <2>5, <2>7, <3>1
      <3> QED
        BY <3>2, <3>3, <3>4
    <2>9. ASSUME NEW s \in Streams, NEW f \in Frames
          PROVE  /\ <<s, f>> \in Given("super")' <=> <<s, f>> \in Given("super") \/ <<s, f>> \in B
                 /\ <<s, f>> \in Given("app")' <=> <<s, f>> \in Given("app")
      <3>1. held' = held \cup {<<"super", b[1], b[2]>> : b \in B}
        BY <2>1, <2>2
      <3>2. <<"super", s, f>> \in {<<"super", b[1], b[2]>> : b \in B} <=> <<s, f>> \in B
        <4>1. \A b \in B : b = <<b[1], b[2]>>
          BY <2>3
        <4>2. ASSUME NEW b \in B, <<"super", b[1], b[2]>> = <<"super", s, f>> PROVE <<s, f>> \in B
          BY <4>1, <4>2
        <4>3. ASSUME <<s, f>> \in B PROVE \E b \in B : <<"super", b[1], b[2]>> = <<"super", s, f>>
          BY <4>3
        <4> QED
          BY <4>2, <4>3
      <3>3. <<"app", s, f>> \notin {<<"super", b[1], b[2]>> : b \in B}
        OBVIOUS
      <3> QED
        BY <3>1, <3>2, <3>3 DEF Given
    <2>10. /\ Given("super") \subseteq Streams \X Frames /\ Given("super")' \subseteq Streams \X Frames
           /\ Given("app") \subseteq Streams \X Frames /\ Given("app")' \subseteq Streams \X Frames
      BY DEF Given
    <2>11. ASSUME NEW b \in Streams \X Frames
           PROVE  /\ b \in BuffersOf(cb_queue) \cup Given("super") <=> b \in BuffersOf(cb_queue') \cup Given("super")'
                  /\ b \in Given("app") <=> b \in Given("app")'
      <3>1. PICK s \in Streams, f \in Frames : b = <<s, f>>
        OBVIOUS
      <3> QED
        BY <2>8, <2>9, <3>1
    <2>12. /\ BuffersOf(cb_queue) \cup Given("super") = BuffersOf(cb_queue') \cup Given("super")'
           /\ Given("app") = Given("app")'
      BY <2>6, <2>10, <2>11
    <2>13. Coming' = Coming /\ BuffersOf(ch'.que) = BuffersOf(ch.que) /\ Waiting' = Waiting
      BY <2>1, PlacesStay
    <2>14. InQueue' = InQueue /\ InCallback' = InCallback
      BY <2>12, <2>13, PlacesStay DEF InQueue, InCallback
    <2> QED
      BY <2>1, <2>14, SameCounts
  <1>3. ASSUME NEW s \in Watched, DispatchAppData(s) PROVE Accounts'
    <2>1. s \in Streams /\ app_queue[s] # <<>>
      BY <1>3, QueueConstants DEF DispatchAppData
    <2>2. PICK a : a = Tail(app_queue[s])
      OBVIOUS
    <2>3. /\ Len(app_queue[s]) \in Nat /\ DOMAIN app_queue[s] = 1 .. Len(app_queue[s])
          /\ 1 \in DOMAIN app_queue[s] /\ Head(app_queue[s]) = app_queue[s][1]
          /\ a \in Seq(Frames) /\ Len(a) = Len(app_queue[s]) - 1
          /\ \A i \in 1 .. Len(app_queue[s]) - 1 : a[i] = app_queue[s][i + 1]
      BY <1>1, <2>1, <2>2, AppFacts
    <2>4. DOMAIN a = 1 .. Len(app_queue[s]) - 1
      BY <2>3, LenProperties
    <2>5. /\ app_queue' = [app_queue EXCEPT ![s] = a]
          /\ held' = held \cup {<<"app", s, app_queue[s][1]>>}
          /\ UNCHANGED streams /\ UNCHANGED <<cmd_queue, ch, cb_queue>>
      BY <1>3, <2>2, <2>3 DEF DispatchAppData
    <2>6. app_queue'[s] = a /\ \A t \in Streams : t # s => app_queue'[t] = app_queue[t]
      BY <1>1, <2>1, <2>5 DEF TypeOK
    <2>7. ASSUME NEW t \in Streams, NEW g \in Frames
          PROVE  /\ <<t, g>> \in Waiting' \cup Given("app")' <=> <<t, g>> \in Waiting \cup Given("app")
                 /\ <<t, g>> \in Given("super")' <=> <<t, g>> \in Given("super")
      <3>1. /\ <<t, g>> \in Waiting <=> \E i \in DOMAIN app_queue[t] : app_queue[t][i] = g
            /\ <<t, g>> \in Waiting' <=> \E i \in DOMAIN app_queue'[t] : app_queue'[t][i] = g
        BY DEF Waiting
      <3>2. /\ <<t, g>> \in Given("app")' <=> <<t, g>> \in Given("app") \/ (t = s /\ g = app_queue[s][1])
            /\ <<t, g>> \in Given("super")' <=> <<t, g>> \in Given("super")
        BY <2>5 DEF Given
      <3>3. CASE t # s
        BY <2>6, <3>1, <3>2, <3>3
      <3>4. CASE t = s
        <4>1. /\ \A i \in DOMAIN a : i + 1 \in DOMAIN app_queue[s] /\ a[i] = app_queue[s][i + 1]
              /\ \A i \in DOMAIN app_queue[s] : i = 1 \/ (i - 1 \in DOMAIN a /\ a[i - 1] = app_queue[s][i])
          <5>1. \A i \in DOMAIN app_queue[s] : i = 1 \/ (i - 1 \in 1 .. Len(app_queue[s]) - 1 /\ (i - 1) + 1 = i)
            BY <2>3
          <5>2. \A i \in DOMAIN a : i + 1 \in DOMAIN app_queue[s]
            BY <2>3, <2>4
          <5> QED
            BY <2>3, <2>4, <5>1, <5>2
        <4>2. <<s, g>> \in Waiting' => <<s, g>> \in Waiting
          BY <2>6, <3>1, <3>4, <4>1
        <4>3. <<s, g>> \in Waiting => <<s, g>> \in Waiting' \/ g = app_queue[s][1]
          BY <2>6, <3>1, <3>4, <4>1
        <4>4. g = app_queue[s][1] => <<s, g>> \in Waiting
          BY <2>3, <3>1, <3>4
        <4> QED
          BY <3>2, <3>4, <4>2, <4>3, <4>4
      <3> QED
        BY <3>3, <3>4
    <2>8. /\ Given("super") \subseteq Streams \X Frames /\ Given("super")' \subseteq Streams \X Frames
          /\ InCallback \subseteq Streams \X Frames /\ InCallback' \subseteq Streams \X Frames
      BY DEF Given, Waiting, InCallback
    <2>9. ASSUME NEW b \in Streams \X Frames
          PROVE  (b \in InCallback' <=> b \in InCallback) /\ (b \in Given("super")' <=> b \in Given("super"))
      <3>1. PICK t \in Streams, g \in Frames : b = <<t, g>>
        OBVIOUS
      <3> QED
        BY <2>7, <3>1 DEF InCallback
    <2>10. InCallback' = InCallback /\ Given("super")' = Given("super")
      BY <2>8, <2>9
    <2>11. InQueue' = InQueue
      BY <2>5, <2>10, PlacesStay DEF InQueue
    <2> QED
      BY <2>5, <2>10, <2>11, SameCounts
  <1> QED
    BY <1>2, <1>3

\* A command that brings no frame.
LEMMA OtherCommand ==
    ASSUME TypeOK, Accounts, NEW x, x.type # "DATA", cmd_queue' = Append(cmd_queue, x),
           UNCHANGED streams, UNCHANGED <<app_queue, ch, client>>
    PROVE  Accounts'
  <1>1. DataOf(x) = {}
    BY DEF DataOf
  <1>2. Coming' = Coming
    <2>1. DataOf(x) \subseteq Streams \X Frames
      BY <1>1
    <2> QED
      BY <1>1, <2>1, ComingAppended
  <1>3. InQueue' = InQueue /\ InCallback' = InCallback
    BY <1>2, PlacesStay DEF InQueue, InCallback, client
  <1> QED
    BY <1>3, SameCounts

\* The places stay when only streams start and stop.
LEMMA PlacesKept ==
    ASSUME UNCHANGED <<cmd_queue, app_queue, client>>, ch'.que = ch.que
    PROVE  InQueue' = InQueue /\ InCallback' = InCallback
  BY PlacesStay DEF InQueue, InCallback, client

\* A stream that starts has all its buffers with the kernel.
LEMMA StartCounts ==
    ASSUME Inv, Accounts, NEW s \in Streams, StartStream(s)
    PROVE  Accounts'
  <1>1. TypeOK /\ IdleStreams
    BY DEF Inv
  <1>2. /\ api = "starting" /\ state[s] = "REG" /\ state' = [state EXCEPT ![s] = "ACTIVE"]
        /\ UNCHANGED <<buf_refcnt, queued_buffer_count, cmd_queue, app_queue, ch, client>>
    BY <1>1 DEF StartStream
  <1>3. \A t \in Streams : t # s => state'[t] = state[t]
    BY <1>1, <1>2 DEF TypeOK
  <1>4. InQueue' = InQueue /\ InCallback' = InCallback
    BY <1>2, PlacesKept
  <1>5. \A t \in Streams : /\ Out(t)' = Out(t)
                           /\ \A f \in Frames : Counts(t, f)' = Counts(t, f)
    BY <1>2, <1>4 DEF Out, Counts, One
  <1>6. /\ last[s] = 0 /\ queued_buffer_count[s] = num_bufs
        /\ \A f \in Frames : buf_refcnt[s][f] = 0
    BY <1>1, <1>2 DEF IdleStreams
  <1>7. ASSUME NEW f \in Frames PROVE Counts(s, f) = 0
    <2>1. f \in Nat /\ f > 0
      BY ConstantTypes DEF Frames
    <2>2. <<s, f>> \notin InQueue /\ <<s, f>> \notin InCallback
      <3>1. <<s, f>> \in InQueue \cup InCallback => f \in Nat /\ last[s] \in Nat /\ f <= last[s]
        BY PlacesAreApart
      <3> QED
        BY <1>6, <2>1, <3>1
    <2> QED
      BY <2>2 DEF Counts, One
  <1>8. Out(s) = {}
    BY <1>6 DEF Out
  <1>9. Cardinality(Out(s)) = 0 /\ num_bufs \in Nat
    BY <1>8, FS_EmptySet, ConstantTypes
  <1>10. ASSUME NEW t \in Streams, state'[t] # "REG"
         PROVE  /\ \A f \in Frames : buf_refcnt'[t][f] = Counts(t, f)'
                /\ queued_buffer_count'[t] + Cardinality(Out(t)') = num_bufs
    <2>1. CASE t = s
      BY <1>2, <1>5, <1>6, <1>7, <1>9, <2>1
    <2>2. CASE t # s
      <3>1. /\ \A f \in Frames : buf_refcnt[t][f] = Counts(t, f)
            /\ queued_buffer_count[t] + Cardinality(Out(t)) = num_bufs
        BY <1>3, <1>10, <2>2 DEF Accounts
      <3> QED
        BY <1>2, <1>5, <3>1
    <2> QED
      BY <2>1, <2>2
  <1> QED
    BY <1>10 DEF Accounts

\* A stream that stops first keeps its counts, then has none.
LEMMA StopCounts ==
    ASSUME Inv, Accounts, NEW s \in Streams, StreamOff(s) \/ StreamStops(s)
    PROVE  Accounts'
  <1>1. TypeOK
    BY DEF Inv
  <1>2. /\ UNCHANGED <<queued_buffer_count, cmd_queue, app_queue, ch, client>>
        /\ state[s] # "REG"
        /\ \A t \in Streams : state'[t] # "REG" => state[t] # "REG" /\ buf_refcnt'[t] = buf_refcnt[t]
    <2>1. CASE StreamOff(s)
      BY <1>1, <2>1 DEF StreamOff, TypeOK
    <2>2. CASE StreamStops(s)
      <3>1. PICK z : z = [f \in Frames |-> 0]
        OBVIOUS
      <3>2. buf_refcnt' = [buf_refcnt EXCEPT ![s] = z] /\ state' = [state EXCEPT ![s] = "REG"]
        BY <2>2, <3>1 DEF StreamStops
      <3>3. /\ state'[s] = "REG"
            /\ \A t \in Streams : t # s => state'[t] = state[t] /\ buf_refcnt'[t] = buf_refcnt[t]
        BY <1>1, <3>2 DEF TypeOK
      <3> QED
        BY <2>2, <3>3 DEF StreamStops
    <2> QED
      BY <2>1, <2>2
  <1>3. InQueue' = InQueue /\ InCallback' = InCallback
    BY <1>2, PlacesKept
  <1>4. ASSUME NEW t \in Streams, state'[t] # "REG"
        PROVE  /\ \A f \in Frames : buf_refcnt'[t][f] = Counts(t, f)'
               /\ queued_buffer_count'[t] + Cardinality(Out(t)') = num_bufs
    <2>1. /\ \A f \in Frames : buf_refcnt[t][f] = Counts(t, f)
          /\ queued_buffer_count[t] + Cardinality(Out(t)) = num_bufs
      BY <1>2, <1>4 DEF Accounts
    <2>2. buf_refcnt'[t] = buf_refcnt[t] /\ queued_buffer_count'[t] = queued_buffer_count[t]
      BY <1>2, <1>4
    <2>3. Out(t)' = Out(t) /\ \A f \in Frames : Counts(t, f)' = Counts(t, f)
      BY <1>3, <2>2 DEF Out, Counts, One
    <2> QED
      BY <2>1, <2>2, <2>3
  <1> QED
    BY <1>4 DEF Accounts

\* Each step keeps the accounts.
LEMMA AccountsStay ==
    ASSUME Inv, Accounts, Next
    PROVE  Accounts'
  <1>1. TypeOK
    BY DEF Inv
  <1>2. CASE ProcessStreamBuf
    BY <1>2, ProcessCounts
  <1>3. ASSUME NEW h \in held, BufDone(h) PROVE Accounts'
    BY <1>3, BufDoneCounts
  <1>4. ASSUME NEW s \in Streams, NEW f \in Frames, NEW news \in News,
               FrameArrives(s, f, news)
        PROVE  Accounts'
    BY <1>4, ArrivalCounts
  <1>5. CASE DispatchSuperBuf \/ \E s \in Watched : DispatchAppData(s)
    BY <1>5, DispatchCounts
  <1>6. ASSUME NEW s \in Streams, StartStream(s) PROVE Accounts'
    BY <1>6, StartCounts
  <1>7. ASSUME NEW s \in Streams, StreamOff(s) \/ StreamStops(s) PROVE Accounts'
    BY <1>7, StopCounts
  <1>8. ASSUME NEW r \in Requests, RequestSuperBuf(r) PROVE Accounts'
    <2>1. PICK x : x = [type |-> "REQ", num |-> r.num, retro |-> r.retro]
      OBVIOUS
    <2>2. x.type # "DATA"
      BY <2>1
    <2>3. cmd_queue' = Append(cmd_queue, x) /\ UNCHANGED streams /\ UNCHANGED <<app_queue, ch, client>>
      BY <1>8, <2>1 DEF RequestSuperBuf
    <2> QED
      BY <1>1, <2>2, <2>3, OtherCommand
  <1>9. ASSUME NEW f, cmd_queue' = Append(cmd_queue, [type |-> "FLUSH", frame |-> f]),
               UNCHANGED streams, UNCHANGED <<app_queue, ch, client>>
        PROVE  Accounts'
    <2>1. PICK x : x = [type |-> "FLUSH", frame |-> f]
      OBVIOUS
    <2>2. x.type # "DATA" /\ cmd_queue' = Append(cmd_queue, x)
      BY <1>9, <2>1
    <2> QED
      BY <1>1, <1>9, <2>2, OtherCommand
  <1>10. ASSUME NEW f \in Flushes, FlushBegins(f) PROVE Accounts'
    BY <1>9, <1>10 DEF FlushBegins
  <1>11. CASE StopFlushes
    BY <1>9, <1>11 DEF StopFlushes
  <1>12. CASE UNCHANGED streams /\ UNCHANGED <<cmd_queue, app_queue, client>> /\ ch'.que = ch.que
    <2>1. InQueue' = InQueue /\ InCallback' = InCallback
      BY <1>12, PlacesKept
    <2> QED
      BY <1>12, <2>1, SameCounts
  <1>13. StopReturns => ch'.que = ch.que
    BY <1>1 DEF StopReturns, TypeOK, Channel
  <1>14. FlushReturns \/ StopBegins \/ StopReturns \/ Stopped =>
            UNCHANGED streams /\ UNCHANGED <<cmd_queue, app_queue, client>> /\ ch'.que = ch.que
    BY <1>13 DEF FlushReturns, StopBegins, StopReturns, Stopped, vars
  <1> QED
    BY <1>2, <1>3, <1>4, <1>5, <1>6, <1>7, <1>8, <1>10, <1>11, <1>12, <1>14 DEF Next

\* The reference counts of mm_stream agree with the places a buffer is in, and what is
\* not queued in the kernel is counted.
THEOREM AccountsAgree == Spec => [](Inv /\ Accounts)
  <1>1. Init => Accounts
    BY DEF Init, Accounts
  <1>2. Inv /\ Accounts /\ [Next]_vars => Accounts'
    <2>1. ASSUME Inv, Accounts, UNCHANGED vars PROVE Accounts'
      <3>1. InQueue' = InQueue /\ InCallback' = InCallback
        BY <2>1, PlacesKept DEF vars, client
      <3> QED
        BY <2>1, <3>1, SameCounts DEF vars
    <2> QED
      BY <2>1, AccountsStay
  <1> QED
    BY <1>1, <1>2, QueueInv, PTL DEF Spec

\* A place that holds a buffer at most once counts it once.
LEMMA AtMostOne ==
    ASSUME NEW S, \A x, y \in S : x = y
    PROVE  Cardinality(S) = IF S = {} THEN 0 ELSE 1
  <1>1. CASE S = {}
    BY <1>1, FS_EmptySet
  <1>2. CASE S # {}
    <2>1. PICK x : x \in S
      BY <1>2
    <2>2. S = {x}
      BY <2>1
    <2> QED
      BY <1>2, <2>2, FS_Singleton
  <1> QED
    BY <1>1, <1>2

\* The commands hold a buffer at most once.
LEMMA CommandHolds ==
    ASSUME Inv, NEW s \in Streams, NEW f \in Frames
    PROVE  Cardinality({i \in DOMAIN cmd_queue : /\ cmd_queue[i].type = "DATA"
                                                 /\ cmd_queue[i].stream = s
                                                 /\ cmd_queue[i].frame = f}) = One(<<s, f>>, Coming)
  <1> DEFINE S == {i \in DOMAIN cmd_queue : /\ cmd_queue[i].type = "DATA"
                                            /\ cmd_queue[i].stream = s
                                            /\ cmd_queue[i].frame = f}
  <1>1. CommandsAscend /\ TypeOK
    BY DEF Inv
  <1>2. Len(cmd_queue) \in Nat /\ DOMAIN cmd_queue = 1 .. Len(cmd_queue) /\ f \in Nat
    BY <1>1, CommandTypes, ConstantTypes DEF Frames
  <1>3. \A i, j \in S : i = j
    <2> TAKE i, j \in S
    <2>1. i < j => f < f
      BY <1>1 DEF CommandsAscend, Brings
    <2>2. j < i => f < f
      BY <1>1 DEF CommandsAscend, Brings
    <2>3. i \in Int /\ j \in Int
      BY <1>2
    <2> QED
      BY <1>2, <2>1, <2>2, <2>3
  <1>4. S = {} <=> <<s, f>> \notin Coming
    BY DEF Coming, Brings
  <1> HIDE DEF S
  <1>5. Cardinality(S) = One(<<s, f>>, Coming)
    BY <1>3, <1>4, AtMostOne DEF One
  <1> QED
    BY <1>5 DEF S

\* Nor does a queue whose frames ascend.
LEMMA NodeHolds ==
    ASSUME NEW q \in Seq(Node), NEW s \in Streams, NEW f \in Frames,
           \A i, j \in 1 .. Len(q) : i < j => q[i].frame < q[j].frame
    PROVE  /\ Cardinality({i \in DOMAIN q : q[i].frame = f /\ s \in q[i].has}) = One(<<s, f>>, BuffersOf(q))
           /\ (\A i \in DOMAIN q : q[i].has = Streams) =>
                 Cardinality({i \in DOMAIN q : q[i].frame = f}) = One(<<s, f>>, BuffersOf(q))
  <1> DEFINE S == {i \in DOMAIN q : q[i].frame = f /\ s \in q[i].has}
  <1>1. DOMAIN q = 1 .. Len(q) /\ Len(q) \in Nat /\ f \in Nat
    BY LenProperties, ConstantTypes DEF Frames
  <1>2. \A i, j \in S : i = j
    <2> TAKE i, j \in S
    <2>1. i < j => f < f
      BY <1>1
    <2>2. j < i => f < f
      BY <1>1
    <2>3. i \in Int /\ j \in Int
      BY <1>1
    <2> QED
      BY <1>1, <2>1, <2>2, <2>3
  <1>3. S = {} <=> <<s, f>> \notin BuffersOf(q)
    <2>1. <<s, f>> \in BuffersOf(q) <=> \E i \in 1 .. Len(q) : s \in q[i].has /\ q[i].frame = f
      BY BuffersFacts
    <2> QED
      BY <1>1, <2>1
  <1>4. (\A i \in DOMAIN q : q[i].has = Streams) => {i \in DOMAIN q : q[i].frame = f} = S
    OBVIOUS
  <1>5. Cardinality(S) = One(<<s, f>>, BuffersOf(q))
    <2> HIDE DEF S
    <2> QED
      BY <1>2, <1>3, AtMostOne DEF One
  <1> HIDE DEF S
  <1>6. (\A i \in DOMAIN q : q[i].has = Streams) =>
           Cardinality({i \in DOMAIN q : q[i].frame = f}) = One(<<s, f>>, BuffersOf(q))
    BY <1>4, <1>5
  <1> QED
    BY <1>5, <1>6 DEF S

\* Nor does the callback thread of a stream.
LEMMA CallbackHolds ==
    ASSUME Inv, NEW s \in Streams, NEW f \in Frames
    PROVE  Cardinality({i \in DOMAIN app_queue[s] : app_queue[s][i] = f}) = One(<<s, f>>, Waiting)
  <1> DEFINE S == {i \in DOMAIN app_queue[s] : app_queue[s][i] = f}
  <1>1. CallbacksAscend /\ TypeOK
    BY DEF Inv
  <1>2. DOMAIN app_queue[s] = 1 .. Len(app_queue[s]) /\ Len(app_queue[s]) \in Nat /\ f \in Nat
    BY <1>1, AppFacts, ConstantTypes DEF Frames
  <1>3. \A i, j \in S : i = j
    <2> TAKE i, j \in S
    <2>1. i < j => f < f
      BY <1>1 DEF CallbacksAscend
    <2>2. j < i => f < f
      BY <1>1 DEF CallbacksAscend
    <2>3. i \in Int /\ j \in Int
      BY <1>2
    <2> QED
      BY <1>2, <2>1, <2>2, <2>3
  <1>4. S = {} <=> <<s, f>> \notin Waiting
    BY DEF Waiting
  <1> HIDE DEF S
  <1>5. Cardinality(S) = One(<<s, f>>, Waiting)
    BY <1>3, <1>4, AtMostOne DEF One
  <1> QED
    BY <1>5 DEF S

\* The client holds it once for each callback.
LEMMA ClientHolds ==
    ASSUME TypeOK, NEW s \in Streams, NEW f \in Frames
    PROVE  Cardinality({h \in held : h[2] = s /\ h[3] = f})
              = One(<<s, f>>, Given("super")) + One(<<s, f>>, Given("app"))
  <1> DEFINE S == {h \in held : h[2] = s /\ h[3] = f}
             T(kind) == {h \in S : h[1] = kind}
  <1>1. \A h \in held : h[1] \in {"app", "super"} /\ h = <<h[1], h[2], h[3]>>
    BY PairFacts
  <1>2. ASSUME NEW kind \in {"app", "super"}
        PROVE  Cardinality(T(kind)) = One(<<s, f>>, Given(kind)) /\ IsFiniteSet(T(kind))
    <2>1. \A x \in T(kind) : x = <<kind, s, f>>
      <3> TAKE x \in T(kind)
      <3>1. x \in held /\ x[1] = kind /\ x[2] = s /\ x[3] = f
        OBVIOUS
      <3> QED
        BY <1>1, <3>1
    <2>2. T(kind) = {} <=> <<s, f>> \notin Given(kind)
      <3>1. <<s, f>> \in Given(kind) <=> <<kind, s, f>> \in held
        BY DEF Given
      <3>2. <<kind, s, f>> \in held => <<kind, s, f>> \in T(kind)
        OBVIOUS
      <3>3. \A x \in T(kind) : x \in held
        OBVIOUS
      <3> HIDE DEF T
      <3> QED
        BY <2>1, <3>1, <3>2, <3>3
    <2> HIDE DEF T
    <2>3. PICK t : \A x \in T(kind) : x = t
      BY <2>1
    <2>4. IsFiniteSet(T(kind))
      <3>1. CASE T(kind) = {}
        BY <3>1, FS_EmptySet
      <3>2. CASE T(kind) # {}
        <4>1. T(kind) = {t}
          BY <2>3, <3>2
        <4> QED
          BY <4>1, FS_Singleton
      <3> QED
        BY <3>1, <3>2
    <2>5. \A x, y \in T(kind) : x = y
      BY <2>1
    <2> QED
      BY <2>2, <2>4, <2>5, AtMostOne DEF One
  <1>3. S = T("super") \cup T("app") /\ T("super") \cap T("app") = {}
    BY <1>1
  <1> HIDE DEF S, T
  <1>4. IsFiniteSet(T("super")) /\ IsFiniteSet(T("app"))
    BY <1>2
  <1>5. Cardinality(S) = Cardinality(T("super")) + Cardinality(T("app")) - Cardinality(T("super") \cap T("app"))
    BY <1>3, <1>4, FS_Union
  <1>6. Cardinality(T("super") \cap T("app")) = 0
    BY <1>3, FS_EmptySet
  <1>7. Cardinality(S) = One(<<s, f>>, Given("super")) + One(<<s, f>>, Given("app"))
    BY <1>2, <1>5, <1>6 DEF One
  <1> QED
    BY <1>7 DEF S

\* The holders are those the places count.
LEMMA HoldersAreCounted ==
    ASSUME Inv, NEW s \in Streams, NEW f \in Frames
    PROVE  Holders(s, f) = Counts(s, f)
  <1>1. TypeOK /\ QueuedArePast /\ SentArePast /\ FramesAreInOrder
    BY DEF Inv
  <1>2. /\ ch.que \in Seq(Node) /\ cb_queue \in Seq(Node) /\ Passed(cb_queue, ch.que)
        /\ DOMAIN cb_queue = 1 .. Len(cb_queue)
    BY <1>1, PassedFacts
  <1>3. /\ \A i, j \in 1 .. Len(ch.que) : i < j => ch.que[i].frame < ch.que[j].frame
        /\ \A i, j \in 1 .. Len(cb_queue) : i < j => cb_queue[i].frame < cb_queue[j].frame
        /\ \A i \in DOMAIN cb_queue : cb_queue[i].has = Streams
    BY <1>2 DEF Passed, Ascend
  <1>4. Cardinality({i \in DOMAIN ch.que : ch.que[i].frame = f /\ s \in ch.que[i].has})
           = One(<<s, f>>, BuffersOf(ch.que))
    BY <1>2, <1>3, NodeHolds
  <1>5. Cardinality({i \in DOMAIN cb_queue : cb_queue[i].frame = f}) = One(<<s, f>>, BuffersOf(cb_queue))
    BY <1>2, <1>3, NodeHolds
  <1>6. /\ One(<<s, f>>, Coming) + One(<<s, f>>, BuffersOf(ch.que)) + One(<<s, f>>, BuffersOf(cb_queue))
              + One(<<s, f>>, Given("super")) = One(<<s, f>>, InQueue)
        /\ One(<<s, f>>, Waiting) + One(<<s, f>>, Given("app")) = One(<<s, f>>, InCallback)
    BY PlacesAreApart DEF One, InQueue, InCallback
  <1>7. \A S : One(<<s, f>>, S) \in Int
    BY DEF One
  <1>8. Holders(s, f) = One(<<s, f>>, Coming) + One(<<s, f>>, BuffersOf(ch.que))
           + One(<<s, f>>, BuffersOf(cb_queue)) + One(<<s, f>>, Waiting)
           + (One(<<s, f>>, Given("super")) + One(<<s, f>>, Given("app")))
    BY <1>1, <1>4, <1>5, CommandHolds, CallbackHolds, ClientHolds DEF Holders
  <1> QED
    BY <1>6, <1>7, <1>8 DEF Counts

\* buf_refcnt of a running stream is the number of holders, so mm_stream_buf_done
\* queues a buffer again exactly when the last of them gives it back.
THEOREM NoBufferIsLostAlways == Spec => []NoBufferIsLost
  <1>1. Inv /\ Accounts => NoBufferIsLost
    BY HoldersAreCounted DEF Accounts, NoBufferIsLost, Out
  <1> QED
    BY <1>1, AccountsAgree, PTL

\* A stream with more buffers than mm_channel can keep, water mark and incomplete
\* frames, has one in the kernel when all is quiet. getBufNumRequired gives a ZSL burst
\* the depth of the queue, max_unmatched_frames and two more.
THEOREM StreamsDoNotStarveAlways ==
    ASSUME num_bufs > water_mark + max_unmatched_frames + 1
    PROVE  Spec => []StreamsDoNotStarve
  <1>1. Inv /\ Accounts => StreamsDoNotStarve
    <2> SUFFICES ASSUME Inv, Accounts, cmd_queue = <<>>, cb_queue = <<>>, held = {},
                        \A s \in Streams : app_queue[s] = <<>>,
                        NEW s \in Streams, state[s] = "ACTIVE"
                 PROVE  queued_buffer_count[s] > 0
      BY DEF StreamsDoNotStarve
    <2> DEFINE n == Len(ch.que)
    <2>1. /\ TypeOK /\ ch.que \in Seq(Node) /\ DOMAIN ch.que = 1 .. n /\ n \in Nat
          /\ n - ch.match_cnt <= max_unmatched_frames + 1 /\ ch.match_cnt <= water_mark
          /\ ch.match_cnt \in Int
      BY PassedFacts DEF Inv, GoodQueue, Channel
    <2>2. /\ \A f \in Frames : buf_refcnt[s][f] = Counts(s, f)
          /\ queued_buffer_count[s] + Cardinality(Out(s)) = num_bufs
      BY DEF Accounts
    <2>3. InQueue = BuffersOf(ch.que) /\ InCallback = {}
      <3>1. DOMAIN <<>> = {}
        BY EmptySeq
      <3>2. Coming = {} /\ Waiting = {} /\ Given("super") = {} /\ Given("app") = {}
        BY <3>1 DEF Coming, Waiting, Given
      <3>3. BuffersOf(cb_queue) = {}
        BY EmptyFacts
      <3> QED
        BY <3>2, <3>3 DEF InQueue, InCallback
    <2> HIDE DEF n
    <2>4. \A f \in Out(s) : \E i \in 1 .. n : ch.que[i].frame = f
      <3> TAKE f \in Out(s)
      <3>1. f \in Frames /\ Counts(s, f) > 0
        BY <2>2 DEF Out
      <3>2. <<s, f>> \in BuffersOf(ch.que)
        BY <2>3, <3>1 DEF Counts, One
      <3> QED
        BY <2>1, <3>2, BuffersFacts DEF n
    <2> DEFINE O == Out(s)
               g == [f \in O |-> CHOOSE i \in 1 .. n : ch.que[i].frame = f]
    <2>5. \A f \in O : g[f] \in 1 .. n /\ ch.que[g[f]].frame = f
      BY <2>4
    <2>6. g \in [O -> 1 .. n] /\ \A x, y \in O : g[x] = g[y] => x = y
      <3>1. g = [f \in O |-> g[f]]
        OBVIOUS
      <3> HIDE DEF g, O
      <3> QED
        BY <2>5, <3>1
    <2> HIDE DEF g, O
    <2>7. g \in Injection(O, 1 .. n)
      BY <2>6 DEF Injection, IsInjective
    <2>8. IsFiniteSet(1 .. n) /\ Cardinality(1 .. n) = n
      BY <2>1, FS_Interval
    <2>9. IsFiniteSet(O) /\ Cardinality(O) <= n
      BY <2>7, <2>8, FS_Injection
    <2>10. Cardinality(O) \in Nat /\ queued_buffer_count[s] \in Int
      BY <2>1, <2>9, FS_CardinalityType DEF TypeOK
    <2>11. queued_buffer_count[s] + Cardinality(O) = num_bufs
      BY <2>2 DEF O
    <2> QED
      BY <2>1, <2>9, <2>10, <2>11, ConstantTypes
  <1> QED
    BY <1>1, AccountsAgree, PTL
=============================================================================
