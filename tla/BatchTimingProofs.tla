------------------------- MODULE BatchTimingProofs -------------------------
(***************************************************************************)
(* Theorems about _run_batch on the event loop, for every batch of tools   *)
(* with whatever sleeps, blocking and limits, in either mode.              *)
(***************************************************************************)
EXTENDS BatchTiming, SequenceTheorems, TLAPS

-----------------------------------------------------------------------------
(* The loop's queue: whether a callback is in it, and in it but once.      *)
Has(q, do, c) == \E i \in DOMAIN q : q[i] = Do(do, c)
Single(q, do, c) ==
  \A i, j \in DOMAIN q : q[i] = Do(do, c) /\ q[j] = Do(do, c) => i = j

(* r is q without its first callback and with those of Y, which are put at *)
(* either end.                                                             *)
Replaces(q, r, Y) ==
  /\ r \in Seq(Callback) /\ Len(r) >= Len(q) - 1
  /\ \A do, c : Has(r, do, c) => Has(q, do, c) \/ Do(do, c) \in Y
  /\ \A do, c : Single(q, do, c) /\ ~(Has(q, do, c) /\ Do(do, c) \in Y)
                 => Single(r, do, c)
  /\ \A do, c : Head(q) = Do(do, c) /\ Single(q, do, c) /\ Do(do, c) \notin Y
                 => ~Has(r, do, c)

LEMMA TailReplaces ==
  ASSUME NEW q \in Seq(Callback), q # <<>>
  PROVE  Replaces(q, Tail(q), {})
<1>1. /\ Tail(q) \in Seq(Callback) /\ Len(Tail(q)) = Len(q) - 1
      /\ Len(q) \in Nat \ {0} /\ DOMAIN q = 1..Len(q)
      /\ DOMAIN Tail(q) = 1..Len(q) - 1
      /\ \A i \in 1..Len(q) - 1 : Tail(q)[i] = q[i + 1]
      /\ Head(q) = q[1]
  OBVIOUS
<1> DEFINE r == Tail(q)
<1> HIDE DEF r
<1>2. \A do, c : Has(r, do, c) => Has(q, do, c)
  BY <1>1 DEF Has, r
<1>3. ASSUME NEW do, NEW c, Single(q, do, c) PROVE Single(r, do, c)
  <2> SUFFICES ASSUME NEW i \in DOMAIN r, NEW j \in DOMAIN r,
                      r[i] = Do(do, c), r[j] = Do(do, c)
               PROVE  i = j
    BY DEF Single
  <2>1. i + 1 \in DOMAIN q /\ j + 1 \in DOMAIN q /\ i \in Int /\ j \in Int
    BY <1>1 DEF r
  <2>2. q[i + 1] = Do(do, c) /\ q[j + 1] = Do(do, c)
    BY <1>1 DEF r
  <2>3. i + 1 = j + 1
    BY <1>3, <2>1, <2>2 DEF Single
  <2> QED
    BY <2>1, <2>3
<1>4. ASSUME NEW do, NEW c, Head(q) = Do(do, c), Single(q, do, c)
      PROVE  ~Has(r, do, c)
  <2> SUFFICES ASSUME NEW i \in DOMAIN r, r[i] = Do(do, c) PROVE FALSE
    BY DEF Has
  <2>1. i + 1 \in DOMAIN q /\ 1 \in DOMAIN q /\ i + 1 # 1 /\ q[i + 1] = Do(do, c)
    BY <1>1 DEF r
  <2> QED
    BY <1>1, <1>4, <2>1 DEF Single
<1> QED
  BY <1>1, <1>2, <1>3, <1>4 DEF Replaces, r

(* Putting one callback at an end.                                         *)
LEMMA EndReplaces ==
  ASSUME NEW q, NEW r, Replaces(q, r, {}), NEW y \in Callback,
         NEW s \in Seq(Callback), Len(s) = Len(r) + 1,
         NEW place \in DOMAIN s, s[place] = y,
         NEW k \in {0, 1},
         \A i \in DOMAIN s : i # place => i - k \in DOMAIN r /\ s[i] = r[i - k]
  PROVE  Replaces(q, s, {y})
<1>1. Len(s) >= Len(q) - 1
  BY DEF Replaces
<1>2. \A do, c : Has(s, do, c) => Has(r, do, c) \/ Do(do, c) = y
  BY DEF Has
<1>3. DOMAIN s \subseteq Int
  OBVIOUS
<1>4. ASSUME NEW do, NEW c, Single(r, do, c), ~(Has(r, do, c) /\ Do(do, c) = y)
      PROVE  Single(s, do, c)
  <2> SUFFICES ASSUME NEW i \in DOMAIN s, NEW j \in DOMAIN s,
                      s[i] = Do(do, c), s[j] = Do(do, c), i # j
               PROVE  FALSE
    BY DEF Single
  <2>1. CASE i # place /\ j # place
    <3>1. i - k \in DOMAIN r /\ j - k \in DOMAIN r
          /\ r[i - k] = Do(do, c) /\ r[j - k] = Do(do, c)
      BY <2>1
    <3>2. i - k = j - k
      BY <1>4, <3>1 DEF Single
    <3> QED
      BY <1>3, <3>2
  <2>2. CASE i = place
    BY <1>4, <2>2 DEF Has
  <2>3. CASE j = place
    BY <1>4, <2>3 DEF Has
  <2> QED
    BY <2>1, <2>2, <2>3
<1> QED
  BY <1>1, <1>2, <1>4 DEF Replaces

LEMMA LastReplaces ==
  ASSUME NEW q \in Seq(Callback), q # <<>>, NEW y \in Callback
  PROVE  Replaces(q, Tail(q) \o <<y>>, {y})
<1> DEFINE r == Tail(q)
           s == r \o <<y>>
<1>1. r \in Seq(Callback) /\ Len(r) \in Nat /\ DOMAIN r = 1..Len(r)
  OBVIOUS
<1> HIDE DEF r
<1>2. /\ s \in Seq(Callback) /\ Len(s) = Len(r) + 1
      /\ DOMAIN s = 1..Len(r) + 1 /\ s[Len(r) + 1] = y
      /\ \A i \in 1..Len(r) : s[i] = r[i]
  BY <1>1
<1>3. Replaces(q, r, {})
  BY TailReplaces DEF r
<1> HIDE DEF s
<1>4. Replaces(q, s, {y})
  <2> DEFINE k == 0
  <2>1. Len(r) + 1 \in DOMAIN s /\ k \in {0, 1}
    BY <1>1, <1>2
  <2>2. \A i \in DOMAIN s : i # Len(r) + 1 => i - k \in DOMAIN r /\ s[i] = r[i - k]
    BY <1>1, <1>2
  <2> HIDE DEF k
  <2> QED
    BY <1>2, <1>3, <2>1, <2>2, EndReplaces
<1> QED
  BY <1>4 DEF s, r

LEMMA FirstReplaces ==
  ASSUME NEW q \in Seq(Callback), q # <<>>, NEW y \in Callback
  PROVE  Replaces(q, <<y>> \o Tail(q), {y})
<1> DEFINE r == Tail(q)
           s == <<y>> \o r
<1>1. r \in Seq(Callback) /\ Len(r) \in Nat /\ DOMAIN r = 1..Len(r)
  OBVIOUS
<1> HIDE DEF r
<1>2. /\ s \in Seq(Callback) /\ Len(s) = Len(r) + 1
      /\ DOMAIN s = 1..Len(r) + 1 /\ s[1] = y
      /\ \A i \in 2..Len(r) + 1 : s[i] = r[i - 1]
  BY <1>1
<1>3. Replaces(q, r, {})
  BY TailReplaces DEF r
<1> HIDE DEF s
<1>4. Replaces(q, s, {y})
  <2>1. 1 \in DOMAIN s
    BY <1>1, <1>2
  <2>2. \A i \in DOMAIN s : i # 1 => i - 1 \in DOMAIN r /\ s[i] = r[i - 1]
    BY <1>1, <1>2
  <2> QED
    BY <1>2, <1>3, <2>1, <2>2, EndReplaces
<1> QED
  BY <1>4 DEF s, r

-----------------------------------------------------------------------------
(* The inductive invariant.                                                *)
Unfinished == {"new", "asleep", "due"}

(* What callbacks and timers wait for.  Whoever is to begin has not been   *)
(* started; a task that is to run is new, one that is to wake is due; a    *)
(* call to be collected has no verdict.  No callback that changes a task   *)
(* or a result is queued twice.                                            *)
QueueInv(c) ==
  /\ Has(ready, "begin", c) => started[c] = Never
  /\ Has(ready, "run", c) => task[c] = "new"
  /\ Has(ready, "wake", c) => task[c] = "due"
  /\ Has(ready, "alarm", c) \/ Has(ready, "release", c) => task[c] # "none"
  /\ Has(ready, "collect", c) =>
       c \in released /\ verdict[c] = "none" /\ task[c] # "none"
  /\ \A do \in {"begin", "run", "wake", "collect"} : Single(ready, do, c)
  /\ \A t \in timers : t.run.call = c =>
       t.run.do \in {"release", "alarm"} /\ task[c] # "none"

(* How a task, its wait_for and its result belong together.                *)
TaskInv(c) ==
  /\ started[c] = Never => task[c] = "none" /\ verdict[c] = "none"
  /\ started[c] # Never => now >= started[c]
  /\ task[c] # "none" => started[c] # Never /\ batch[c].gives # "refused"
  /\ task[c] \in {"asleep", "due", "cancelled"} => batch[c].awaits
  /\ c \in cancelled => task[c] \in {"due", "cancelled"}
  /\ task[c] = "cancelled" => c \in cancelled
  /\ verdict[c] # "none" =>
       \/ task[c] = "none" /\ verdict[c] = "refused"
       \/ c \in released /\ task[c] = "ended" /\ verdict[c] = batch[c].gives
       \/ c \in released /\ task[c] = "cancelled" /\ verdict[c] = "timeout"
  /\ (c \in written) = (task[c] = "ended" /\ batch[c].gives = "ok" /\ batch[c].writes)

(* The moment from which a call may be given up, and those before which    *)
(* its sleep and all of it are not over.                                   *)
LimitAt(c) == started[c] + batch[c].limit
AwakeAt(c) == started[c] + batch[c].before + batch[c].sleep
EndAt(c) == started[c] + SleepOf(c) + Blocks(c)

ClockInv(c) ==
  /\ \A t \in timers : t.run.call = c =>
       /\ t.run.do = "release" => t.at >= LimitAt(c)
       /\ t.run.do = "alarm" => t.at >= AwakeAt(c)
  /\ task[c] \in Unfinished /\ (Has(ready, "release", c) \/ Has(ready, "collect", c))
       => now >= LimitAt(c)
  /\ c \in cancelled => now >= LimitAt(c)
  /\ Has(ready, "alarm", c) => now >= AwakeAt(c)
  /\ task[c] = "due" /\ c \notin cancelled => now >= AwakeAt(c)
  /\ task[c] = "ended" => now >= EndAt(c)

(* VerdictSound for one call.                                              *)
SoundAt(c) ==
  /\ verdict[c] = "timeout" => batch[c].awaits /\ Duration(c) >= batch[c].limit
  /\ verdict[c] \in {"ok", "error"} => Duration(c) >= SleepOf(c) + Blocks(c)

CallInv(c) == QueueInv(c) /\ TaskInv(c) /\ ClockInv(c) /\ SoundAt(c)

(* One after the other, if the batch is sequential.                        *)
SeqInv ==
  sequential =>
    \A d \in Calls : d > 1 /\ (started[d] # Never \/ Has(ready, "begin", d)) =>
                       verdict[d - 1] # "none"

TimingInv ==
  /\ TimingTypeOK /\ SeqInv
  /\ \A c \in Calls : CallInv(c)

-----------------------------------------------------------------------------
(* What the types say of one call.                                         *)
LEMMA CallTypes ==
  ASSUME TimingTypeOK, NEW c \in Calls
  PROVE  /\ c \in Nat \ {0} /\ c <= Len(batch) /\ Len(batch) \in Nat
         /\ Calls = 1..Len(batch)
         /\ now \in Nat
         /\ batch[c] \in Timed
         /\ batch[c].before \in Nat /\ batch[c].sleep \in Nat
         /\ batch[c].after \in Nat /\ batch[c].limit \in Nat \ {0}
         /\ batch[c].awaits \in BOOLEAN
         /\ batch[c].gives \in {"ok", "error", "refused"}
         /\ batch[c].writes \in BOOLEAN
         /\ started[c] \in Nat \cup {Never}
         /\ SleepOf(c) \in Nat /\ Blocks(c) \in Nat
<1>1. batch \in Seq(Timed)
  BY BatchesTyped DEF TimingTypeOK
<1>2. /\ Calls = 1..Len(batch) /\ Len(batch) \in Nat /\ batch[c] \in Timed
      /\ c \in Nat \ {0} /\ c <= Len(batch)
  BY <1>1 DEF Calls
<1>3. /\ batch[c].before \in Nat /\ batch[c].sleep \in Nat
      /\ batch[c].after \in Nat /\ batch[c].limit \in Nat \ {0}
      /\ batch[c].awaits \in BOOLEAN
      /\ batch[c].gives \in {"ok", "error", "refused"}
      /\ batch[c].writes \in BOOLEAN
  BY <1>2 DEF Timed
<1>4. SleepOf(c) \in Nat /\ Blocks(c) \in Nat
  BY <1>3 DEF SleepOf, Blocks
<1> QED
  BY <1>2, <1>3, <1>4 DEF TimingTypeOK

(* What a step does not do to call c: its callbacks may leave the queue,   *)
(* its timers may go, the clock may move on, and at most it is to begin.   *)
LeavesAlone(c) ==
  /\ batch' = batch /\ now' \in Nat /\ now' >= now
  /\ started'[c] = started[c] /\ finished'[c] = finished[c]
  /\ verdict'[c] = verdict[c] /\ task'[c] = task[c]
  /\ (c \in written') = (c \in written)
  /\ (c \in cancelled') = (c \in cancelled)
  /\ (c \in released') = (c \in released)
  /\ \A t \in timers' : t.run.call = c => t \in timers
  /\ \A do \in Doings : Has(ready', do, c) =>
       Has(ready, do, c) \/ (do = "begin" /\ started[c] = Never)
  /\ \A do \in Doings : Single(ready, do, c) => Single(ready', do, c)

LEMMA OtherCallKept ==
  ASSUME TimingTypeOK, NEW c \in Calls, CallInv(c), LeavesAlone(c)
  PROVE  CallInv(c)'
<1>1. /\ now \in Nat /\ now' \in Nat /\ now' >= now
      /\ started[c] \in Nat \cup {Never}
      /\ batch[c].before \in Nat /\ batch[c].sleep \in Nat /\ batch[c].limit \in Nat
      /\ SleepOf(c) \in Nat /\ Blocks(c) \in Nat
  BY CallTypes DEF LeavesAlone
<1>2. QueueInv(c) /\ TaskInv(c) /\ ClockInv(c) /\ SoundAt(c)
  BY DEF CallInv
<1>3. /\ batch' = batch
      /\ started'[c] = started[c] /\ finished'[c] = finished[c]
      /\ verdict'[c] = verdict[c] /\ task'[c] = task[c]
      /\ (c \in written') = (c \in written)
      /\ (c \in cancelled') = (c \in cancelled)
      /\ (c \in released') = (c \in released)
      /\ \A t \in timers' : t.run.call = c => t \in timers
  BY DEF LeavesAlone
<1>4. /\ Has(ready', "begin", c) => Has(ready, "begin", c) \/ started[c] = Never
      /\ Has(ready', "run", c) => Has(ready, "run", c)
      /\ Has(ready', "wake", c) => Has(ready, "wake", c)
      /\ Has(ready', "alarm", c) => Has(ready, "alarm", c)
      /\ Has(ready', "release", c) => Has(ready, "release", c)
      /\ Has(ready', "collect", c) => Has(ready, "collect", c)
      /\ \A do \in {"begin", "run", "wake", "collect"} :
           Single(ready, do, c) => Single(ready', do, c)
  BY DEF LeavesAlone, Doings
<1>5. QueueInv(c)'
  BY <1>2, <1>3, <1>4 DEF QueueInv
<1>6. TaskInv(c)'
  BY <1>1, <1>2, <1>3 DEF TaskInv, Never
<1>7. /\ LimitAt(c)' = LimitAt(c) /\ AwakeAt(c)' = AwakeAt(c)
      /\ EndAt(c)' = EndAt(c)
  BY <1>3 DEF LimitAt, AwakeAt, EndAt, SleepOf, Blocks
<1>8. LimitAt(c) \in Int /\ AwakeAt(c) \in Int /\ EndAt(c) \in Int
  BY <1>1 DEF LimitAt, AwakeAt, EndAt, Never
<1>9. ClockInv(c)'
  <2>1. \A t \in timers' : t.run.call = c =>
          /\ t.run.do = "release" => t.at >= LimitAt(c)'
          /\ t.run.do = "alarm" => t.at >= AwakeAt(c)'
    BY <1>2, <1>3, <1>7 DEF ClockInv
  <2>2. /\ task'[c] \in Unfinished /\ (Has(ready', "release", c) \/ Has(ready', "collect", c))
             => now' >= LimitAt(c)'
        /\ c \in cancelled' => now' >= LimitAt(c)'
    BY <1>1, <1>2, <1>3, <1>4, <1>7, <1>8 DEF ClockInv
  <2>3. /\ Has(ready', "alarm", c) => now' >= AwakeAt(c)'
        /\ task'[c] = "due" /\ c \notin cancelled' => now' >= AwakeAt(c)'
        /\ task'[c] = "ended" => now' >= EndAt(c)'
    BY <1>1, <1>2, <1>3, <1>4, <1>7, <1>8 DEF ClockInv
  <2> QED
    BY <2>1, <2>2, <2>3 DEF ClockInv
<1>10. SoundAt(c)'
  BY <1>2, <1>3 DEF SoundAt, Duration, SleepOf, Blocks
<1> QED
  BY <1>5, <1>6, <1>9, <1>10 DEF CallInv

(* No call loses its verdict, and one that is newly to begin comes after   *)
(* one that has its verdict.                                               *)
LEMMA SeqKept ==
  ASSUME TimingTypeOK, SeqInv, UNCHANGED inputVars,
         \A d \in Calls : started'[d] # Never \/ Has(ready', "begin", d) =>
           \/ started[d] # Never \/ Has(ready, "begin", d)
           \/ verdict'[d - 1] # "none",
         \A d \in Calls : verdict[d] # "none" => verdict'[d] # "none"
  PROVE  SeqInv'
<1> SUFFICES ASSUME sequential, NEW d \in Calls, d > 1,
                    started'[d] # Never \/ Has(ready', "begin", d)
             PROVE  verdict'[d - 1] # "none"
  BY DEF SeqInv, inputVars, Calls
<1>1. d - 1 \in Calls
  BY CallTypes
<1> QED
  BY <1>1 DEF SeqInv

LEMMA InitTimingInv == TimingInit => TimingInv
<1> SUFFICES ASSUME TimingInit PROVE TimingInv
  OBVIOUS
<1>1. batch \in Seq(Timed) /\ batch # <<>> /\ Len(batch) \in Nat \ {0}
      /\ Calls = 1..Len(batch)
  BY BatchesTyped DEF TimingInit, Calls
<1>2. PICK k \in Nat : /\ ready = [c \in 1..k |-> Do("begin", c)]
                       /\ k = IF sequential THEN 1 ELSE Len(batch)
  BY <1>1 DEF TimingInit
<1>3. /\ ready \in Seq(Callback) /\ Len(ready) = k /\ DOMAIN ready = 1..k
      /\ \A i \in 1..k : ready[i] = Do("begin", i)
  <2>1. \A i \in 1..k : Do("begin", i) \in Callback
    BY DEF Do, Callback, Doings
  <2> QED
    BY <1>2, <2>1
<1>4. TimingTypeOK
  BY <1>3 DEF TimingInit, TimingTypeOK, TaskStates, Verdicts, NoReport
<1>5. \A do, c : Has(ready, do, c) => do = "begin" /\ c \in 1..k
  BY <1>3 DEF Has, Do
<1>6. \A do, c : Single(ready, do, c)
  BY <1>3 DEF Single, Do
<1>7. SeqInv
  BY <1>2, <1>5 DEF SeqInv, TimingInit
<1>8. ASSUME NEW c \in Calls PROVE CallInv(c)
  BY <1>5, <1>6
     DEF TimingInit, CallInv, QueueInv, TaskInv, ClockInv, SoundAt, Unfinished
<1> QED
  BY <1>4, <1>7, <1>8 DEF TimingInv

-----------------------------------------------------------------------------
(* Steps of the loop.                                                      *)
LEMMA AppendAdds ==
  ASSUME NEW q \in Seq(Callback), NEW y \in Callback
  PROVE  /\ Append(q, y) \in Seq(Callback) /\ Len(Append(q, y)) = Len(q) + 1
         /\ \A do, c : Has(Append(q, y), do, c) => Has(q, do, c) \/ Do(do, c) = y
         /\ \A do, c : Single(q, do, c) /\ Do(do, c) # y
                         => Single(Append(q, y), do, c)
<1> DEFINE r == Append(q, y)
<1>1. /\ r \in Seq(Callback) /\ Len(r) = Len(q) + 1 /\ Len(q) \in Nat
      /\ DOMAIN q = 1..Len(q) /\ DOMAIN r = 1..Len(q) + 1
      /\ r[Len(q) + 1] = y /\ \A i \in 1..Len(q) : r[i] = q[i]
  OBVIOUS
<1> HIDE DEF r
<1>2. \A do, c : Has(r, do, c) => Has(q, do, c) \/ Do(do, c) = y
  BY <1>1 DEF Has
<1>3. \A do, c : Single(q, do, c) /\ Do(do, c) # y => Single(r, do, c)
  BY <1>1 DEF Single
<1> QED
  BY <1>1, <1>2, <1>3 DEF r

LEMMA PollTimerKeepsInv ==
  ASSUME TimingInv, NEW t \in timers, PollTimer(t) PROVE TimingInv'
<1>1. /\ todo = 0 /\ t.at <= now
      /\ ready' = Append(ready, t.run) /\ timers' = timers \ {t}
      /\ UNCHANGED <<inputVars, now, todo, waitVars, resultVars, written, report>>
  BY DEF PollTimer, Due
<1>2. TimingTypeOK /\ SeqInv /\ \A c \in Calls : CallInv(c)
  BY DEF TimingInv
<1>3. /\ ready \in Seq(Callback) /\ t.run \in Callback /\ t.at \in Nat /\ now \in Nat
      /\ t.run = Do(t.run.do, t.run.call)
  BY <1>2 DEF TimingTypeOK, Callback, Do
<1>4. /\ ready' \in Seq(Callback) /\ Len(ready') = Len(ready) + 1
      /\ \A do, c : Has(ready', do, c) => Has(ready, do, c) \/ Do(do, c) = t.run
      /\ \A do, c : Single(ready, do, c) /\ Do(do, c) # t.run => Single(ready', do, c)
  BY <1>1, <1>3, AppendAdds
<1>5. TimingTypeOK'
  BY <1>1, <1>2, <1>4
     DEF TimingTypeOK, inputVars, waitVars, resultVars, Calls
<1>6. ASSUME NEW c \in Calls PROVE CallInv(c)'
  <2>1. CASE t.run.call # c
    <3>1. \A do : Do(do, c) # t.run
      BY <1>3, <2>1 DEF Do
    <3>2. LeavesAlone(c)
      BY <1>1, <1>3, <1>4, <3>1
         DEF LeavesAlone, inputVars, waitVars, resultVars
    <3> QED
      BY <1>2, <3>2, OtherCallKept
  <2>2. CASE t.run.call = c
    <3>1. /\ QueueInv(c) /\ TaskInv(c) /\ ClockInv(c) /\ SoundAt(c)
      BY <1>2 DEF CallInv
    <3>2. t.run.do \in {"release", "alarm"} /\ task[c] # "none"
      BY <2>2, <3>1 DEF QueueInv
    <3>3. /\ \A do \in {"begin", "run", "wake", "collect"} :
               /\ Has(ready', do, c) => Has(ready, do, c)
               /\ Single(ready, do, c) => Single(ready', do, c)
          /\ Has(ready', "release", c) => Has(ready, "release", c) \/ t.run.do = "release"
          /\ Has(ready', "alarm", c) => Has(ready, "alarm", c) \/ t.run.do = "alarm"
      <4>1. \A do : Do(do, c) = t.run => do = t.run.do
        BY <1>3 DEF Do
      <4> QED
        BY <1>4, <3>2, <4>1
    <3>4. QueueInv(c)'
      BY <1>1, <3>1, <3>2, <3>3 DEF QueueInv, waitVars, resultVars
    <3>5. TaskInv(c)' /\ SoundAt(c)'
      BY <1>1, <3>1
         DEF TaskInv, SoundAt, Duration, SleepOf, Blocks, inputVars, waitVars,
             resultVars
    <3>6. ClockInv(c)'
      <4>1. /\ LimitAt(c)' = LimitAt(c) /\ AwakeAt(c)' = AwakeAt(c)
            /\ EndAt(c)' = EndAt(c)
        BY <1>1 DEF LimitAt, AwakeAt, EndAt, SleepOf, Blocks, inputVars, resultVars
      <4>2. LimitAt(c) \in Int /\ AwakeAt(c) \in Int
        BY <1>2, CallTypes DEF LimitAt, AwakeAt, Never
      <4>3. /\ t.run.do = "release" => now >= LimitAt(c)
            /\ t.run.do = "alarm" => now >= AwakeAt(c)
        BY <1>1, <1>3, <2>2, <3>1, <4>2 DEF ClockInv
      <4> QED
        BY <1>1, <3>1, <3>3, <4>1, <4>3 DEF ClockInv, waitVars
    <3> QED
      BY <3>1, <3>4, <3>5, <3>6 DEF CallInv
  <2> QED
    BY <2>1, <2>2
<1>7. SeqInv'
  <2>1. \A d \in Calls : Has(ready', "begin", d) => Has(ready, "begin", d)
    <3>1. \A d \in Calls : Do("begin", d) # t.run
      BY <1>2, <1>3 DEF Do, CallInv, QueueInv
    <3> QED
      BY <1>4, <3>1
  <2> QED
    BY <1>1, <1>2, <2>1, SeqKept DEF resultVars
<1>8. Calls' = Calls
  BY <1>1 DEF Calls, inputVars
<1> QED
  BY <1>5, <1>6, <1>7, <1>8 DEF TimingInv

(* The clock or todo moves, or the report is made.                         *)
LEMMA LoopKeepsInv ==
  ASSUME TimingInv,
         \/ StartRound \/ Report \/ UNCHANGED tvars
         \/ \E t \in timers : SleepUntil(t)
  PROVE  TimingInv'
<1>1. TimingTypeOK /\ SeqInv /\ \A c \in Calls : CallInv(c)
  BY DEF TimingInv
<1>2. /\ UNCHANGED <<inputVars, ready, timers, waitVars, resultVars, written>>
      /\ now' \in Nat /\ now' >= now
      /\ todo' \in {todo, Len(ready)}
      /\ DOMAIN report' = {"wall", "estimate"}
  <2>1. /\ now \in Nat /\ \A t \in timers : t.at \in Nat
        /\ DOMAIN report = {"wall", "estimate"}
    BY <1>1 DEF TimingTypeOK
  <2>2. CASE StartRound
    BY <2>1, <2>2 DEF StartRound
  <2>3. CASE Report
    BY <2>1, <2>3 DEF Report, loopVars
  <2>4. CASE UNCHANGED tvars
    BY <2>1, <2>4 DEF tvars, loopVars
  <2>5. CASE \E t \in timers : SleepUntil(t)
    <3>1. PICK t \in timers : SleepUntil(t)
      BY <2>5
    <3>2. t.at > now
      BY <2>1, <3>1 DEF SleepUntil, Due
    <3> QED
      BY <2>1, <3>1, <3>2 DEF SleepUntil
  <2> QED
    BY <2>2, <2>3, <2>4, <2>5
<1>3. TimingTypeOK'
  BY <1>1, <1>2 DEF TimingTypeOK, inputVars, waitVars, resultVars, Calls
<1>4. ASSUME NEW c \in Calls PROVE CallInv(c)'
  <2>1. LeavesAlone(c)
    BY <1>2 DEF LeavesAlone, inputVars, waitVars, resultVars
  <2> QED
    BY <1>1, <2>1, OtherCallKept
<1>5. SeqInv'
  BY <1>1, <1>2, SeqKept DEF resultVars
<1>6. Calls' = Calls
  BY <1>2 DEF Calls, inputVars
<1> QED
  BY <1>3, <1>4, <1>5, <1>6 DEF TimingInv

-----------------------------------------------------------------------------
(* Steps of a call: what they have in common.                              *)
LEMMA DoInjective ==
  ASSUME NEW do, NEW c, NEW e, NEW d, Do(do, c) = Do(e, d)
  PROVE  do = e /\ c = d
  BY DEF Do

(* The step is about call c; it queues the callbacks of Y: more of c, or,  *)
(* as c gets its verdict, the next call's begin.                           *)
Touches(c, Y) ==
  /\ UNCHANGED inputVars /\ now' \in Nat /\ now' >= now
  /\ Replaces(ready, ready', Y)
  /\ \A d \in Calls \ {c} :
       /\ started'[d] = started[d] /\ finished'[d] = finished[d]
       /\ verdict'[d] = verdict[d] /\ task'[d] = task[d]
       /\ (d \in written') = (d \in written)
       /\ (d \in cancelled') = (d \in cancelled)
       /\ (d \in released') = (d \in released)
  /\ \A t \in timers' : t \in timers \/ t.run.call = c
  /\ \A do, d : Do(do, d) \in Y =>
       \/ d = c /\ do # "begin"
       \/ /\ d = c + 1 /\ do = "begin"
          /\ sequential /\ verdict[c] = "none" /\ verdict'[c] # "none"
  /\ verdict[c] # "none" => verdict'[c] # "none"
  /\ started'[c] # Never => started[c] # Never \/ Has(ready, "begin", c)

LEMMA OthersKept ==
  ASSUME TimingInv, NEW c \in Calls, NEW Y, Touches(c, Y)
  PROVE  SeqInv' /\ \A d \in Calls \ {c} : CallInv(d)'
<1>1. TimingTypeOK /\ SeqInv /\ \A d \in Calls : CallInv(d)
  BY DEF TimingInv
<1>2. /\ UNCHANGED inputVars /\ now' \in Nat /\ now' >= now
      /\ \A do, d : Has(ready', do, d) => Has(ready, do, d) \/ Do(do, d) \in Y
      /\ \A do, d : Single(ready, do, d) /\ ~(Has(ready, do, d) /\ Do(do, d) \in Y)
                      => Single(ready', do, d)
  BY DEF Touches, Replaces
<1>3. c \in Nat \ {0}
  BY <1>1, CallTypes
<1>4. ASSUME NEW d \in Calls, NEW do, Do(do, d) \in Y, d # c
      PROVE  /\ do = "begin" /\ started[d] = Never /\ ~Has(ready, "begin", d)
             /\ verdict'[d - 1] # "none"
  <2>1. /\ d = c + 1 /\ do = "begin" /\ sequential /\ verdict[c] = "none"
        /\ verdict'[c] # "none"
    BY <1>4 DEF Touches
  <2>2. d > 1 /\ d - 1 = c
    BY <1>3, <2>1
  <2> QED
    BY <1>1, <2>1, <2>2 DEF SeqInv
<1>5. ASSUME NEW d \in Calls, d # c PROVE CallInv(d)'
  <2>1. \A do : Has(ready', do, d) =>
          Has(ready, do, d) \/ (do = "begin" /\ started[d] = Never)
    BY <1>2, <1>4, <1>5
  <2>2. \A do : Single(ready, do, d) => Single(ready', do, d)
    BY <1>2, <1>4, <1>5
  <2>3. LeavesAlone(d)
    BY <1>2, <1>5, <2>1, <2>2 DEF Touches, LeavesAlone, inputVars
  <2> QED
    BY <1>1, <2>3, OtherCallKept
<1>6. SeqInv'
  <2>1. \A d \in Calls : started'[d] # Never \/ Has(ready', "begin", d) =>
          \/ started[d] # Never \/ Has(ready, "begin", d)
          \/ verdict'[d - 1] # "none"
    <3> SUFFICES ASSUME NEW d \in Calls,
                        started'[d] # Never \/ Has(ready', "begin", d)
                 PROVE  \/ started[d] # Never \/ Has(ready, "begin", d)
                        \/ verdict'[d - 1] # "none"
      OBVIOUS
    <3>1. CASE d = c
      <4>1. Do("begin", c) \notin Y
        BY <1>3 DEF Touches
      <4> QED
        BY <1>2, <3>1, <4>1 DEF Touches
    <3>2. CASE d # c
      BY <1>2, <1>4, <3>2 DEF Touches
    <3> QED
      BY <3>1, <3>2
  <2>2. \A d \in Calls : verdict[d] # "none" => verdict'[d] # "none"
    BY DEF Touches
  <2> QED
    BY <1>1, <1>2, <2>1, <2>2, SeqKept
<1> QED
  BY <1>5, <1>6

(* The queue as call c sees it: h of c ran, and those of E are queued.     *)
Requeued(c, h, E) ==
  /\ \A do : Has(ready', do, c) => Has(ready, do, c) \/ do \in E
  /\ \A do : Single(ready, do, c) /\ (do \in E => ~Has(ready, do, c))
               => Single(ready', do, c)
  /\ h \notin E /\ Single(ready, h, c) => ~Has(ready', h, c)

LEMMA RequeuedType ==
  ASSUME NEW c, NEW h, NEW E, NEW Y, Replaces(ready, ready', Y),
         Head(ready) = Do(h, c), \A do : Do(do, c) \in Y <=> do \in E
  PROVE  Requeued(c, h, E)
  BY DEF Replaces, Requeued

LEMMA RunsOne ==
  ASSUME TimingTypeOK, NEW c \in Calls, NEW h, Runs(h, c),
         NEW e \in Doings, Queues(<<Do(e, c)>>)
  PROVE  /\ Has(ready, h, c) /\ Replaces(ready, ready', {Do(e, c)})
         /\ Requeued(c, h, {e}) /\ todo' \in 0..Len(ready')
<1>1. /\ ready \in Seq(Callback) /\ todo \in 0..Len(ready) /\ todo > 0
      /\ Head(ready) = Do(h, c)
  BY DEF TimingTypeOK, Runs
<1>2. ready # <<>> /\ Has(ready, h, c)
  BY <1>1 DEF Has
<1>3. c \in Nat
  BY CallTypes
<1>4. Do(e, c) \in Callback
  BY <1>3 DEF Do, Callback
<1>5. Replaces(ready, ready', {Do(e, c)})
  BY <1>1, <1>2, <1>4, LastReplaces DEF Queues
<1>6. \A do : Do(do, c) \in {Do(e, c)} <=> do \in {e}
  BY DoInjective
<1>7. Requeued(c, h, {e})
  BY <1>1, <1>5, <1>6, RequeuedType
<1>8. todo' \in 0..Len(ready')
  BY <1>1, <1>5 DEF Replaces, Queues
<1> QED
  BY <1>2, <1>5, <1>7, <1>8

LEMMA RunsNone ==
  ASSUME TimingTypeOK, NEW c \in Calls, NEW h, Runs(h, c), Queues(<<>>)
  PROVE  /\ Has(ready, h, c) /\ Replaces(ready, ready', {})
         /\ Requeued(c, h, {}) /\ todo' \in 0..Len(ready')
<1>1. /\ ready \in Seq(Callback) /\ todo \in 0..Len(ready) /\ todo > 0
      /\ Head(ready) = Do(h, c)
  BY DEF TimingTypeOK, Runs
<1>2. ready # <<>> /\ Has(ready, h, c)
  BY <1>1 DEF Has
<1>3. Tail(ready) \o <<>> = Tail(ready)
  BY <1>1, <1>2
<1>4. Replaces(ready, ready', {})
  BY <1>1, <1>2, <1>3, TailReplaces DEF Queues
<1>5. Requeued(c, h, {})
  BY <1>1, <1>4, RequeuedType
<1>6. todo' \in 0..Len(ready')
  BY <1>1, <1>4 DEF Replaces, Queues
<1> QED
  BY <1>2, <1>4, <1>5, <1>6

(* So it is enough to look at the call the step is about.                  *)
LEMMA StepKeepsInv ==
  ASSUME TimingInv, NEW c \in Calls, NEW Y, Touches(c, Y),
         TimingTypeOK', CallInv(c)'
  PROVE  TimingInv'
<1>1. SeqInv' /\ \A d \in Calls \ {c} : CallInv(d)'
  BY OthersKept
<1>2. Calls' = Calls
  BY DEF Touches, inputVars, Calls
<1> QED
  BY <1>1, <1>2 DEF TimingInv

-----------------------------------------------------------------------------
(* _invoke and wait_for.                                                   *)
LEMMA InvokeKeepsInv ==
  ASSUME TimingInv, NEW c \in Calls, Invoke(c) PROVE TimingInv'
<1> DEFINE timer == [at |-> now + batch[c].limit, run |-> Do("release", c)]
<1>1. /\ Runs("begin", c) /\ batch[c].gives # "refused"
      /\ started' = [started EXCEPT ![c] = now]
      /\ timers' = timers \cup {timer}
      /\ task' = [task EXCEPT ![c] = "new"]
      /\ Queues(<<Do("run", c)>>)
      /\ UNCHANGED <<inputVars, now, cancelled, released, finished, verdict,
                     written, report>>
  BY DEF Invoke
<1>2. /\ TimingTypeOK
      /\ QueueInv(c) /\ TaskInv(c) /\ ClockInv(c) /\ SoundAt(c)
  BY DEF TimingInv, CallInv
<1>3. /\ now \in Nat /\ c \in Nat /\ batch[c].limit \in Nat
  BY <1>2, CallTypes
<1>4. /\ Has(ready, "begin", c) /\ Replaces(ready, ready', {Do("run", c)})
      /\ Requeued(c, "begin", {"run"}) /\ todo' \in 0..Len(ready')
  BY <1>1, <1>2, RunsOne DEF Doings
<1>5. started[c] = Never /\ task[c] = "none" /\ verdict[c] = "none"
  BY <1>2, <1>4 DEF QueueInv, TaskInv
<1>6. /\ ~Has(ready, "run", c) /\ ~Has(ready, "wake", c) /\ ~Has(ready, "alarm", c)
      /\ ~Has(ready, "release", c) /\ ~Has(ready, "collect", c)
      /\ \A t \in timers : t.run.call # c
      /\ c \notin cancelled /\ c \notin written
  BY <1>2, <1>5 DEF QueueInv, TaskInv
<1>7. started'[c] = now /\ task'[c] = "new" /\ now # Never
  BY <1>1, <1>2, <1>3 DEF TimingTypeOK, Never
<1>8. TimingTypeOK'
  <2>1. timer \in [at : Nat, run : Callback]
    BY <1>3 DEF Callback, Do, Doings
  <2>2. task' \in [Calls -> TaskStates] /\ started' \in [Calls -> Nat \cup {Never}]
    BY <1>1, <1>2, <1>3 DEF TimingTypeOK, TaskStates
  <2>3. ready' \in Seq(Callback)
    BY <1>4 DEF Replaces
  <2> QED
    BY <1>1, <1>2, <1>4, <2>1, <2>2, <2>3
       DEF TimingTypeOK, inputVars, Calls
<1>9. Touches(c, {Do("run", c)})
  <2>1. \A do, d : Do(do, d) \in {Do("run", c)} => d = c /\ do # "begin"
    BY DoInjective
  <2>2. timer.run.call = c
    BY DEF Do
  <2> HIDE DEF timer
  <2> QED
    BY <1>1, <1>2, <1>3, <1>4, <2>1, <2>2
       DEF Touches, TimingTypeOK, inputVars
<1>10. QueueInv(c)'
  <2>1. timer.run.do = "release"
    BY DEF Do
  <2> HIDE DEF timer
  <2> QED
    BY <1>1, <1>2, <1>4, <1>5, <1>6, <1>7, <2>1 DEF QueueInv, Requeued
<1>11. TaskInv(c)'
  BY <1>1, <1>3, <1>5, <1>6, <1>7 DEF TaskInv, inputVars
<1>12. ClockInv(c)'
  <2>1. timer.at = LimitAt(c)' /\ timer.run.do = "release"
    BY <1>1, <1>7 DEF LimitAt, inputVars, Do
  <2>2. timer.at \in Nat
    BY <1>3
  <2> HIDE DEF timer
  <2> QED
    BY <1>1, <1>4, <1>6, <1>7, <2>1, <2>2 DEF ClockInv, Requeued
<1>13. SoundAt(c)'
  BY <1>1, <1>5 DEF SoundAt
<1> QED
  BY <1>8, <1>9, <1>10, <1>11, <1>12, <1>13, StepKeepsInv DEF CallInv

(* The moments of a call that is already started do not move.              *)
LEMMA MomentsStay ==
  ASSUME TimingTypeOK, NEW c \in Calls, UNCHANGED <<inputVars, started>>
  PROVE  /\ LimitAt(c)' = LimitAt(c) /\ AwakeAt(c)' = AwakeAt(c)
         /\ EndAt(c)' = EndAt(c)
         /\ LimitAt(c) \in Int /\ AwakeAt(c) \in Int /\ EndAt(c) \in Int
<1>1. LimitAt(c) \in Int /\ AwakeAt(c) \in Int /\ EndAt(c) \in Int
  <2>1. /\ started[c] \in Int /\ batch[c].limit \in Nat
        /\ batch[c].before \in Nat /\ batch[c].sleep \in Nat
        /\ SleepOf(c) \in Nat /\ Blocks(c) \in Nat
    BY CallTypes DEF Never
  <2> QED
    BY <2>1 DEF LimitAt, AwakeAt, EndAt
<1> QED
  BY <1>1 DEF LimitAt, AwakeAt, EndAt, SleepOf, Blocks, inputVars

LEMMA ReleaseKeepsInv ==
  ASSUME TimingInv, NEW c \in Calls, ReleaseWaiter(c) PROVE TimingInv'
<1>1. /\ Runs("release", c) /\ released' = released \cup {c}
      /\ Queues(IF c \in released THEN <<>> ELSE <<Do("collect", c)>>)
      /\ UNCHANGED <<inputVars, now, timers, task, cancelled, resultVars,
                     written, report>>
  BY DEF ReleaseWaiter
<1>2. /\ TimingTypeOK
      /\ QueueInv(c) /\ TaskInv(c) /\ ClockInv(c) /\ SoundAt(c)
  BY DEF TimingInv, CallInv
<1>3. now \in Nat /\ UNCHANGED started
  BY <1>1, <1>2, CallTypes DEF resultVars
<1>4. PICK E \in {{}, {"collect"}} :
        /\ Has(ready, "release", c) /\ Requeued(c, "release", E)
        /\ Replaces(ready, ready', {Do(e, c) : e \in E})
        /\ todo' \in 0..Len(ready')
        /\ E # {} => c \notin released
  <2>1. CASE c \in released
    <3>1. /\ Has(ready, "release", c) /\ Requeued(c, "release", {})
          /\ Replaces(ready, ready', {}) /\ todo' \in 0..Len(ready')
      BY <1>1, <1>2, <2>1, RunsNone
    <3>2. {Do(e, c) : e \in {}} = {}
      OBVIOUS
    <3> QED
      BY <3>1, <3>2
  <2>2. CASE c \notin released
    <3>1. /\ Has(ready, "release", c) /\ Requeued(c, "release", {"collect"})
          /\ Replaces(ready, ready', {Do("collect", c)}) /\ todo' \in 0..Len(ready')
      BY <1>1, <1>2, <2>2, RunsOne DEF Doings
    <3>2. {Do(e, c) : e \in {"collect"}} = {Do("collect", c)}
      OBVIOUS
    <3> QED
      BY <2>2, <3>1, <3>2
  <2> QED
    BY <2>1, <2>2
<1>5. task[c] # "none" /\ (E # {} => verdict[c] = "none")
  BY <1>2, <1>4 DEF QueueInv, TaskInv
<1>6. TimingTypeOK'
  BY <1>1, <1>2, <1>4
     DEF TimingTypeOK, Replaces, inputVars, resultVars, Calls
<1>7. Touches(c, {Do(e, c) : e \in E})
  <2>1. \A do, d : Do(do, d) \in {Do(e, c) : e \in E} => d = c /\ do # "begin"
    BY DoInjective
  <2> QED
    BY <1>1, <1>3, <1>4, <2>1 DEF Touches, inputVars, resultVars
<1>8. QueueInv(c)'
  <2>1. /\ Has(ready', "collect", c) =>
             c \in released' /\ verdict'[c] = "none" /\ task'[c] # "none"
        /\ \A do : Single(ready, do, c) /\ (do = "collect" => c \in released \/ ~Has(ready, do, c))
             => Single(ready', do, c)
    BY <1>1, <1>2, <1>4, <1>5 DEF QueueInv, Requeued, resultVars
  <2>2. Has(ready, "collect", c) => c \in released
    BY <1>2 DEF QueueInv
  <2> QED
    BY <1>1, <1>2, <1>4, <1>5, <2>1, <2>2 DEF QueueInv, Requeued, resultVars
<1>9. TaskInv(c)' /\ SoundAt(c)'
  BY <1>1, <1>2
     DEF TaskInv, SoundAt, Duration, SleepOf, Blocks, inputVars, resultVars
<1>10. ClockInv(c)'
  BY <1>1, <1>2, <1>3, <1>4, MomentsStay DEF ClockInv, Requeued
<1> QED
  BY <1>6, <1>7, <1>8, <1>9, <1>10, StepKeepsInv DEF CallInv

LEMMA CancelKeepsInv ==
  ASSUME TimingInv, NEW c \in Calls, CancelTask(c) PROVE TimingInv'
<1>1. /\ Runs("collect", c) /\ task[c] \in {"asleep", "due"}
      /\ cancelled' = cancelled \cup {c} /\ released' = released \ {c}
      /\ task' = [task EXCEPT ![c] = "due"]
      /\ Queues(IF task[c] = "asleep" THEN <<Do("wake", c)>> ELSE <<>>)
      /\ UNCHANGED <<inputVars, now, timers, resultVars, written, report>>
  BY DEF CancelTask
<1>2. /\ TimingTypeOK
      /\ QueueInv(c) /\ TaskInv(c) /\ ClockInv(c) /\ SoundAt(c)
  BY DEF TimingInv, CallInv
<1>3. now \in Nat /\ UNCHANGED started
  BY <1>1, <1>2, CallTypes DEF resultVars
<1>4. PICK E \in {{}, {"wake"}} :
        /\ Has(ready, "collect", c) /\ Requeued(c, "collect", E)
        /\ Replaces(ready, ready', {Do(e, c) : e \in E})
        /\ todo' \in 0..Len(ready')
        /\ E # {} => task[c] = "asleep"
  <2>1. CASE task[c] # "asleep"
    <3>1. /\ Has(ready, "collect", c) /\ Requeued(c, "collect", {})
          /\ Replaces(ready, ready', {}) /\ todo' \in 0..Len(ready')
      BY <1>1, <1>2, <2>1, RunsNone
    <3>2. {Do(e, c) : e \in {}} = {}
      OBVIOUS
    <3> QED
      BY <3>1, <3>2
  <2>2. CASE task[c] = "asleep"
    <3>1. /\ Has(ready, "collect", c) /\ Requeued(c, "collect", {"wake"})
          /\ Replaces(ready, ready', {Do("wake", c)}) /\ todo' \in 0..Len(ready')
      BY <1>1, <1>2, <2>2, RunsOne DEF Doings
    <3>2. {Do(e, c) : e \in {"wake"}} = {Do("wake", c)}
      OBVIOUS
    <3> QED
      BY <2>2, <3>1, <3>2
  <2> QED
    BY <2>1, <2>2
<1>5. /\ c \in released /\ verdict[c] = "none" /\ batch[c].awaits
      /\ now >= LimitAt(c)
  BY <1>1, <1>2, <1>4 DEF QueueInv, TaskInv, ClockInv, Unfinished
<1>6. task'[c] = "due"
  BY <1>1, <1>2 DEF TimingTypeOK
<1>7. TimingTypeOK'
  <2>1. task' \in [Calls -> TaskStates]
    BY <1>1, <1>2 DEF TimingTypeOK, TaskStates
  <2> QED
    BY <1>1, <1>2, <1>4, <2>1
       DEF TimingTypeOK, Replaces, inputVars, resultVars, Calls
<1>8. Touches(c, {Do(e, c) : e \in E})
  <2>1. \A do, d : Do(do, d) \in {Do(e, c) : e \in E} => d = c /\ do # "begin"
    BY DoInjective
  <2> QED
    BY <1>1, <1>2, <1>3, <1>4, <2>1
       DEF Touches, TimingTypeOK, inputVars, resultVars
<1>9. QueueInv(c)'
  <2>1. /\ ~Has(ready', "collect", c) /\ ~Has(ready, "run", c)
        /\ E # {} => ~Has(ready, "wake", c)
    BY <1>1, <1>2, <1>4 DEF QueueInv, Requeued
  <2> QED
    BY <1>1, <1>2, <1>3, <1>4, <1>6, <2>1 DEF QueueInv, Requeued
<1>10. TaskInv(c)' /\ SoundAt(c)'
  BY <1>1, <1>2, <1>5, <1>6
     DEF TaskInv, SoundAt, inputVars, resultVars
<1>11. ClockInv(c)'
  BY <1>1, <1>2, <1>3, <1>4, <1>5, <1>6, MomentsStay DEF ClockInv, Requeued
<1> QED
  BY <1>7, <1>8, <1>9, <1>10, <1>11, StepKeepsInv DEF CallInv

-----------------------------------------------------------------------------
(* The tool's coroutine.                                                   *)
LEMMA RunToSleepKeepsInv ==
  ASSUME TimingInv, NEW c \in Calls, RunToSleep(c) PROVE TimingInv'
<1> DEFINE timer == [at |-> now' + batch[c].sleep, run |-> Do("alarm", c)]
<1>1. /\ Runs("run", c) /\ batch[c].awaits
      /\ now' = now + batch[c].before
      /\ timers' = timers \cup {timer}
      /\ task' = [task EXCEPT ![c] = "asleep"]
      /\ Queues(<<>>)
      /\ UNCHANGED <<inputVars, cancelled, released, resultVars, written, report>>
  BY DEF RunToSleep
<1>2. /\ TimingTypeOK
      /\ QueueInv(c) /\ TaskInv(c) /\ ClockInv(c) /\ SoundAt(c)
  BY DEF TimingInv, CallInv
<1>3. /\ now \in Nat /\ c \in Nat /\ batch[c].before \in Nat /\ batch[c].sleep \in Nat
      /\ UNCHANGED started /\ started[c] \in Int
  BY <1>1, <1>2, CallTypes DEF resultVars, Never
<1>4. /\ Has(ready, "run", c) /\ Requeued(c, "run", {})
      /\ Replaces(ready, ready', {}) /\ todo' \in 0..Len(ready')
  BY <1>1, <1>2, RunsNone
<1>5. /\ task[c] = "new" /\ verdict[c] = "none" /\ c \notin cancelled
      /\ ~Has(ready, "wake", c) /\ ~Has(ready', "run", c)
      /\ started[c] # Never /\ now >= started[c]
      /\ batch[c].gives # "refused" /\ c \notin written
  <2>1. task[c] = "new"
    BY <1>2, <1>4 DEF QueueInv
  <2> QED
    BY <1>2, <1>4, <2>1 DEF QueueInv, TaskInv, Requeued
<1>6. task'[c] = "asleep" /\ now' \in Nat /\ now' >= now
  BY <1>1, <1>2, <1>3 DEF TimingTypeOK
<1>7. TimingTypeOK'
  <2>1. timer \in [at : Nat, run : Callback]
    BY <1>3, <1>6 DEF Callback, Do, Doings
  <2>2. task' \in [Calls -> TaskStates]
    BY <1>1, <1>2 DEF TimingTypeOK, TaskStates
  <2> HIDE DEF timer
  <2> QED
    BY <1>1, <1>2, <1>4, <1>6, <2>1, <2>2
       DEF TimingTypeOK, Replaces, inputVars, resultVars, Calls
<1>8. Touches(c, {})
  <2>1. timer.run.call = c
    BY DEF Do
  <2> HIDE DEF timer
  <2> QED
    BY <1>1, <1>2, <1>4, <1>6, <2>1
       DEF Touches, TimingTypeOK, inputVars, resultVars
<1>9. timer.run.do = "alarm" /\ timer.at >= AwakeAt(c) /\ timer.at \in Nat
  <2>1. timer.run.do = "alarm" /\ timer.at = now' + batch[c].sleep
    BY DEF Do
  <2> HIDE DEF timer
  <2>2. now' = now + batch[c].before
    BY <1>1
  <2>3. /\ now' + batch[c].sleep \in Nat
        /\ now' + batch[c].sleep >= started[c] + batch[c].before + batch[c].sleep
    BY <1>3, <1>5, <2>2
  <2> QED
    BY <2>1, <2>3 DEF AwakeAt
<1> HIDE DEF timer
<1>10. QueueInv(c)'
  BY <1>1, <1>2, <1>3, <1>4, <1>5, <1>6, <1>9 DEF QueueInv, Requeued, resultVars
<1>11. TaskInv(c)' /\ SoundAt(c)'
  BY <1>1, <1>3, <1>5, <1>6
     DEF TaskInv, SoundAt, inputVars, resultVars
<1>12. ClockInv(c)'
  <2>1. /\ LimitAt(c)' = LimitAt(c) /\ AwakeAt(c)' = AwakeAt(c)
        /\ LimitAt(c) \in Int /\ AwakeAt(c) \in Int
    BY <1>1, <1>2, <1>3, MomentsStay
  <2>2. /\ Has(ready', "release", c) \/ Has(ready', "collect", c) => now >= LimitAt(c)
        /\ Has(ready', "alarm", c) => now >= AwakeAt(c)
    BY <1>2, <1>4, <1>5 DEF ClockInv, Requeued, Unfinished
  <2>3. \A t \in timers' : t.run.call = c =>
          /\ t.run.do = "release" => t.at >= LimitAt(c)
          /\ t.run.do = "alarm" => t.at >= AwakeAt(c)
    BY <1>1, <1>2, <1>9 DEF ClockInv
  <2> QED
    BY <1>1, <1>3, <1>5, <1>6, <2>1, <2>2, <2>3 DEF ClockInv
<1> QED
  BY <1>7, <1>8, <1>10, <1>11, <1>12, StepKeepsInv DEF CallInv

LEMMA RunToYieldKeepsInv ==
  ASSUME TimingInv, NEW c \in Calls, RunToYield(c) PROVE TimingInv'
<1>1. /\ Runs("run", c) /\ batch[c].awaits /\ batch[c].sleep = 0
      /\ now' = now + batch[c].before
      /\ task' = [task EXCEPT ![c] = "due"]
      /\ Queues(<<Do("wake", c)>>)
      /\ UNCHANGED <<inputVars, timers, cancelled, released, resultVars, written,
                     report>>
  BY DEF RunToYield
<1>2. /\ TimingTypeOK
      /\ QueueInv(c) /\ TaskInv(c) /\ ClockInv(c) /\ SoundAt(c)
  BY DEF TimingInv, CallInv
<1>3. /\ now \in Nat /\ c \in Nat /\ batch[c].before \in Nat
      /\ UNCHANGED started /\ started[c] \in Int
  BY <1>1, <1>2, CallTypes DEF resultVars, Never
<1>4. /\ Has(ready, "run", c) /\ Requeued(c, "run", {"wake"})
      /\ Replaces(ready, ready', {Do("wake", c)}) /\ todo' \in 0..Len(ready')
  BY <1>1, <1>2, RunsOne DEF Doings
<1>5. /\ task[c] = "new" /\ verdict[c] = "none" /\ c \notin cancelled
      /\ ~Has(ready, "wake", c) /\ ~Has(ready', "run", c)
      /\ started[c] # Never /\ now >= started[c]
      /\ batch[c].gives # "refused" /\ c \notin written
  <2>1. task[c] = "new"
    BY <1>2, <1>4 DEF QueueInv
  <2> QED
    BY <1>2, <1>4, <2>1 DEF QueueInv, TaskInv, Requeued
<1>6. /\ task'[c] = "due" /\ now' \in Nat /\ now' >= now /\ now' >= AwakeAt(c)
  BY <1>1, <1>2, <1>3, <1>5 DEF TimingTypeOK, AwakeAt
<1>7. TimingTypeOK'
  <2>1. task' \in [Calls -> TaskStates]
    BY <1>1, <1>2 DEF TimingTypeOK, TaskStates
  <2> QED
    BY <1>1, <1>2, <1>4, <1>6, <2>1
       DEF TimingTypeOK, Replaces, inputVars, resultVars, Calls
<1>8. Touches(c, {Do("wake", c)})
  <2>1. \A do, d : Do(do, d) \in {Do("wake", c)} => d = c /\ do # "begin"
    BY DoInjective
  <2> QED
    BY <1>1, <1>2, <1>4, <1>6, <2>1
       DEF Touches, TimingTypeOK, inputVars, resultVars
<1>9. QueueInv(c)'
  BY <1>1, <1>2, <1>3, <1>4, <1>5, <1>6 DEF QueueInv, Requeued, resultVars
<1>10. TaskInv(c)' /\ SoundAt(c)'
  BY <1>1, <1>3, <1>5, <1>6
     DEF TaskInv, SoundAt, inputVars, resultVars
<1>11. ClockInv(c)'
  <2>1. /\ LimitAt(c)' = LimitAt(c) /\ AwakeAt(c)' = AwakeAt(c)
        /\ LimitAt(c) \in Int /\ AwakeAt(c) \in Int
    BY <1>1, <1>2, <1>3, MomentsStay
  <2>2. /\ Has(ready', "release", c) \/ Has(ready', "collect", c) => now >= LimitAt(c)
        /\ Has(ready', "alarm", c) => now >= AwakeAt(c)
    BY <1>2, <1>4, <1>5 DEF ClockInv, Requeued, Unfinished
  <2> QED
    BY <1>1, <1>2, <1>3, <1>5, <1>6, <2>1, <2>2 DEF ClockInv
<1> QED
  BY <1>7, <1>8, <1>9, <1>10, <1>11, StepKeepsInv DEF CallInv

LEMMA AlarmKeepsInv ==
  ASSUME TimingInv, NEW c \in Calls, Alarm(c) PROVE TimingInv'
<1>1. /\ Runs("alarm", c)
      /\ task' = [task EXCEPT ![c] = IF @ = "asleep" THEN "due" ELSE @]
      /\ Queues(IF task[c] = "asleep" THEN <<Do("wake", c)>> ELSE <<>>)
      /\ UNCHANGED <<inputVars, now, timers, cancelled, released, resultVars,
                     written, report>>
  BY DEF Alarm
<1>2. /\ TimingTypeOK
      /\ QueueInv(c) /\ TaskInv(c) /\ ClockInv(c) /\ SoundAt(c)
  BY DEF TimingInv, CallInv
<1>3. now \in Nat /\ UNCHANGED started
  BY <1>1, <1>2, CallTypes DEF resultVars
<1>4. PICK E \in {{}, {"wake"}} :
        /\ Has(ready, "alarm", c) /\ Requeued(c, "alarm", E)
        /\ Replaces(ready, ready', {Do(e, c) : e \in E})
        /\ todo' \in 0..Len(ready')
        /\ E # {} <=> task[c] = "asleep"
  <2>1. CASE task[c] # "asleep"
    <3>1. /\ Has(ready, "alarm", c) /\ Requeued(c, "alarm", {})
          /\ Replaces(ready, ready', {}) /\ todo' \in 0..Len(ready')
      BY <1>1, <1>2, <2>1, RunsNone
    <3>2. {Do(e, c) : e \in {}} = {}
      OBVIOUS
    <3> QED
      BY <2>1, <3>1, <3>2
  <2>2. CASE task[c] = "asleep"
    <3>1. /\ Has(ready, "alarm", c) /\ Requeued(c, "alarm", {"wake"})
          /\ Replaces(ready, ready', {Do("wake", c)}) /\ todo' \in 0..Len(ready')
      BY <1>1, <1>2, <2>2, RunsOne DEF Doings
    <3>2. {Do(e, c) : e \in {"wake"}} = {Do("wake", c)}
      OBVIOUS
    <3> QED
      BY <2>2, <3>1, <3>2
  <2> QED
    BY <2>1, <2>2
<1>5. task'[c] = IF task[c] = "asleep" THEN "due" ELSE task[c]
  BY <1>1, <1>2 DEF TimingTypeOK
<1>6. /\ task[c] # "none" /\ now >= AwakeAt(c)
      /\ task[c] = "asleep" => /\ c \notin cancelled /\ verdict[c] = "none"
                               /\ ~Has(ready, "wake", c) /\ ~Has(ready, "run", c)
  BY <1>2, <1>4 DEF QueueInv, TaskInv, ClockInv
<1>7. TimingTypeOK'
  <2>1. task' \in [Calls -> TaskStates]
    BY <1>1, <1>2 DEF TimingTypeOK, TaskStates
  <2> QED
    BY <1>1, <1>2, <1>4, <2>1
       DEF TimingTypeOK, Replaces, inputVars, resultVars, Calls
<1>8. Touches(c, {Do(e, c) : e \in E})
  <2>1. \A do, d : Do(do, d) \in {Do(e, c) : e \in E} => d = c /\ do # "begin"
    BY DoInjective
  <2> QED
    BY <1>1, <1>2, <1>3, <1>4, <2>1
       DEF Touches, TimingTypeOK, inputVars, resultVars
<1>9. QueueInv(c)'
  BY <1>1, <1>2, <1>3, <1>4, <1>5, <1>6 DEF QueueInv, Requeued, resultVars
<1>10. TaskInv(c)' /\ SoundAt(c)'
  BY <1>1, <1>2, <1>5, <1>6
     DEF TaskInv, SoundAt, Duration, SleepOf, Blocks, inputVars, resultVars
<1>11. ClockInv(c)'
  BY <1>1, <1>2, <1>3, <1>4, <1>5, <1>6, MomentsStay
     DEF ClockInv, Requeued, Unfinished
<1> QED
  BY <1>7, <1>8, <1>9, <1>10, <1>11, StepKeepsInv DEF CallInv

LEMMA WakeCancelledKeepsInv ==
  ASSUME TimingInv, NEW c \in Calls, WakeCancelled(c) PROVE TimingInv'
<1>1. /\ Runs("wake", c) /\ c \in cancelled
      /\ task' = [task EXCEPT ![c] = "cancelled"]
      /\ timers' \subseteq timers
      /\ Queues(<<Do("release", c)>>)
      /\ UNCHANGED <<inputVars, now, cancelled, released, resultVars, written,
                     report>>
  BY DEF WakeCancelled
<1>2. /\ TimingTypeOK
      /\ QueueInv(c) /\ TaskInv(c) /\ ClockInv(c) /\ SoundAt(c)
  BY DEF TimingInv, CallInv
<1>3. now \in Nat /\ UNCHANGED started
  BY <1>1, <1>2, CallTypes DEF resultVars
<1>4. /\ Has(ready, "wake", c) /\ Requeued(c, "wake", {"release"})
      /\ Replaces(ready, ready', {Do("release", c)}) /\ todo' \in 0..Len(ready')
  BY <1>1, <1>2, RunsOne DEF Doings
<1>5. /\ task[c] = "due" /\ verdict[c] = "none" /\ batch[c].awaits
      /\ ~Has(ready, "run", c) /\ ~Has(ready', "wake", c)
  <2>1. task[c] = "due"
    BY <1>2, <1>4 DEF QueueInv
  <2> QED
    BY <1>2, <1>4, <2>1 DEF QueueInv, TaskInv, Requeued
<1>6. task'[c] = "cancelled"
  BY <1>1, <1>2 DEF TimingTypeOK
<1>7. TimingTypeOK'
  <2>1. task' \in [Calls -> TaskStates]
    BY <1>1, <1>2 DEF TimingTypeOK, TaskStates
  <2> QED
    BY <1>1, <1>2, <1>4, <2>1
       DEF TimingTypeOK, Replaces, inputVars, resultVars, Calls
<1>8. Touches(c, {Do("release", c)})
  <2>1. \A do, d : Do(do, d) \in {Do("release", c)} => d = c /\ do # "begin"
    BY DoInjective
  <2> QED
    BY <1>1, <1>2, <1>3, <1>4, <2>1
       DEF Touches, TimingTypeOK, inputVars, resultVars
<1>9. QueueInv(c)'
  BY <1>1, <1>2, <1>3, <1>4, <1>5, <1>6 DEF QueueInv, Requeued, resultVars
<1>10. TaskInv(c)' /\ SoundAt(c)'
  BY <1>1, <1>2, <1>5, <1>6
     DEF TaskInv, SoundAt, inputVars, resultVars
<1>11. ClockInv(c)'
  BY <1>1, <1>2, <1>3, <1>4, <1>6, MomentsStay DEF ClockInv, Requeued, Unfinished
<1> QED
  BY <1>7, <1>8, <1>9, <1>10, <1>11, StepKeepsInv DEF CallInv

(* The end of a task, with its note: from its first step or its last.      *)
LEMMA EndTaskKeepsInv ==
  ASSUME TimingInv, NEW c \in Calls, NEW h \in {"run", "wake"}, Runs(h, c),
         c \notin cancelled,
         NEW moment \in Nat, moment >= now, moment >= EndAt(c),
         EndTask(c, moment),
         UNCHANGED <<inputVars, timers, cancelled, released, resultVars, report>>
  PROVE  TimingInv'
<1>1. /\ now' = moment /\ task' = [task EXCEPT ![c] = "ended"]
      /\ Queues(<<Do("release", c)>>)
  BY DEF EndTask
<1>2. /\ TimingTypeOK
      /\ QueueInv(c) /\ TaskInv(c) /\ ClockInv(c) /\ SoundAt(c)
  BY DEF TimingInv, CallInv
<1>3. /\ now \in Nat /\ c \in Nat /\ UNCHANGED started /\ started[c] \in Int
      /\ batch[c].writes \in BOOLEAN
  BY <1>1, <1>2, CallTypes DEF resultVars, Never
<1>4. /\ Has(ready, h, c) /\ Requeued(c, h, {"release"})
      /\ Replaces(ready, ready', {Do("release", c)}) /\ todo' \in 0..Len(ready')
  BY <1>1, <1>2, RunsOne DEF Doings
<1>5. /\ task[c] \in {"new", "due"} /\ verdict[c] = "none"
      /\ ~Has(ready', "run", c) /\ ~Has(ready', "wake", c)
      /\ started[c] # Never /\ now >= started[c]
      /\ batch[c].gives # "refused" /\ c \notin written
  <2>1. task[c] \in {"new", "due"}
    BY <1>2, <1>4 DEF QueueInv
  <2>2. ~Has(ready', h, c) /\ \A e \in {"run", "wake"} : e # h => ~Has(ready, e, c)
    BY <1>2, <1>4 DEF QueueInv, Requeued
  <2> QED
    BY <1>2, <1>4, <2>1, <2>2 DEF QueueInv, TaskInv, Requeued
<1>6. task'[c] = "ended"
  BY <1>1, <1>2 DEF TimingTypeOK
<1>7. /\ written' \subseteq Calls
      /\ (c \in written') = (batch[c].gives = "ok" /\ batch[c].writes)
      /\ \A d \in Calls \ {c} : (d \in written') = (d \in written)
  <2>1. written \subseteq Calls /\ c \notin written
    BY <1>2, <1>5 DEF TimingTypeOK
  <2>2. CASE batch[c].gives = "ok" /\ batch[c].writes
    <3>1. written' = written \cup {c}
      BY <2>2 DEF EndTask
    <3> QED
      BY <2>1, <2>2, <3>1
  <2>3. CASE ~(batch[c].gives = "ok" /\ batch[c].writes)
    <3>1. written' = written
      BY <2>3 DEF EndTask
    <3> QED
      BY <2>1, <2>3, <3>1
  <2> QED
    BY <2>2, <2>3
<1>8. TimingTypeOK'
  <2>1. task' \in [Calls -> TaskStates]
    BY <1>1, <1>2 DEF TimingTypeOK, TaskStates
  <2> QED
    BY <1>1, <1>2, <1>4, <1>7, <2>1
       DEF TimingTypeOK, Replaces, inputVars, resultVars, Calls
<1>9. Touches(c, {Do("release", c)})
  <2>1. \A do, d : Do(do, d) \in {Do("release", c)} => d = c /\ do # "begin"
    BY DoInjective
  <2> QED
    BY <1>1, <1>2, <1>3, <1>4, <1>7, <2>1
       DEF Touches, TimingTypeOK, inputVars, resultVars
<1>10. QueueInv(c)'
  BY <1>1, <1>2, <1>3, <1>4, <1>5, <1>6 DEF QueueInv, Requeued, resultVars
<1>11. TaskInv(c)' /\ SoundAt(c)'
  BY <1>1, <1>2, <1>3, <1>5, <1>6, <1>7
     DEF TaskInv, SoundAt, inputVars, resultVars
<1>12. ClockInv(c)'
  BY <1>1, <1>2, <1>3, <1>4, <1>6, MomentsStay DEF ClockInv, Requeued, Unfinished
<1> QED
  BY <1>8, <1>9, <1>10, <1>11, <1>12, StepKeepsInv DEF CallInv

LEMMA RunToEndKeepsInv ==
  ASSUME TimingInv, NEW c \in Calls, RunToEnd(c) PROVE TimingInv'
<1>1. /\ Runs("run", c) /\ ~batch[c].awaits
      /\ EndTask(c, now + batch[c].before)
      /\ UNCHANGED <<inputVars, timers, cancelled, released, resultVars, report>>
  BY DEF RunToEnd
<1>2. TimingTypeOK /\ QueueInv(c) /\ TaskInv(c)
  BY DEF TimingInv, CallInv
<1>3. task[c] = "new"
  BY <1>1, <1>2 DEF QueueInv, Runs, Has, TimingTypeOK
<1>4. /\ c \notin cancelled /\ batch[c].gives # "refused"
      /\ started[c] # Never /\ now >= started[c]
  BY <1>2, <1>3 DEF TaskInv
<1>5. now \in Nat /\ batch[c].before \in Nat /\ started[c] \in Int
  BY <1>2, CallTypes DEF Never
<1>6. SleepOf(c) = 0 /\ Blocks(c) = batch[c].before
  BY <1>1, <1>4 DEF SleepOf, Blocks
<1>7. /\ now + batch[c].before \in Nat /\ now + batch[c].before >= now
      /\ now + batch[c].before >= EndAt(c)
  BY <1>4, <1>5, <1>6 DEF EndAt
<1> QED
  BY <1>1, <1>4, <1>7, EndTaskKeepsInv

LEMMA WakeToEndKeepsInv ==
  ASSUME TimingInv, NEW c \in Calls, WakeToEnd(c) PROVE TimingInv'
<1>1. /\ Runs("wake", c) /\ c \notin cancelled
      /\ EndTask(c, now + batch[c].after)
      /\ UNCHANGED <<inputVars, timers, cancelled, released, resultVars, report>>
  BY DEF WakeToEnd
<1>2. TimingTypeOK /\ QueueInv(c) /\ TaskInv(c) /\ ClockInv(c)
  BY DEF TimingInv, CallInv
<1>3. task[c] = "due"
  BY <1>1, <1>2 DEF QueueInv, Runs, Has, TimingTypeOK
<1>4. batch[c].awaits /\ batch[c].gives # "refused" /\ now >= AwakeAt(c)
  BY <1>1, <1>2, <1>3 DEF TaskInv, ClockInv
<1>5. /\ now \in Nat /\ started[c] \in Int /\ batch[c].before \in Nat
      /\ batch[c].sleep \in Nat /\ batch[c].after \in Nat
  BY <1>2, CallTypes DEF Never
<1>6. SleepOf(c) = batch[c].sleep /\ Blocks(c) = batch[c].before + batch[c].after
  BY <1>4 DEF SleepOf, Blocks
<1>7. /\ now + batch[c].after \in Nat /\ now + batch[c].after >= now
      /\ now + batch[c].after >= EndAt(c)
  BY <1>4, <1>5, <1>6 DEF EndAt, AwakeAt
<1> QED
  BY <1>1, <1>7, EndTaskKeepsInv

-----------------------------------------------------------------------------
(* The result: the callback of the call is gone, and the next call of a    *)
(* sequential batch is to begin.                                           *)
LEMMA SettleQueue ==
  ASSUME TimingInv, NEW c \in Calls, NEW h, Runs(h, c), NEW v, Settle(c, v),
         verdict[c] = "none", v \in Verdicts \ {"none"}, UNCHANGED inputVars
  PROVE  \E Y :
           /\ Has(ready, h, c) /\ Replaces(ready, ready', Y)
           /\ Requeued(c, h, {}) /\ todo' \in 0..Len(ready')
           /\ \A do, d : Do(do, d) \in Y =>
                /\ d = c + 1 /\ do = "begin"
                /\ sequential /\ verdict[c] = "none" /\ verdict'[c] # "none"
<1>1. /\ ready \in Seq(Callback) /\ todo \in 0..Len(ready) /\ todo > 0
      /\ Head(ready) = Do(h, c) /\ verdict \in [Calls -> Verdicts]
      /\ c \in Nat
  BY CallTypes DEF TimingInv, TimingTypeOK, Runs
<1>2. ready # <<>> /\ Has(ready, h, c)
  BY <1>1 DEF Has
<1>3. verdict'[c] = v
  BY <1>1 DEF Settle
<1>4. CASE sequential /\ c < Len(batch)
  <2> DEFINE Y == {Do("begin", c + 1)}
  <2>1. ready' = <<Do("begin", c + 1)>> \o Tail(ready) /\ todo' = todo - 1 + 1
    <3>1. Len(<<Do("begin", c + 1)>>) = 1
      OBVIOUS
    <3> QED
      BY <1>4, <3>1 DEF Settle
  <2>2. Do("begin", c + 1) \in Callback
    BY <1>1 DEF Do, Callback, Doings
  <2>3. Replaces(ready, ready', Y)
    BY <1>1, <1>2, <2>1, <2>2, FirstReplaces
  <2>4. \A do, d : Do(do, d) \in Y => d = c + 1 /\ do = "begin"
    BY DoInjective
  <2>5. \A do : Do(do, c) \in Y <=> do \in {}
    BY <1>1, <2>4
  <2>6. Requeued(c, h, {})
    BY <1>1, <2>3, <2>5, RequeuedType
  <2>7. todo' \in 0..Len(ready')
    <3>1. Len(ready') = Len(ready)
      BY <1>1, <1>2, <2>1, <2>2
    <3> QED
      BY <1>1, <2>1, <3>1
  <2> QED
    BY <1>2, <1>3, <1>4, <2>3, <2>4, <2>6, <2>7
<1>5. CASE ~(sequential /\ c < Len(batch))
  <2>1. ready' = Tail(ready) /\ todo' = todo - 1
    <3>1. <<>> \o Tail(ready) = Tail(ready) /\ Len(<<>>) = 0
      BY <1>1, <1>2
    <3>2. ready' = <<>> \o Tail(ready) /\ todo' = todo - 1 + Len(<<>>)
      BY <1>5 DEF Settle
    <3> QED
      BY <1>1, <3>1, <3>2
  <2>2. Replaces(ready, ready', {})
    BY <1>1, <1>2, <2>1, TailReplaces
  <2>3. Requeued(c, h, {})
    BY <1>1, <2>2, RequeuedType
  <2>4. todo' \in 0..Len(ready')
    BY <1>1, <2>1, <2>2 DEF Replaces
  <2> QED
    BY <1>2, <2>2, <2>3, <2>4
<1> QED
  BY <1>4, <1>5

LEMMA InvokeRefusedKeepsInv ==
  ASSUME TimingInv, NEW c \in Calls, InvokeRefused(c) PROVE TimingInv'
<1>1. /\ Runs("begin", c) /\ batch[c].gives = "refused"
      /\ started' = [started EXCEPT ![c] = now]
      /\ Settle(c, "refused")
      /\ UNCHANGED <<inputVars, now, timers, waitVars, written, report>>
  BY DEF InvokeRefused
<1>2. /\ TimingTypeOK
      /\ QueueInv(c) /\ TaskInv(c) /\ ClockInv(c) /\ SoundAt(c)
  BY DEF TimingInv, CallInv
<1>3. /\ finished' = [finished EXCEPT ![c] = now]
      /\ verdict' = [verdict EXCEPT ![c] = "refused"]
  BY <1>1 DEF Settle
<1>4. Has(ready, "begin", c)
  BY <1>1, <1>2 DEF Runs, Has, TimingTypeOK
<1>5. started[c] = Never /\ task[c] = "none" /\ verdict[c] = "none"
  BY <1>2, <1>4 DEF QueueInv, TaskInv
<1>6. PICK Y :
        /\ Replaces(ready, ready', Y)
        /\ Requeued(c, "begin", {}) /\ todo' \in 0..Len(ready')
        /\ \A do, d : Do(do, d) \in Y =>
             /\ d = c + 1 /\ do = "begin"
             /\ sequential /\ verdict[c] = "none" /\ verdict'[c] # "none"
  BY <1>1, <1>5, SettleQueue DEF Verdicts
<1>7. /\ now \in Nat /\ now # Never
      /\ started'[c] = now /\ verdict'[c] = "refused" /\ task'[c] = "none"
      /\ c \notin cancelled /\ c \notin written
  BY <1>1, <1>2, <1>3, <1>5, CallTypes DEF TimingTypeOK, TaskInv, Never, waitVars
<1>8. TimingTypeOK'
  BY <1>1, <1>2, <1>3, <1>6, <1>7
     DEF TimingTypeOK, Verdicts, Replaces, inputVars, waitVars, Calls
<1>9. Touches(c, Y)
  BY <1>1, <1>2, <1>3, <1>4, <1>6, <1>7
     DEF Touches, TimingTypeOK, inputVars, waitVars
<1>10. QueueInv(c)'
  BY <1>1, <1>2, <1>4, <1>5, <1>6, <1>7 DEF QueueInv, Requeued, waitVars
<1>11. TaskInv(c)' /\ SoundAt(c)'
  BY <1>1, <1>5, <1>7 DEF TaskInv, SoundAt, inputVars, waitVars
<1>12. ClockInv(c)'
  BY <1>1, <1>2, <1>5, <1>6, <1>7
     DEF ClockInv, QueueInv, Requeued, Unfinished, waitVars
<1> QED
  BY <1>8, <1>9, <1>10, <1>11, <1>12, StepKeepsInv DEF CallInv

LEMMA CollectKeepsInv ==
  ASSUME TimingInv, NEW c \in Calls, Collect(c) PROVE TimingInv'
<1>1. /\ Runs("collect", c) /\ task[c] \in {"ended", "cancelled"}
      /\ timers' \subseteq timers
      /\ Settle(c, Outcome(c))
      /\ UNCHANGED <<inputVars, now, waitVars, started, written, report>>
  BY DEF Collect
<1>2. /\ TimingTypeOK
      /\ QueueInv(c) /\ TaskInv(c) /\ ClockInv(c) /\ SoundAt(c)
  BY DEF TimingInv, CallInv
<1>3. /\ finished' = [finished EXCEPT ![c] = now]
      /\ verdict' = [verdict EXCEPT ![c] = Outcome(c)]
  BY <1>1 DEF Settle
<1>4. Has(ready, "collect", c)
  BY <1>1, <1>2 DEF Runs, Has, TimingTypeOK
<1>5. /\ c \in released /\ verdict[c] = "none" /\ started[c] # Never
      /\ now >= started[c] /\ batch[c].gives # "refused"
  BY <1>1, <1>2, <1>4 DEF QueueInv, TaskInv
<1>6. /\ now \in Nat /\ started[c] \in Int
      /\ batch[c].gives \in {"ok", "error", "refused"}
      /\ batch[c].limit \in Nat /\ SleepOf(c) \in Nat /\ Blocks(c) \in Nat
  BY <1>2, CallTypes DEF Never
<1>7. /\ task[c] = "ended" => /\ Outcome(c) = batch[c].gives
                              /\ Outcome(c) \in {"ok", "error"} /\ now >= EndAt(c)
      /\ task[c] = "cancelled" => /\ Outcome(c) = "timeout" /\ batch[c].awaits
                                  /\ now >= LimitAt(c)
      /\ Outcome(c) \in Verdicts \ {"none"}
  BY <1>1, <1>2, <1>5, <1>6 DEF Outcome, TaskInv, ClockInv, Verdicts
<1>8. PICK Y :
        /\ Replaces(ready, ready', Y)
        /\ Requeued(c, "collect", {}) /\ todo' \in 0..Len(ready')
        /\ \A do, d : Do(do, d) \in Y =>
             /\ d = c + 1 /\ do = "begin"
             /\ sequential /\ verdict[c] = "none" /\ verdict'[c] # "none"
  BY <1>1, <1>5, <1>7, SettleQueue
<1>9. verdict'[c] = Outcome(c) /\ finished'[c] = now /\ ~Has(ready', "collect", c)
  BY <1>2, <1>3, <1>8 DEF TimingTypeOK, QueueInv, Requeued
<1>10. TimingTypeOK'
  <2>1. /\ verdict' \in [Calls -> Verdicts]
        /\ finished' \in [Calls -> Nat \cup {Never}]
    BY <1>2, <1>3, <1>6, <1>7 DEF TimingTypeOK
  <2> QED
    BY <1>1, <1>2, <1>8, <2>1
       DEF TimingTypeOK, Replaces, inputVars, waitVars, Calls
<1>11. Touches(c, Y)
  BY <1>1, <1>2, <1>3, <1>5, <1>6, <1>7, <1>8, <1>9
     DEF Touches, TimingTypeOK, inputVars, waitVars
<1>12. QueueInv(c)'
  BY <1>1, <1>2, <1>8, <1>9 DEF QueueInv, Requeued, waitVars
<1>13. TaskInv(c)'
  BY <1>1, <1>2, <1>5, <1>7, <1>9 DEF TaskInv, inputVars, waitVars
<1>14. SoundAt(c)'
  <2>1. Duration(c)' = now - started[c]
    BY <1>1, <1>9 DEF Duration
  <2>2. /\ task[c] = "ended" => Duration(c)' >= SleepOf(c) + Blocks(c)
        /\ task[c] = "cancelled" => Duration(c)' >= batch[c].limit
    BY <1>6, <1>7, <2>1 DEF EndAt, LimitAt
  <2>3. SleepOf(c)' = SleepOf(c) /\ Blocks(c)' = Blocks(c) /\ batch' = batch
    BY <1>1 DEF SleepOf, Blocks, inputVars
  <2> QED
    BY <1>1, <1>7, <1>9, <2>2, <2>3 DEF SoundAt
<1>15. ClockInv(c)'
  BY <1>1, <1>2, <1>8, MomentsStay DEF ClockInv, Requeued, Unfinished, waitVars
<1> QED
  BY <1>10, <1>11, <1>12, <1>13, <1>14, <1>15, StepKeepsInv DEF CallInv

-----------------------------------------------------------------------------
(* All steps.                                                              *)
LEMMA NextKeepsTimingInv == TimingInv /\ [TimingNext]_tvars => TimingInv'
<1> SUFFICES ASSUME TimingInv, [TimingNext]_tvars PROVE TimingInv'
  OBVIOUS
<1>1. ASSUME NEW c \in Calls, CallStep(c) PROVE TimingInv'
  <2>1. CASE InvokeRefused(c)
    BY <2>1, InvokeRefusedKeepsInv
  <2>2. CASE Invoke(c)
    BY <2>2, InvokeKeepsInv
  <2>3. CASE ReleaseWaiter(c)
    BY <2>3, ReleaseKeepsInv
  <2>4. CASE CancelTask(c)
    BY <2>4, CancelKeepsInv
  <2>5. CASE Collect(c)
    BY <2>5, CollectKeepsInv
  <2>6. CASE RunToSleep(c)
    BY <2>6, RunToSleepKeepsInv
  <2>7. CASE RunToYield(c)
    BY <2>7, RunToYieldKeepsInv
  <2>8. CASE RunToEnd(c)
    BY <2>8, RunToEndKeepsInv
  <2>9. CASE Alarm(c)
    BY <2>9, AlarmKeepsInv
  <2>10. CASE WakeToEnd(c)
    BY <2>10, WakeToEndKeepsInv
  <2>11. CASE WakeCancelled(c)
    BY <2>11, WakeCancelledKeepsInv
  <2> QED
    BY <1>1, <2>1, <2>2, <2>3, <2>4, <2>5, <2>6, <2>7, <2>8, <2>9, <2>10, <2>11
       DEF CallStep
<1>2. CASE \E t \in timers : PollTimer(t)
  BY <1>2, PollTimerKeepsInv
<1>3. CASE \/ StartRound \/ Report \/ UNCHANGED tvars
           \/ \E t \in timers : SleepUntil(t)
  BY <1>3, LoopKeepsInv
<1> QED
  BY <1>1, <1>2, <1>3 DEF TimingNext, BatchStep, LoopStep, Rest

LEMMA TimingInvHolds == TimingSpec => []TimingInv
  BY InitTimingInv, NextKeepsTimingInv, PTL DEF TimingSpec

-----------------------------------------------------------------------------
(* TimingTypeOK: queue, timers, tasks and results of a batch are what they *)
(* are meant to be, for every batch of tools and in both modes.            *)
THEOREM BatchTyped == TimingSpec => []TimingTypeOK
<1>1. TimingInv => TimingTypeOK
  BY DEF TimingInv
<1> QED
  BY <1>1, TimingInvHolds, PTL

(* VerdictSound: wait_for gives no call up before its own limit has        *)
(* passed, however long the others keep the loop, and a call that is not   *)
(* given up had all its time.                                              *)
THEOREM TimeoutsAreEarned == TimingSpec => []VerdictSound
<1>1. TimingInv => VerdictSound
  BY DEF TimingInv, CallInv, SoundAt, VerdictSound
<1> QED
  BY <1>1, TimingInvHolds, PTL

(* NoLateEffect: a call reported as timed out or failed has not written    *)
(* its note and never does, since wait_for answers only when the task it   *)
(* cancelled is over; one reported as done has.                            *)
THEOREM TimedOutCallsLeaveNothing == TimingSpec => []NoLateEffect
<1>1. ASSUME TimingInv, NEW c \in Calls, verdict[c] # "none"
      PROVE  (c \in written) = (verdict[c] = "ok" /\ batch[c].writes)
  <2>1. TaskInv(c) /\ batch[c].gives \in {"ok", "error", "refused"}
    BY <1>1, CallTypes DEF TimingInv, CallInv
  <2> QED
    BY <1>1, <2>1 DEF TaskInv
<1>2. TimingInv => NoLateEffect
  BY <1>1 DEF NoLateEffect
<1> QED
  BY <1>2, TimingInvHolds, PTL

-----------------------------------------------------------------------------
(* The contract: whose turn it is.  A parallel batch has every call that   *)
(* is not started in the queue, in order; before a call that is started,   *)
(* or is to begin, of a sequential batch all others have their results.    *)
Ordered(q) ==
  \A i, j \in DOMAIN q :
    i < j /\ q[i].do = "begin" /\ q[j].do = "begin" => q[i].call < q[j].call

NoTimedBegin == \A t \in timers : t.run.do # "begin"

TurnInv ==
  /\ NoTimedBegin
  /\ sequential =>
       \A c, d \in Calls :
         d < c /\ (started[c] # Never \/ Has(ready, "begin", c)) =>
           verdict[d] # "none"
  /\ ~sequential =>
       Ordered(ready) /\ \A c \in Calls : started[c] = Never => Has(ready, "begin", c)

LEMMA InitTurnInv == TimingInit => TurnInv
<1> SUFFICES ASSUME TimingInit PROVE TurnInv
  OBVIOUS
<1>1. batch \in Seq(Timed) /\ Len(batch) \in Nat /\ Calls = 1..Len(batch)
      /\ batch # <<>> /\ NoTimedBegin
  BY BatchesTyped DEF TimingInit, Calls, NoTimedBegin
<1>2. CASE sequential
  <2>1. ready = [c \in 1..1 |-> Do("begin", c)]
    BY <1>2 DEF TimingInit
  <2>2. \A c : Has(ready, "begin", c) => c = 1
    BY <2>1 DEF Has, Do
  <2>3. \A c \in Calls : started[c] = Never
    BY DEF TimingInit
  <2> QED
    BY <1>1, <1>2, <2>2, <2>3 DEF TurnInv
<1>3. CASE ~sequential
  <2>1. ready = [c \in 1..Len(batch) |-> Do("begin", c)]
    BY <1>3 DEF TimingInit
  <2>2. /\ DOMAIN ready = 1..Len(batch)
        /\ \A c \in 1..Len(batch) : ready[c] = Do("begin", c) /\ ready[c].call = c
    BY <2>1 DEF Do
  <2> QED
    BY <1>1, <1>3, <2>2 DEF TurnInv, Ordered, Has
<1> QED
  BY <1>2, <1>3

(* The loop takes the first callback and appends others, none a begin.     *)
LEMMA TakingKeepsOrder ==
  ASSUME NEW q \in Seq(Callback), q # <<>>, NEW Z \in Seq(Callback),
         \A k \in DOMAIN Z : Z[k].do # "begin"
  PROVE  /\ Ordered(q) => Ordered(Tail(q) \o Z)
         /\ \A c : Has(q, "begin", c) /\ Head(q) # Do("begin", c)
                     => Has(Tail(q) \o Z, "begin", c)
<1> DEFINE t == Tail(q)
           r == t \o Z
<1>1. /\ t \in Seq(Callback) /\ Len(t) = Len(q) - 1 /\ Len(q) \in Nat \ {0}
      /\ DOMAIN q = 1..Len(q) /\ \A i \in 1..Len(t) : t[i] = q[i + 1]
      /\ Head(q) = q[1] /\ Len(Z) \in Nat /\ DOMAIN Z = 1..Len(Z)
  OBVIOUS
<1> HIDE DEF t
<1>2. /\ DOMAIN r = 1..Len(t) + Len(Z)
      /\ \A i \in 1..Len(t) + Len(Z) : r[i] = IF i <= Len(t) THEN t[i] ELSE Z[i - Len(t)]
  <2>1. r \in Seq(Callback) /\ Len(r) = Len(t) + Len(Z)
    BY <1>1, ConcatProperties
  <2> QED
    BY <1>1, <2>1, ConcatProperties
<1> HIDE DEF r
<1>3. /\ DOMAIN r \subseteq Int
      /\ \A i \in DOMAIN r : i <= Len(t) => r[i] = q[i + 1] /\ i + 1 \in DOMAIN q
      /\ \A i \in DOMAIN r : i > Len(t) => r[i].do # "begin"
  <2>1. \A i \in DOMAIN r : i <= Len(t) => r[i] = q[i + 1] /\ i + 1 \in DOMAIN q
    BY <1>1, <1>2
  <2>2. \A i \in DOMAIN r : i > Len(t) => r[i].do # "begin"
    <3> SUFFICES ASSUME NEW i \in DOMAIN r, i > Len(t) PROVE r[i].do # "begin"
      OBVIOUS
    <3>1. i - Len(t) \in DOMAIN Z /\ r[i] = Z[i - Len(t)]
      BY <1>1, <1>2
    <3> QED
      BY <3>1
  <2> QED
    BY <1>2, <2>1, <2>2
<1>4. ASSUME Ordered(q) PROVE Ordered(r)
  <2> SUFFICES ASSUME NEW i \in DOMAIN r, NEW j \in DOMAIN r, i < j,
                      r[i].do = "begin", r[j].do = "begin"
               PROVE  r[i].call < r[j].call
    BY DEF Ordered
  <2>1. i \in Int /\ j \in Int /\ Len(t) \in Int
    BY <1>1, <1>3
  <2>2. i <= Len(t) /\ j <= Len(t)
    BY <1>3, <2>1
  <2>3. /\ r[i] = q[i + 1] /\ i + 1 \in DOMAIN q
        /\ r[j] = q[j + 1] /\ j + 1 \in DOMAIN q /\ i + 1 < j + 1
    BY <1>3, <2>1, <2>2
  <2> QED
    BY <1>4, <2>3 DEF Ordered
<1>5. ASSUME NEW c, Has(q, "begin", c), Head(q) # Do("begin", c)
      PROVE  Has(r, "begin", c)
  <2>1. PICK i \in DOMAIN q : q[i] = Do("begin", c)
    BY <1>5 DEF Has
  <2>2. i - 1 \in 1..Len(t) /\ i = (i - 1) + 1
    BY <1>1, <1>5, <2>1
  <2>3. i - 1 \in DOMAIN r /\ r[i - 1] = q[i]
    BY <1>1, <1>2, <1>3, <2>2
  <2> QED
    BY <2>1, <2>3 DEF Has
<1> QED
  BY <1>4, <1>5 DEF r, t

LEMMA AppendingKeepsOrder ==
  ASSUME NEW q \in Seq(Callback), NEW y \in Callback, y.do # "begin"
  PROVE  /\ Ordered(q) => Ordered(Append(q, y))
         /\ \A c : Has(q, "begin", c) => Has(Append(q, y), "begin", c)
<1> DEFINE r == Append(q, y)
<1>1. /\ Len(q) \in Nat /\ DOMAIN q = 1..Len(q) /\ DOMAIN r = 1..Len(q) + 1
      /\ r[Len(q) + 1] = y /\ \A i \in 1..Len(q) : r[i] = q[i]
  OBVIOUS
<1> HIDE DEF r
<1>2. Ordered(q) => Ordered(r)
  BY <1>1 DEF Ordered
<1>3. \A c : Has(q, "begin", c) => Has(r, "begin", c)
  BY <1>1 DEF Has
<1> QED
  BY <1>2, <1>3 DEF r

(* What a step of call c is to the contract: it begins the call, or does   *)
(* not start any and at most gives this one its result.                    *)
Begins(c) ==
  started[c] = Never /\ started'[c] # Never /\ verdict[c] = "none"
Goes(c) ==
  /\ started[c] # Never /\ started'[c] = started[c]
  /\ verdict'[c] = verdict[c] \/ (verdict[c] = "none" /\ verdict'[c] # "none")

Shape(c, h) ==
  /\ Runs(h, c)
  /\ UNCHANGED <<inputVars, report>>
  /\ \A d \in Calls \ {c} : started'[d] = started[d] /\ verdict'[d] = verdict[d]
  /\ IF h = "begin" THEN Begins(c) ELSE Goes(c)
  /\ NoTimedBegin => NoTimedBegin'
  /\ \/ \E Z \in Seq(Callback) : /\ \A k \in DOMAIN Z : Z[k].do # "begin"
                                /\ ready' = Tail(ready) \o Z
     \/ /\ ready' = <<Do("begin", c + 1)>> \o Tail(ready)
        /\ sequential /\ verdict'[c] # "none"

LEMMA NoBegins ==
  ASSUME NEW c \in Nat, NEW e \in Doings \ {"begin"}, Queues(<<Do(e, c)>>)
  PROVE  \E Z \in Seq(Callback) : /\ \A k \in DOMAIN Z : Z[k].do # "begin"
                                 /\ ready' = Tail(ready) \o Z
<1> DEFINE y == Do(e, c)
<1>1. y \in Callback /\ y.do # "begin"
  BY DEF Do, Callback
<1>2. ready' = Tail(ready) \o <<y>>
  BY DEF Queues
<1> HIDE DEF y
<1>3. <<y>> \in Seq(Callback) /\ \A k \in DOMAIN <<y>> : <<y>>[k].do # "begin"
  BY <1>1
<1> QED
  BY <1>2, <1>3

LEMMA NoCallbacks ==
  ASSUME Queues(<<>>)
  PROVE  \E Z \in Seq(Callback) : /\ \A k \in DOMAIN Z : Z[k].do # "begin"
                                 /\ ready' = Tail(ready) \o Z
<1>1. ready' = Tail(ready) \o <<>>
  BY DEF Queues
<1>2. <<>> \in Seq(Callback) /\ DOMAIN <<>> = {}
  OBVIOUS
<1> QED
  BY <1>1, <1>2

LEMMA SettleShape ==
  ASSUME TimingTypeOK, NEW c \in Calls, NEW v \in Verdicts \ {"none"}, Settle(c, v),
         NEW h, Runs(h, c)
  PROVE  /\ verdict'[c] = v /\ \A d \in Calls \ {c} : verdict'[d] = verdict[d]
         /\ \/ \E Z \in Seq(Callback) : /\ \A k \in DOMAIN Z : Z[k].do # "begin"
                                       /\ ready' = Tail(ready) \o Z
            \/ ready' = <<Do("begin", c + 1)>> \o Tail(ready) /\ sequential
<1>1. /\ verdict'[c] = v /\ \A d \in Calls \ {c} : verdict'[d] = verdict[d]
      /\ ready \in Seq(Callback) /\ ready # <<>>
  BY DEF TimingTypeOK, Settle, Runs
<1>2. CASE sequential /\ c < Len(batch)
  <2>1. ready' = <<Do("begin", c + 1)>> \o Tail(ready)
    BY <1>2 DEF Settle
  <2> QED
    BY <1>1, <1>2, <2>1
<1>3. CASE ~(sequential /\ c < Len(batch))
  <2>1. ready' = <<>> \o Tail(ready)
    BY <1>3 DEF Settle
  <2>2. Tail(ready) \in Seq(Callback)
    BY <1>1
  <2>3. ready' = Tail(ready) \o <<>>
    BY <2>1, <2>2, ConcatEmptySeq
  <2>4. <<>> \in Seq(Callback) /\ DOMAIN <<>> = {}
    OBVIOUS
  <2> QED
    BY <1>1, <2>3, <2>4
<1> QED
  BY <1>1, <1>2, <1>3

LEMMA CallShape ==
  ASSUME TimingInv, NEW c \in Calls, CallStep(c)
  PROVE  \E h \in Doings : Shape(c, h)
<1>1. /\ TimingTypeOK /\ QueueInv(c) /\ TaskInv(c)
      /\ c \in Nat /\ now \in Nat /\ now # Never
      /\ batch[c].gives \in {"ok", "error", "refused"}
  BY CallTypes DEF TimingInv, CallInv, Never
<1>2. ASSUME NEW h, Runs(h, c) PROVE Has(ready, h, c)
  BY <1>1, <1>2 DEF Runs, Has, TimingTypeOK
<1>3. Doings = {"begin", "run", "alarm", "wake", "release", "collect"}
  BY DEF Doings
<1> DEFINE SameTimers == timers' \subseteq timers
<1>0. SameTimers => (NoTimedBegin => NoTimedBegin')
  BY DEF NoTimedBegin
<1>4. ASSUME NEW h \in Doings \ {"begin"}, Runs(h, c),
             UNCHANGED <<inputVars, resultVars, report>>,
             NoTimedBegin => NoTimedBegin',
             Queues(<<>>) \/ \E e \in Doings \ {"begin"} : Queues(<<Do(e, c)>>)
      PROVE  Shape(c, h)
  <2>1. started[c] # Never
    BY <1>1, <1>2, <1>3, <1>4 DEF QueueInv, TaskInv
  <2> QED
    BY <1>1, <1>4, <2>1, NoBegins, NoCallbacks DEF Shape, Goes, resultVars
<1>5. CASE Invoke(c)
  <2>1. Runs("begin", c) /\ started[c] = Never /\ verdict[c] = "none"
    BY <1>1, <1>2, <1>5 DEF Invoke, QueueInv, TaskInv
  <2>2. started'[c] = now /\ \A d \in Calls \ {c} : started'[d] = started[d]
    BY <1>1, <1>5 DEF Invoke, TimingTypeOK
  <2>3. Queues(<<Do("run", c)>>) /\ UNCHANGED <<inputVars, verdict, report>>
    BY <1>5 DEF Invoke
  <2>4. NoTimedBegin => NoTimedBegin'
    BY <1>5 DEF Invoke, NoTimedBegin, Do
  <2> QED
    BY <1>1, <1>3, <2>1, <2>2, <2>3, <2>4, NoBegins DEF Shape, Begins
<1>6. CASE InvokeRefused(c)
  <2>1. /\ Runs("begin", c) /\ started[c] = Never /\ verdict[c] = "none"
        /\ Settle(c, "refused") /\ UNCHANGED <<inputVars, timers, report>>
    BY <1>1, <1>2, <1>6 DEF InvokeRefused, QueueInv, TaskInv
  <2>2. started'[c] = now /\ \A d \in Calls \ {c} : started'[d] = started[d]
    BY <1>1, <1>6 DEF InvokeRefused, TimingTypeOK
  <2> QED
    BY <1>1, <1>3, <1>0, <2>1, <2>2, SettleShape DEF Shape, Begins, Verdicts
<1>7. CASE Collect(c)
  <2>1. /\ Runs("collect", c) /\ Settle(c, Outcome(c))
        /\ task[c] \in {"ended", "cancelled"} /\ SameTimers
        /\ UNCHANGED <<inputVars, started, report>>
    BY <1>7 DEF Collect
  <2>2. verdict[c] = "none" /\ started[c] # Never /\ batch[c].gives # "refused"
    BY <1>1, <1>2, <2>1 DEF QueueInv, TaskInv
  <2>3. Outcome(c) \in Verdicts \ {"none"}
    BY <1>1 DEF Outcome, Verdicts
  <2> QED
    BY <1>1, <1>3, <1>0, <2>1, <2>2, <2>3, SettleShape DEF Shape, Goes
<1>8. CASE ReleaseWaiter(c)
  BY <1>3, <1>4, <1>0, <1>8 DEF ReleaseWaiter
<1>9. CASE CancelTask(c)
  BY <1>3, <1>4, <1>0, <1>9 DEF CancelTask
<1>10. CASE RunToSleep(c)
  <2>1. NoTimedBegin => NoTimedBegin'
    BY <1>10 DEF RunToSleep, NoTimedBegin, Do
  <2> QED
    BY <1>3, <1>4, <1>10, <2>1 DEF RunToSleep
<1>11. CASE RunToYield(c)
  BY <1>3, <1>4, <1>0, <1>11 DEF RunToYield
<1>12. CASE RunToEnd(c)
  BY <1>3, <1>4, <1>0, <1>12 DEF RunToEnd, EndTask
<1>13. CASE Alarm(c)
  BY <1>3, <1>4, <1>0, <1>13 DEF Alarm
<1>14. CASE WakeToEnd(c)
  BY <1>3, <1>4, <1>0, <1>14 DEF WakeToEnd, EndTask
<1>15. CASE WakeCancelled(c)
  BY <1>3, <1>4, <1>0, <1>15 DEF WakeCancelled
<1> QED
  BY <1>5, <1>6, <1>7, <1>8, <1>9, <1>10, <1>11, <1>12, <1>13, <1>14, <1>15
     DEF CallStep

(* Whoever begins is the first that has not, and alone if the batch is     *)
(* sequential.                                                             *)
LEMMA BeginsInTurn ==
  ASSUME TimingInv, TurnInv, NEW c \in Calls, Runs("begin", c)
  PROVE  /\ \A d \in Calls : started[d] = Never => c <= d
         /\ sequential => Underway = {}
<1>1. TimingTypeOK /\ (\A d \in Calls : QueueInv(d) /\ TaskInv(d))
  BY DEF TimingInv, CallInv
<1>2. /\ ready \in Seq(Callback) /\ 1 \in DOMAIN ready /\ ready[1] = Do("begin", c)
      /\ Has(ready, "begin", c)
      /\ DOMAIN ready \subseteq Nat \ {0}
  BY <1>1 DEF TimingTypeOK, Runs, Has
<1>3. started[c] = Never /\ verdict[c] = "none"
  BY <1>1, <1>2 DEF QueueInv, TaskInv
<1>4. Calls \subseteq Nat
  BY <1>1, CallTypes
<1>5. ASSUME NEW d \in Calls, started[d] = Never PROVE c <= d
  <2>1. CASE sequential
    <3>1. d < c => verdict[d] # "none"
      BY <1>2, <2>1 DEF TurnInv
    <3> QED
      BY <1>1, <1>4, <1>5, <3>1 DEF TaskInv
  <2>2. CASE ~sequential
    <3>1. PICK i \in DOMAIN ready : ready[i] = Do("begin", d)
      BY <1>5, <2>2 DEF TurnInv, Has
    <3>2. /\ ready[1].do = "begin" /\ ready[1].call = c
          /\ ready[i].do = "begin" /\ ready[i].call = d
      BY <1>2, <3>1 DEF Do
    <3>3. i = 1 \/ 1 < i
      BY <1>2
    <3> QED
      BY <1>2, <1>4, <2>2, <3>2, <3>3 DEF TurnInv, Ordered
  <2> QED
    BY <2>1, <2>2
<1>6. ASSUME sequential, NEW e \in Underway PROVE FALSE
  <2>1. e \in Calls /\ started[e] # Never /\ verdict[e] = "none"
    BY DEF Underway
  <2>2. e < c \/ c < e
    BY <1>3, <1>4, <2>1
  <2> QED
    BY <1>2, <1>3, <1>6, <2>1, <2>2 DEF TurnInv
<1> QED
  BY <1>5, <1>6

LEMMA CallKeepsTurn ==
  ASSUME TimingInv, TurnInv, NEW c \in Calls, NEW h \in Doings, Shape(c, h)
  PROVE  TurnInv'
<1>1. /\ TimingTypeOK /\ \A d \in Calls : QueueInv(d) /\ TaskInv(d)
      /\ ready \in Seq(Callback) /\ ready # <<>> /\ Head(ready) = Do(h, c)
      /\ Has(ready, h, c)
  BY DEF TimingInv, CallInv, TimingTypeOK, Shape, Runs, Has
<1>2. /\ Calls \subseteq Nat /\ Calls' = Calls /\ sequential' = sequential
      /\ NoTimedBegin'
      /\ \A d \in Calls : verdict[d] # "none" => verdict'[d] # "none"
      /\ \A d \in Calls \ {c} : started'[d] = started[d] /\ verdict'[d] = verdict[d]
  <2>1. Calls \subseteq Nat
    BY <1>1, CallTypes
  <2> QED
    BY <2>1 DEF Shape, Begins, Goes, TurnInv, inputVars, Calls
<1>3. CASE sequential
  <2> SUFFICES ASSUME NEW e \in Calls, NEW d \in Calls, d < e,
                      started'[e] # Never \/ Has(ready', "begin", e)
               PROVE  verdict'[d] # "none"
    BY <1>2, <1>3 DEF TurnInv
  <2>1. started[c] # Never \/ Has(ready, "begin", c)
    BY <1>1 DEF Shape, Goes
  <2>2. \A f \in Calls : f < c => verdict[f] # "none"
    BY <1>3, <2>1 DEF TurnInv
  <2>3. CASE started[e] # Never \/ Has(ready, "begin", e)
    BY <1>2, <1>3, <2>3 DEF TurnInv
  <2>4. CASE started[e] = Never /\ ~Has(ready, "begin", e)
    <3>1. Has(ready', "begin", e)
      BY <1>2, <2>1, <2>4
    <3>2. e = c + 1 /\ verdict'[c] # "none"
      <4>1. ASSUME NEW Z \in Seq(Callback), \A k \in DOMAIN Z : Z[k].do # "begin",
                   ready' = Tail(ready) \o Z
            PROVE  FALSE
        <5>1. PICK k \in DOMAIN ready' : ready'[k] = Do("begin", e)
          BY <3>1 DEF Has
        <5>2. /\ Tail(ready) \in Seq(Callback) /\ Len(Tail(ready)) = Len(ready) - 1
              /\ Len(ready) \in Nat /\ Len(Z) \in Nat
          BY <1>1
        <5>3. /\ k \in 1..Len(Tail(ready)) + Len(Z)
              /\ ready'[k] = IF k <= Len(Tail(ready)) THEN Tail(ready)[k]
                             ELSE Z[k - Len(Tail(ready))]
          <6>1. /\ Tail(ready) \o Z \in Seq(Callback)
                /\ Len(Tail(ready) \o Z) = Len(Tail(ready)) + Len(Z)
                /\ \A j \in 1..Len(Tail(ready)) + Len(Z) : (Tail(ready) \o Z)[j] =
                     IF j <= Len(Tail(ready)) THEN Tail(ready)[j]
                     ELSE Z[j - Len(Tail(ready))]
            BY <5>2, ConcatProperties
          <6> QED
            BY <4>1, <5>1, <6>1
        <5>4. CASE k <= Len(Tail(ready))
          <6>1. Tail(ready)[k] = ready[k + 1] /\ k + 1 \in DOMAIN ready
            BY <1>1, <5>2, <5>3, <5>4
          <6> QED
            BY <2>4, <5>1, <5>3, <5>4, <6>1 DEF Has
        <5>5. CASE k > Len(Tail(ready))
          <6>1. k - Len(Tail(ready)) \in DOMAIN Z
            BY <5>2, <5>3, <5>5
          <6> QED
            BY <4>1, <5>1, <5>2, <5>3, <5>5, <6>1 DEF Do
        <5> QED
          BY <5>2, <5>3, <5>4, <5>5
      <4>2. ready' = <<Do("begin", c + 1)>> \o Tail(ready) /\ verdict'[c] # "none"
        BY <4>1 DEF Shape
      <4>3. Do("begin", c + 1) \in Callback
        BY <1>2 DEF Do, Callback, Doings
      <4>4. Replaces(ready, ready', {Do("begin", c + 1)})
        BY <1>1, <4>2, <4>3, FirstReplaces
      <4>5. Do("begin", e) = Do("begin", c + 1)
        BY <2>4, <3>1, <4>4 DEF Replaces
      <4> QED
        BY <4>2, <4>5, DoInjective
    <3>3. d = c \/ d < c
      BY <1>2, <3>2
    <3> QED
      BY <1>2, <2>2, <3>2, <3>3
  <2> QED
    BY <2>3, <2>4
<1>4. CASE ~sequential
  <2>1. PICK Z \in Seq(Callback) : /\ \A k \in DOMAIN Z : Z[k].do # "begin"
                                  /\ ready' = Tail(ready) \o Z
    BY <1>4 DEF Shape
  <2>2. Ordered(ready')
    BY <1>1, <1>4, <2>1, TakingKeepsOrder DEF TurnInv
  <2>3. ASSUME NEW d \in Calls, started'[d] = Never PROVE Has(ready', "begin", d)
    <3>1. d # c
      BY <2>3 DEF Shape, Begins, Goes
    <3>2. Has(ready, "begin", d) /\ Head(ready) # Do("begin", d)
      BY <1>1, <1>2, <1>4, <2>3, <3>1, DoInjective DEF TurnInv
    <3> QED
      BY <1>1, <2>1, <3>2, TakingKeepsOrder
  <2> QED
    BY <1>2, <1>4, <2>2, <2>3 DEF TurnInv
<1> QED
  BY <1>3, <1>4

LEMMA LoopKeepsTurn ==
  ASSUME TimingInv, TurnInv, LoopStep \/ Report \/ UNCHANGED tvars
  PROVE  TurnInv'
<1>1. UNCHANGED <<inputVars, resultVars>>
  BY DEF LoopStep, PollTimer, SleepUntil, StartRound, Report, tvars
<1>2. ready' = ready \/ \E t \in timers : ready' = Append(ready, t.run)
  BY DEF LoopStep, PollTimer, SleepUntil, StartRound, Report, tvars, loopVars
<1>0. NoTimedBegin'
  BY DEF LoopStep, PollTimer, SleepUntil, StartRound, Report, tvars, loopVars,
         TurnInv, NoTimedBegin
<1>3. CASE ready' = ready
  BY <1>1, <1>3, <1>0 DEF TurnInv, Calls, inputVars, resultVars
<1>4. ASSUME NEW t \in timers, ready' = Append(ready, t.run) PROVE TurnInv'
  <2>1. /\ ready \in Seq(Callback) /\ t.run \in Callback
        /\ t.run = Do(t.run.do, t.run.call) /\ t.run.do # "begin"
    BY DEF TimingInv, TimingTypeOK, Callback, Do, TurnInv, NoTimedBegin
  <2>2. /\ Ordered(ready) => Ordered(ready')
        /\ \A c : Has(ready, "begin", c) => Has(ready', "begin", c)
    BY <1>4, <2>1, AppendingKeepsOrder
  <2>3. \A c \in Calls : Do("begin", c) # t.run
    BY <2>1 DEF Do
  <2>4. \A c \in Calls : Has(ready', "begin", c) => Has(ready, "begin", c)
    BY <1>4, <2>1, <2>3, AppendAdds
  <2> QED
    BY <1>1, <1>0, <2>2, <2>4 DEF TurnInv, NoTimedBegin, Calls, inputVars, resultVars
<1> QED
  BY <1>2, <1>3, <1>4

LEMMA NextKeepsTurn == TimingInv /\ TurnInv /\ [TimingNext]_tvars => TurnInv'
<1> SUFFICES ASSUME TimingInv, TurnInv, [TimingNext]_tvars PROVE TurnInv'
  OBVIOUS
<1>1. ASSUME NEW c \in Calls, CallStep(c) PROVE TurnInv'
  BY <1>1, CallShape, CallKeepsTurn
<1>2. CASE LoopStep \/ Report \/ UNCHANGED tvars
  BY <1>2, LoopKeepsTurn
<1> QED
  BY <1>1, <1>2 DEF TimingNext, BatchStep, Rest

(* A step of a call is one of the contract, or none it can see.            *)
LEMMA CallKeepsContract ==
  ASSUME TimingInv, TurnInv, NEW c \in Calls, NEW h \in Doings, Shape(c, h)
  PROVE  [Contract!BatchNext]_Contract!bvars
<1>1. /\ UNCHANGED <<inputVars, report>> /\ Calls' = Calls
      /\ \A d \in Calls \ {c} : started'[d] = started[d] /\ verdict'[d] = verdict[d]
  BY DEF Shape, inputVars, Calls
<1>2. UNCHANGED <<Calls, sequential, report # NoReport>>
  BY <1>1 DEF inputVars
<1>3. \A d \in Calls : started[d] = Never => verdict[d] = "none"
  BY DEF TimingInv, CallInv, TaskInv
<1>4. CASE h = "begin"
  <2>1. Begins(c) /\ Runs("begin", c)
    BY <1>4 DEF Shape
  <2>2. /\ c \notin Underway \cup Answered
        /\ \A d \in Calls \ (Underway \cup Answered) : c <= d
        /\ sequential => Underway = {}
    <3>1. \A d \in Calls \ (Underway \cup Answered) : started[d] = Never
      BY DEF Underway, Answered
    <3> QED
      BY <2>1, <3>1, BeginsInTurn DEF Underway, Answered, Begins
  <2>3. CASE verdict'[c] = "none"
    <3>1. Underway' = Underway \cup {c} /\ Answered' = Answered
      BY <1>1, <2>1, <2>3 DEF Underway, Answered, Begins
    <3>2. Contract!StartCall(c)
      BY <1>2, <2>2, <3>1 DEF Contract!StartCall, Contract!Turn
    <3> QED
      BY <3>2 DEF Contract!BatchNext
  <2>4. CASE verdict'[c] # "none"
    <3>1. Underway' = Underway /\ Answered' = Answered \cup {c}
      BY <1>1, <2>1, <2>4 DEF Underway, Answered, Begins
    <3>2. Contract!GiveUpCall(c)
      BY <1>2, <2>2, <3>1 DEF Contract!GiveUpCall, Contract!Turn
    <3> QED
      BY <3>2 DEF Contract!BatchNext
  <2> QED
    BY <2>3, <2>4
<1>5. CASE h # "begin"
  <2>1. Goes(c)
    BY <1>5 DEF Shape
  <2>2. CASE verdict'[c] = verdict[c]
    <3>1. Underway' = Underway /\ Answered' = Answered
      BY <1>1, <2>1, <2>2 DEF Underway, Answered, Goes
    <3> QED
      BY <1>2, <3>1 DEF Contract!bvars
  <2>3. CASE verdict[c] = "none" /\ verdict'[c] # "none"
    <3>1. /\ c \in Underway /\ Underway' = Underway \ {c}
          /\ Answered' = Answered \cup {c}
      BY <1>1, <2>1, <2>3 DEF Underway, Answered, Goes
    <3>2. Contract!SettleCall(c)
      BY <1>2, <3>1 DEF Contract!SettleCall
    <3> QED
      BY <3>2 DEF Contract!BatchNext
  <2> QED
    BY <2>1, <2>2, <2>3 DEF Goes
<1> QED
  BY <1>4, <1>5

LEMMA StepKeepsContract ==
  TimingInv /\ TurnInv /\ [TimingNext]_tvars => [Contract!BatchNext]_Contract!bvars
<1> SUFFICES ASSUME TimingInv, TurnInv, [TimingNext]_tvars
             PROVE  [Contract!BatchNext]_Contract!bvars
  OBVIOUS
<1>1. ASSUME NEW c \in Calls, CallStep(c) PROVE [Contract!BatchNext]_Contract!bvars
  BY <1>1, CallShape, CallKeepsContract
<1>2. CASE LoopStep \/ UNCHANGED tvars
  <2>1. UNCHANGED <<inputVars, resultVars, report>>
    BY <1>2 DEF LoopStep, PollTimer, SleepUntil, StartRound, tvars
  <2>2. UNCHANGED <<Calls, sequential, Underway, Answered, report # NoReport>>
    BY <2>1 DEF Calls, Underway, Answered, inputVars, resultVars
  <2> QED
    BY <2>2 DEF Contract!bvars
<1>3. CASE Report
  <2>1. PICK extra \in 0..Overhead :
          /\ UNCHANGED <<inputVars, resultVars>> /\ report = NoReport /\ AllFinished
          /\ report' = [wall |-> now + extra, estimate |-> Estimate]
    BY <1>3 DEF Report
  <2>2. UNCHANGED <<Calls, sequential, Underway, Answered>>
    BY <2>1 DEF Calls, Underway, Answered, inputVars, resultVars
  <2>3. report' # NoReport
    <3>1. now \in Nat /\ report'.wall = now + extra /\ extra >= 0 /\ extra \in Int
      BY <2>1, OverheadTyped DEF TimingInv, TimingTypeOK
    <3> QED
      BY <3>1 DEF NoReport, Never
  <2>4. Answered = Calls
    BY <2>1 DEF AllFinished, Answered
  <2>5. Contract!ReportBatch
    BY <2>1, <2>2, <2>3, <2>4 DEF Contract!ReportBatch
  <2> QED
    BY <2>5 DEF Contract!BatchNext
<1> QED
  BY <1>1, <1>2, <1>3 DEF TimingNext, BatchStep, Rest

(* ImplementsBatch: on the event loop every batch, of whatever tools, is   *)
(* what Orchestrator takes it for: calls start in order, each once and one *)
(* at a time if sequential; each settles once; the report is last.         *)
THEOREM BatchesKeepTheContract == TimingSpec => ImplementsBatch
<1>1. TimingInit => Contract!BatchInit
  <2> SUFFICES ASSUME TimingInit PROVE Contract!BatchInit
    OBVIOUS
  <2>1. TimingInv
    BY InitTimingInv
  <2>2. Calls \subseteq Nat /\ sequential \in BOOLEAN
    BY <2>1, CallTypes DEF TimingInv, TimingTypeOK
  <2>3. Underway = {} /\ Answered = {} /\ report = NoReport
    BY DEF TimingInit, Underway, Answered
  <2> QED
    BY <2>2, <2>3 DEF Contract!BatchInit
<1> QED
  BY <1>1, InitTurnInv, NextKeepsTurn, TimingInvHolds, StepKeepsContract, PTL
     DEF TimingSpec, ImplementsBatch, Contract!BatchSpec
=============================================================================
