-------------------------- MODULE BatchReportProofs --------------------------
(***************************************************************************)
(* Theorems about the verdicts, durations and the report of a batch, for   *)
(* every batch of tools: no wake-up is lost, delays are blocking, limits   *)
(* decide, and what wall time and estimate are worth.                      *)
(***************************************************************************)
EXTENDS BatchTimingProofs, SumLemmas

-----------------------------------------------------------------------------
(* What stays in the loop's queue, and in which order.                     *)
InOrder(q, e, k, c) ==
  \A i, j \in DOMAIN q : q[i] = Do(e, c) /\ q[j] = Do(k, c) => i < j

(* r is q without its first callback and with those of Y, which are put at *)
(* the end unless they are begins.                                         *)
Follows(q, r, Y) ==
  /\ \A do, c : Has(q, do, c) /\ Head(q) # Do(do, c) => Has(r, do, c)
  /\ \A do, c : Do(do, c) \in Y => Has(r, do, c)
  /\ \A e, k, c : InOrder(q, e, k, c) /\ Do(e, c) \notin Y /\ k # "begin"
                    => InOrder(r, e, k, c)

LEMMA TailFollows ==
  ASSUME NEW q \in Seq(Callback), q # <<>>
  PROVE  Follows(q, Tail(q), {})
<1> DEFINE r == Tail(q)
<1>1. /\ Len(q) \in Nat \ {0} /\ DOMAIN q = 1..Len(q)
      /\ DOMAIN r = 1..Len(q) - 1
      /\ \A i \in 1..Len(q) - 1 : r[i] = q[i + 1]
      /\ Head(q) = q[1]
  OBVIOUS
<1> HIDE DEF r
<1>2. ASSUME NEW do, NEW c, Has(q, do, c), Head(q) # Do(do, c) PROVE Has(r, do, c)
  <2>1. PICK i \in DOMAIN q : q[i] = Do(do, c)
    BY <1>2 DEF Has
  <2>2. i - 1 \in DOMAIN r /\ r[i - 1] = q[i]
    BY <1>1, <1>2, <2>1
  <2> QED
    BY <2>1, <2>2 DEF Has
<1>3. ASSUME NEW e, NEW k, NEW c, InOrder(q, e, k, c) PROVE InOrder(r, e, k, c)
  <2> SUFFICES ASSUME NEW i \in DOMAIN r, NEW j \in DOMAIN r,
                      r[i] = Do(e, c), r[j] = Do(k, c)
               PROVE  i < j
    BY DEF InOrder
  <2>1. /\ i \in Int /\ j \in Int /\ i + 1 \in DOMAIN q /\ j + 1 \in DOMAIN q
        /\ q[i + 1] = Do(e, c) /\ q[j + 1] = Do(k, c)
    BY <1>1
  <2>2. i + 1 < j + 1
    BY <1>3, <2>1 DEF InOrder
  <2> QED
    BY <2>1, <2>2
<1> QED
  BY <1>2, <1>3 DEF Follows, r

(* s is r with y put at an end, for which the others move up by m; y is a  *)
(* begin if it is put first.                                               *)
Puts(r, s, y, place, m) ==
  /\ DOMAIN r \subseteq Int /\ DOMAIN s \subseteq Int /\ m \in {0, 1}
  /\ place \in DOMAIN s /\ s[place] = y
  /\ \A i \in DOMAIN s : i # place => i - m \in DOMAIN r /\ s[i] = r[i - m]
  /\ \A i \in DOMAIN r : i + m \in DOMAIN s /\ s[i + m] = r[i]
  /\ \/ \A i \in DOMAIN s : i # place => i < place
     \/ \E c : y = Do("begin", c)

LEMMA PutFollows ==
  ASSUME NEW q, NEW r, Follows(q, r, {}), NEW y, NEW s, NEW place, NEW m,
         Puts(r, s, y, place, m)
  PROVE  Follows(q, s, {y})
<1>0. /\ DOMAIN r \subseteq Int /\ DOMAIN s \subseteq Int /\ m \in {0, 1}
      /\ place \in DOMAIN s /\ s[place] = y
      /\ \A i \in DOMAIN s : i # place => i - m \in DOMAIN r /\ s[i] = r[i - m]
      /\ \A i \in DOMAIN r : i + m \in DOMAIN s /\ s[i + m] = r[i]
      /\ \/ \A i \in DOMAIN s : i # place => i < place
         \/ \E c : y = Do("begin", c)
  BY DEF Puts
<1>1. \A do, c : Has(r, do, c) => Has(s, do, c)
  BY <1>0 DEF Has
<1>2. \A do, c : Do(do, c) \in {y} => Has(s, do, c)
  BY <1>0 DEF Has
<1>3. ASSUME NEW e, NEW k, NEW c, InOrder(r, e, k, c), Do(e, c) # y, k # "begin"
      PROVE  InOrder(s, e, k, c)
  <2> SUFFICES ASSUME NEW i \in DOMAIN s, NEW j \in DOMAIN s,
                      s[i] = Do(e, c), s[j] = Do(k, c)
               PROVE  i < j
    BY DEF InOrder
  <2>1. i \in Int /\ j \in Int /\ i # place /\ m \in Int
    BY <1>0, <1>3
  <2>2. CASE j # place
    <3>1. /\ i - m \in DOMAIN r /\ j - m \in DOMAIN r
          /\ r[i - m] = Do(e, c) /\ r[j - m] = Do(k, c)
      BY <1>0, <2>1, <2>2
    <3>2. i - m < j - m
      BY <1>3, <3>1 DEF InOrder
    <3> QED
      BY <2>1, <3>2
  <2>3. CASE j = place
    <3>1. Do(k, c) = y
      BY <1>0, <2>3
    <3>2. \A d : y # Do("begin", d)
      BY <1>3, <3>1, DoInjective
    <3> QED
      BY <1>0, <2>1, <2>3, <3>2
  <2> QED
    BY <2>2, <2>3
<1> QED
  BY <1>1, <1>2, <1>3 DEF Follows

LEMMA LastFollows ==
  ASSUME NEW q \in Seq(Callback), q # <<>>, NEW y \in Callback
  PROVE  Follows(q, Tail(q) \o <<y>>, {y})
<1> DEFINE r == Tail(q)
           s == r \o <<y>>
<1>1. r \in Seq(Callback) /\ Len(r) \in Nat /\ DOMAIN r = 1..Len(r)
  OBVIOUS
<1>2. Follows(q, r, {})
  BY TailFollows
<1> HIDE DEF r
<1>3. /\ DOMAIN s = 1..Len(r) + 1 /\ s[Len(r) + 1] = y
      /\ \A i \in 1..Len(r) : s[i] = r[i]
  BY <1>1
<1> HIDE DEF s
<1>4. Puts(r, s, y, Len(r) + 1, 0)
  BY <1>1, <1>3 DEF Puts
<1>5. Follows(q, s, {y})
  BY <1>2, <1>4, PutFollows
<1> QED
  BY <1>5 DEF s, r

LEMMA FirstFollows ==
  ASSUME NEW q \in Seq(Callback), q # <<>>, NEW c, Do("begin", c) \in Callback
  PROVE  Follows(q, <<Do("begin", c)>> \o Tail(q), {Do("begin", c)})
<1> DEFINE r == Tail(q)
           y == Do("begin", c)
           s == <<y>> \o r
<1>1. r \in Seq(Callback) /\ Len(r) \in Nat /\ DOMAIN r = 1..Len(r)
  OBVIOUS
<1>2. Follows(q, r, {})
  BY TailFollows
<1>3. \E d : y = Do("begin", d)
  OBVIOUS
<1> HIDE DEF r, y
<1>4. /\ DOMAIN s = 1..Len(r) + 1 /\ s[1] = y
      /\ \A i \in 2..Len(r) + 1 : s[i] = r[i - 1]
  BY <1>1 DEF y
<1> HIDE DEF s
<1>5. Puts(r, s, y, 1, 1)
  BY <1>1, <1>3, <1>4 DEF Puts
<1>6. Follows(q, s, {y})
  BY <1>2, <1>5, PutFollows
<1> QED
  BY <1>6 DEF s, r, y

LEMMA AppendFollows ==
  ASSUME NEW q \in Seq(Callback), NEW y \in Callback
  PROVE  /\ \A do, c : Has(q, do, c) => Has(Append(q, y), do, c)
         /\ \A do, c : Do(do, c) = y => Has(Append(q, y), do, c)
         /\ \A e, k, c : InOrder(q, e, k, c) /\ Do(e, c) # y
                           => InOrder(Append(q, y), e, k, c)
<1> DEFINE r == Append(q, y)
<1>1. /\ Len(q) \in Nat /\ DOMAIN q = 1..Len(q) /\ DOMAIN r = 1..Len(q) + 1
      /\ r[Len(q) + 1] = y /\ \A i \in 1..Len(q) : r[i] = q[i]
  OBVIOUS
<1> HIDE DEF r
<1>2. \A do, c : Has(q, do, c) => Has(r, do, c)
  BY <1>1 DEF Has
<1>3. \A do, c : Do(do, c) = y => Has(r, do, c)
  BY <1>1 DEF Has
<1>4. ASSUME NEW e, NEW k, NEW c, InOrder(q, e, k, c), Do(e, c) # y
      PROVE  InOrder(r, e, k, c)
  <2> SUFFICES ASSUME NEW i \in DOMAIN r, NEW j \in DOMAIN r,
                      r[i] = Do(e, c), r[j] = Do(k, c)
               PROVE  i < j
    BY DEF InOrder
  <2>1. i \in DOMAIN q /\ q[i] = Do(e, c)
    BY <1>1, <1>4
  <2>2. CASE j \in DOMAIN q
    BY <1>1, <1>4, <2>1, <2>2 DEF InOrder
  <2>3. CASE j \notin DOMAIN q
    BY <1>1, <2>1, <2>3
  <2> QED
    BY <2>2, <2>3
<1> QED
  BY <1>2, <1>3, <1>4 DEF r

(* The loop handles callback h of call c, which queues those of E, and     *)
(* maybe the next call's begin.                                            *)
Handles(c, h, E) ==
  /\ Has(ready, h, c) /\ Head(ready) = Do(h, c)
  /\ \A d \in Calls \ {c} : \A do :
       /\ Has(ready, do, d) => Has(ready', do, d)
       /\ Has(ready', do, d) => Has(ready, do, d) \/ do = "begin"
  /\ \A do : Has(ready', do, c) => Has(ready, do, c) \/ do \in E
  /\ \A do : do # h /\ Has(ready, do, c) => Has(ready', do, c)
  /\ \A do \in E : Has(ready', do, c)
  /\ Single(ready, h, c) /\ h \notin E => ~Has(ready', h, c)
  /\ \A d \in Calls : \A e, k :
       InOrder(ready, e, k, d) /\ (d = c => e \notin E) /\ e # "begin" /\ k # "begin"
         => InOrder(ready', e, k, d)

LEMMA HandlesType ==
  ASSUME NEW c, NEW h, NEW E, NEW Y, Has(ready, h, c), Head(ready) = Do(h, c),
         Replaces(ready, ready', Y), Follows(ready, ready', Y),
         \A do : Do(do, c) \in Y <=> do \in E,
         \A d \in Calls \ {c} : \A do : Do(do, d) \in Y => do = "begin"
  PROVE  Handles(c, h, E)
<1>1. ASSUME NEW d \in Calls \ {c}, NEW do
      PROVE  /\ Has(ready, do, d) => Has(ready', do, d)
             /\ Has(ready', do, d) => Has(ready, do, d) \/ do = "begin"
  <2>1. Do(do, d) # Head(ready)
    BY DoInjective
  <2> QED
    BY <2>1 DEF Replaces, Follows
<1>2. /\ \A do : Has(ready', do, c) => Has(ready, do, c) \/ do \in E
      /\ \A do \in E : Has(ready', do, c)
      /\ Single(ready, h, c) /\ h \notin E => ~Has(ready', h, c)
  BY DEF Replaces, Follows
<1>3. ASSUME NEW do, do # h, Has(ready, do, c) PROVE Has(ready', do, c)
  <2>1. Do(do, c) # Head(ready)
    BY <1>3, DoInjective
  <2> QED
    BY <1>3, <2>1 DEF Follows
<1>4. ASSUME NEW d \in Calls, NEW e, NEW k, InOrder(ready, e, k, d),
             d = c => e \notin E, e # "begin", k # "begin"
      PROVE  InOrder(ready', e, k, d)
  <2>1. Do(e, d) \notin Y
    BY <1>4
  <2> QED
    BY <1>4, <2>1 DEF Follows
<1> QED
  BY <1>1, <1>2, <1>3, <1>4 DEF Handles

LEMMA HandlesOne ==
  ASSUME TimingTypeOK, NEW c \in Calls, NEW h, Runs(h, c), NEW e \in Doings,
         Queues(<<Do(e, c)>>)
  PROVE  Handles(c, h, {e})
<1>1. /\ ready \in Seq(Callback) /\ ready # <<>> /\ Head(ready) = Do(h, c)
      /\ c \in Nat /\ ready' = Tail(ready) \o <<Do(e, c)>>
  BY CallTypes DEF TimingTypeOK, Runs, Queues
<1>2. Has(ready, h, c) /\ Replaces(ready, ready', {Do(e, c)})
  BY RunsOne
<1>3. Do(e, c) \in Callback
  BY <1>1 DEF Do, Callback
<1>4. Follows(ready, ready', {Do(e, c)})
  BY <1>1, <1>3, LastFollows
<1>5. /\ \A do : Do(do, c) \in {Do(e, c)} <=> do \in {e}
      /\ \A d \in Calls \ {c} : \A do : Do(do, d) \in {Do(e, c)} => do = "begin"
  BY DoInjective
<1> QED
  BY <1>1, <1>2, <1>4, <1>5, HandlesType

LEMMA HandlesNone ==
  ASSUME TimingTypeOK, NEW c \in Calls, NEW h, Runs(h, c), Queues(<<>>)
  PROVE  Handles(c, h, {})
<1>1. /\ ready \in Seq(Callback) /\ ready # <<>> /\ Head(ready) = Do(h, c)
      /\ ready' = Tail(ready) \o <<>>
  BY DEF TimingTypeOK, Runs, Queues
<1>2. ready' = Tail(ready)
  BY <1>1
<1>3. Has(ready, h, c) /\ Replaces(ready, ready', {})
  BY RunsNone
<1>4. Follows(ready, ready', {})
  BY <1>1, <1>2, TailFollows
<1> QED
  BY <1>1, <1>3, <1>4, HandlesType

LEMMA HandlesSettled ==
  ASSUME TimingTypeOK, NEW c \in Calls, NEW h, Runs(h, c), NEW v, Settle(c, v)
  PROVE  Handles(c, h, {})
<1>1. /\ ready \in Seq(Callback) /\ ready # <<>> /\ Head(ready) = Do(h, c)
      /\ c \in Nat /\ Has(ready, h, c)
  BY CallTypes DEF TimingTypeOK, Runs, Has
<1>2. CASE sequential /\ c < Len(batch)
  <2> DEFINE Y == {Do("begin", c + 1)}
  <2>1. ready' = <<Do("begin", c + 1)>> \o Tail(ready)
    BY <1>2 DEF Settle
  <2>2. Do("begin", c + 1) \in Callback
    BY <1>1 DEF Do, Callback, Doings
  <2>3. Replaces(ready, ready', Y) /\ Follows(ready, ready', Y)
    BY <1>1, <2>1, <2>2, FirstReplaces, FirstFollows
  <2>4. \A do, d : Do(do, d) \in Y => d = c + 1 /\ do = "begin"
    BY DoInjective
  <2> HIDE DEF Y
  <2>5. \A do : Do(do, c) \in Y <=> do \in {}
    BY <1>1, <2>4
  <2> QED
    BY <1>1, <2>3, <2>4, <2>5, HandlesType
<1>3. CASE ~(sequential /\ c < Len(batch))
  <2>1. ready' = <<>> \o Tail(ready)
    BY <1>3 DEF Settle
  <2>2. ready' = Tail(ready)
    BY <1>1, <2>1
  <2>3. Replaces(ready, ready', {}) /\ Follows(ready, ready', {})
    BY <1>1, <2>2, TailReplaces, TailFollows
  <2> QED
    BY <1>1, <2>3, HandlesType
<1> QED
  BY <1>2, <1>3

-----------------------------------------------------------------------------
(* What a step of call c does: it handles h and queues E, leaves the task  *)
(* in state t and the verdict at v, and touches nothing of other calls.    *)
HasTimer(do, c) == \E t \in timers : t.run = Do(do, c)

Untouched(c) ==
  /\ UNCHANGED <<inputVars, report>>
  /\ \A d \in Calls \ {c} :
       /\ started'[d] = started[d] /\ finished'[d] = finished[d]
       /\ verdict'[d] = verdict[d] /\ task'[d] = task[d]
       /\ (d \in cancelled') = (d \in cancelled)
       /\ (d \in released') = (d \in released)
  /\ \A t : t.run.call # c => (t \in timers') = (t \in timers)

Effect(c, h, E, t, v) ==
  /\ Handles(c, h, E) /\ Untouched(c)
  /\ task'[c] = t /\ verdict'[c] = v
  /\ v # "none" \/ finished'[c] = finished[c]

LEMMA InvokeEffect ==
  ASSUME TimingInv, NEW c \in Calls, Invoke(c)
  PROVE  /\ Effect(c, "begin", {"run"}, "new", "none")
         /\ task[c] = "none" /\ verdict[c] = "none"
         /\ started[c] = Never /\ started'[c] = now
         /\ timers' = timers \cup {[at |-> now + batch[c].limit, run |-> Do("release", c)]}
         /\ UNCHANGED <<now, cancelled, released>>
<1>1. TimingTypeOK /\ QueueInv(c) /\ TaskInv(c)
  BY DEF TimingInv, CallInv
<1>2. /\ Runs("begin", c)
      /\ started' = [started EXCEPT ![c] = now]
      /\ timers' = timers \cup {[at |-> now + batch[c].limit, run |-> Do("release", c)]}
      /\ task' = [task EXCEPT ![c] = "new"]
      /\ Queues(<<Do("run", c)>>)
      /\ UNCHANGED <<inputVars, now, cancelled, released, finished, verdict, report>>
  BY DEF Invoke
<1>3. Handles(c, "begin", {"run"})
  BY <1>1, <1>2, HandlesOne DEF Doings
<1>4. started[c] = Never /\ task[c] = "none" /\ verdict[c] = "none"
  BY <1>1, <1>3 DEF Handles, QueueInv, TaskInv
<1>5. Untouched(c)
  <2>1. \A t : t.run.call # c => (t \in timers') = (t \in timers)
    BY <1>2 DEF Do
  <2> QED
    BY <1>1, <1>2, <2>1 DEF Untouched, TimingTypeOK
<1> QED
  BY <1>1, <1>2, <1>3, <1>4, <1>5 DEF Effect, TimingTypeOK

LEMMA InvokeRefusedEffect ==
  ASSUME TimingInv, NEW c \in Calls, InvokeRefused(c)
  PROVE  /\ Effect(c, "begin", {}, "none", "refused")
         /\ task[c] = "none" /\ verdict[c] = "none" /\ batch[c].gives = "refused"
         /\ started[c] = Never /\ started'[c] = now /\ finished'[c] = now
         /\ UNCHANGED <<now, timers, cancelled, released>>
<1>1. TimingTypeOK /\ QueueInv(c) /\ TaskInv(c)
  BY DEF TimingInv, CallInv
<1>2. /\ Runs("begin", c) /\ batch[c].gives = "refused"
      /\ started' = [started EXCEPT ![c] = now]
      /\ Settle(c, "refused")
      /\ UNCHANGED <<inputVars, now, timers, task, cancelled, released, report>>
  BY DEF InvokeRefused, waitVars
<1>3. /\ finished' = [finished EXCEPT ![c] = now]
      /\ verdict' = [verdict EXCEPT ![c] = "refused"]
  BY <1>2 DEF Settle
<1>4. Handles(c, "begin", {})
  BY <1>1, <1>2, HandlesSettled
<1>5. started[c] = Never /\ task[c] = "none" /\ verdict[c] = "none"
  BY <1>1, <1>4 DEF Handles, QueueInv, TaskInv
<1>6. Untouched(c)
  BY <1>1, <1>2, <1>3 DEF Untouched, TimingTypeOK
<1> QED
  BY <1>1, <1>2, <1>3, <1>4, <1>5, <1>6 DEF Effect, TimingTypeOK

LEMMA ReleaseEffect ==
  ASSUME TimingInv, NEW c \in Calls, ReleaseWaiter(c)
  PROVE  /\ Effect(c, "release", IF c \in released THEN {} ELSE {"collect"},
                   task[c], verdict[c])
         /\ task[c] # "none" /\ started[c] # Never
         /\ released' = released \cup {c} /\ finished'[c] = finished[c]
         /\ UNCHANGED <<now, timers, cancelled, started>>
<1>1. TimingTypeOK /\ QueueInv(c) /\ TaskInv(c)
  BY DEF TimingInv, CallInv
<1>2. /\ Runs("release", c) /\ released' = released \cup {c}
      /\ Queues(IF c \in released THEN <<>> ELSE <<Do("collect", c)>>)
      /\ UNCHANGED <<inputVars, now, timers, task, cancelled, resultVars, report>>
  BY DEF ReleaseWaiter
<1> DEFINE E == IF c \in released THEN {} ELSE {"collect"}
<1>3. Handles(c, "release", E)
  BY <1>1, <1>2, HandlesOne, HandlesNone DEF Doings
<1>4. task[c] # "none" /\ started[c] # Never
  BY <1>1, <1>3 DEF Handles, QueueInv, TaskInv
<1>5. Untouched(c)
  BY <1>1, <1>2 DEF Untouched, TimingTypeOK, resultVars
<1> QED
  BY <1>2, <1>3, <1>4, <1>5 DEF Effect, resultVars

LEMMA CancelEffect ==
  ASSUME TimingInv, NEW c \in Calls, CancelTask(c)
  PROVE  /\ Effect(c, "collect", IF task[c] = "asleep" THEN {"wake"} ELSE {},
                   "due", "none")
         /\ task[c] \in {"asleep", "due"} /\ verdict[c] = "none"
         /\ started[c] # Never /\ finished'[c] = finished[c]
         /\ cancelled' = cancelled \cup {c} /\ released' = released \ {c}
         /\ UNCHANGED <<now, timers, started>>
<1>1. TimingTypeOK /\ QueueInv(c) /\ TaskInv(c)
  BY DEF TimingInv, CallInv
<1>2. /\ Runs("collect", c) /\ task[c] \in {"asleep", "due"}
      /\ cancelled' = cancelled \cup {c} /\ released' = released \ {c}
      /\ task' = [task EXCEPT ![c] = "due"]
      /\ Queues(IF task[c] = "asleep" THEN <<Do("wake", c)>> ELSE <<>>)
      /\ UNCHANGED <<inputVars, now, timers, resultVars, report>>
  BY DEF CancelTask
<1> DEFINE E == IF task[c] = "asleep" THEN {"wake"} ELSE {}
<1>3. Handles(c, "collect", E)
  BY <1>1, <1>2, HandlesOne, HandlesNone DEF Doings
<1>4. verdict[c] = "none" /\ started[c] # Never
  BY <1>1, <1>3 DEF Handles, QueueInv, TaskInv
<1>5. Untouched(c)
  BY <1>1, <1>2 DEF Untouched, TimingTypeOK, resultVars
<1> QED
  BY <1>1, <1>2, <1>3, <1>4, <1>5 DEF Effect, resultVars, TimingTypeOK

LEMMA CollectEffect ==
  ASSUME TimingInv, NEW c \in Calls, Collect(c)
  PROVE  /\ Effect(c, "collect", {}, task[c], Outcome(c))
         /\ Outcome(c) \notin {"none", "refused"}
         /\ task[c] \in {"ended", "cancelled"} /\ verdict[c] = "none"
         /\ started[c] # Never /\ finished'[c] = now
         /\ c \in released
         /\ timers' = {t \in timers : t.run # Do("release", c)}
         /\ UNCHANGED <<now, cancelled, released, started>>
<1>1. TimingTypeOK /\ QueueInv(c) /\ TaskInv(c)
  BY DEF TimingInv, CallInv
<1>2. /\ Runs("collect", c) /\ task[c] \in {"ended", "cancelled"}
      /\ timers' = {t \in timers : t.run # Do("release", c)}
      /\ Settle(c, Outcome(c))
      /\ UNCHANGED <<inputVars, now, task, cancelled, released, started, report>>
  BY DEF Collect, waitVars
<1>3. /\ finished' = [finished EXCEPT ![c] = now]
      /\ verdict' = [verdict EXCEPT ![c] = Outcome(c)]
  BY <1>2 DEF Settle
<1>4. Handles(c, "collect", {})
  BY <1>1, <1>2, HandlesSettled
<1>5. /\ verdict[c] = "none" /\ started[c] # Never /\ c \in released
      /\ batch[c].gives # "refused"
  BY <1>1, <1>4 DEF Handles, QueueInv, TaskInv
<1>6. Outcome(c) \notin {"none", "refused"}
  BY <1>1, <1>5, CallTypes DEF Outcome
<1>7. Untouched(c)
  <2>1. \A t : t.run.call # c => (t \in timers') = (t \in timers)
    BY <1>2 DEF Do
  <2> QED
    BY <1>1, <1>2, <1>3, <2>1 DEF Untouched, TimingTypeOK
<1> QED
  BY <1>1, <1>2, <1>3, <1>4, <1>5, <1>6, <1>7 DEF Effect, TimingTypeOK

LEMMA RunToSleepEffect ==
  ASSUME TimingInv, NEW c \in Calls, RunToSleep(c)
  PROVE  /\ Effect(c, "run", {}, "asleep", "none")
         /\ task[c] = "new" /\ verdict[c] = "none"
         /\ started[c] # Never /\ finished'[c] = finished[c]
         /\ batch[c].awaits /\ now' = now + batch[c].before
         /\ timers' = timers \cup
              {[at |-> now' + batch[c].sleep, run |-> Do("alarm", c)]}
         /\ UNCHANGED <<cancelled, released, started>>
<1>1. TimingTypeOK /\ QueueInv(c) /\ TaskInv(c)
  BY DEF TimingInv, CallInv
<1>2. /\ Runs("run", c) /\ batch[c].awaits /\ now' = now + batch[c].before
      /\ timers' = timers \cup
           {[at |-> now' + batch[c].sleep, run |-> Do("alarm", c)]}
      /\ task' = [task EXCEPT ![c] = "asleep"]
      /\ Queues(<<>>)
      /\ UNCHANGED <<inputVars, cancelled, released, resultVars, report>>
  BY DEF RunToSleep
<1>3. Handles(c, "run", {})
  BY <1>1, <1>2, HandlesNone
<1>4. task[c] = "new" /\ verdict[c] = "none" /\ started[c] # Never
  BY <1>1, <1>3 DEF Handles, QueueInv, TaskInv
<1>5. Untouched(c)
  <2>1. \A t : t.run.call # c => (t \in timers') = (t \in timers)
    BY <1>2 DEF Do
  <2> QED
    BY <1>1, <1>2, <2>1 DEF Untouched, TimingTypeOK, resultVars
<1> QED
  BY <1>1, <1>2, <1>3, <1>4, <1>5 DEF Effect, resultVars, TimingTypeOK

LEMMA RunToYieldEffect ==
  ASSUME TimingInv, NEW c \in Calls, RunToYield(c)
  PROVE  /\ Effect(c, "run", {"wake"}, "due", "none")
         /\ task[c] = "new" /\ verdict[c] = "none"
         /\ started[c] # Never /\ finished'[c] = finished[c]
         /\ batch[c].awaits /\ batch[c].sleep = 0
         /\ now' = now + batch[c].before
         /\ UNCHANGED <<timers, cancelled, released, started>>
<1>1. TimingTypeOK /\ QueueInv(c) /\ TaskInv(c)
  BY DEF TimingInv, CallInv
<1>2. /\ Runs("run", c) /\ batch[c].awaits /\ batch[c].sleep = 0
      /\ now' = now + batch[c].before
      /\ task' = [task EXCEPT ![c] = "due"]
      /\ Queues(<<Do("wake", c)>>)
      /\ UNCHANGED <<inputVars, timers, cancelled, released, resultVars, report>>
  BY DEF RunToYield
<1>3. Handles(c, "run", {"wake"})
  BY <1>1, <1>2, HandlesOne DEF Doings
<1>4. task[c] = "new" /\ verdict[c] = "none" /\ started[c] # Never
  BY <1>1, <1>3 DEF Handles, QueueInv, TaskInv
<1>5. Untouched(c)
  BY <1>1, <1>2 DEF Untouched, TimingTypeOK, resultVars
<1> QED
  BY <1>1, <1>2, <1>3, <1>4, <1>5 DEF Effect, resultVars, TimingTypeOK

(* RunToEnd and WakeToEnd: the task ends, after this blocking.             *)
LEMMA EndEffect ==
  ASSUME TimingInv, NEW c \in Calls, RunToEnd(c) \/ WakeToEnd(c)
  PROVE  \E h \in {"run", "wake"} :
           /\ Effect(c, h, {"release"}, "ended", "none")
           /\ task[c] = (IF h = "run" THEN "new" ELSE "due")
           /\ h = "run" => ~batch[c].awaits /\ now' = now + batch[c].before
           /\ h = "wake" => c \notin cancelled /\ batch[c].awaits
                            /\ now' = now + batch[c].after
           /\ verdict[c] = "none" /\ started[c] # Never
           /\ finished'[c] = finished[c]
           /\ UNCHANGED <<timers, cancelled, released, started>>
<1>1. TimingTypeOK /\ QueueInv(c) /\ TaskInv(c)
  BY DEF TimingInv, CallInv
<1>2. PICK h \in {"run", "wake"} :
        /\ Runs(h, c)
        /\ h = "run" => ~batch[c].awaits /\ now' = now + batch[c].before
        /\ h = "wake" => c \notin cancelled /\ now' = now + batch[c].after
        /\ task' = [task EXCEPT ![c] = "ended"]
        /\ Queues(<<Do("release", c)>>)
        /\ UNCHANGED <<inputVars, timers, cancelled, released, resultVars, report>>
  <2>1. CASE RunToEnd(c)
    BY <2>1 DEF RunToEnd, EndTask
  <2>2. CASE WakeToEnd(c)
    BY <2>2 DEF WakeToEnd, EndTask
  <2> QED
    BY <2>1, <2>2
<1>3. Handles(c, h, {"release"})
  BY <1>1, <1>2, HandlesOne DEF Doings
<1>4. /\ task[c] = (IF h = "run" THEN "new" ELSE "due")
      /\ verdict[c] = "none" /\ started[c] # Never
      /\ h = "wake" => batch[c].awaits
  BY <1>1, <1>3 DEF Handles, QueueInv, TaskInv
<1>5. Untouched(c)
  BY <1>1, <1>2 DEF Untouched, TimingTypeOK, resultVars
<1> QED
  BY <1>1, <1>2, <1>3, <1>4, <1>5 DEF Effect, resultVars, TimingTypeOK

LEMMA AlarmEffect ==
  ASSUME TimingInv, NEW c \in Calls, Alarm(c)
  PROVE  /\ Effect(c, "alarm", IF task[c] = "asleep" THEN {"wake"} ELSE {},
                   IF task[c] = "asleep" THEN "due" ELSE task[c], verdict[c])
         /\ task[c] # "none" /\ started[c] # Never /\ finished'[c] = finished[c]
         /\ UNCHANGED <<now, timers, cancelled, released, started>>
<1>1. TimingTypeOK /\ QueueInv(c) /\ TaskInv(c)
  BY DEF TimingInv, CallInv
<1> DEFINE t == IF task[c] = "asleep" THEN "due" ELSE task[c]
           E == IF task[c] = "asleep" THEN {"wake"} ELSE {}
<1>2. /\ Runs("alarm", c)
      /\ task' = [task EXCEPT ![c] = t]
      /\ Queues(IF task[c] = "asleep" THEN <<Do("wake", c)>> ELSE <<>>)
      /\ UNCHANGED <<inputVars, now, timers, cancelled, released, resultVars, report>>
  BY DEF Alarm
<1>3. Handles(c, "alarm", E)
  BY <1>1, <1>2, HandlesOne, HandlesNone DEF Doings
<1>4. task[c] # "none" /\ started[c] # Never
  BY <1>1, <1>3 DEF Handles, QueueInv, TaskInv
<1>5. Untouched(c)
  BY <1>1, <1>2 DEF Untouched, TimingTypeOK, resultVars
<1> QED
  BY <1>1, <1>2, <1>3, <1>4, <1>5 DEF Effect, resultVars, TimingTypeOK

LEMMA WakeCancelledEffect ==
  ASSUME TimingInv, NEW c \in Calls, WakeCancelled(c)
  PROVE  /\ Effect(c, "wake", {"release"}, "cancelled", "none")
         /\ task[c] = "due" /\ c \in cancelled /\ verdict[c] = "none"
         /\ started[c] # Never /\ finished'[c] = finished[c]
         /\ timers' = {t \in timers : t.run # Do("alarm", c)}
         /\ UNCHANGED <<now, cancelled, released, started>>
<1>1. TimingTypeOK /\ QueueInv(c) /\ TaskInv(c)
  BY DEF TimingInv, CallInv
<1>2. /\ Runs("wake", c) /\ c \in cancelled
      /\ task' = [task EXCEPT ![c] = "cancelled"]
      /\ timers' = {t \in timers : t.run # Do("alarm", c)}
      /\ Queues(<<Do("release", c)>>)
      /\ UNCHANGED <<inputVars, now, cancelled, released, resultVars, report>>
  BY DEF WakeCancelled
<1>3. Handles(c, "wake", {"release"})
  BY <1>1, <1>2, HandlesOne DEF Doings
<1>4. task[c] = "due" /\ verdict[c] = "none" /\ started[c] # Never
  BY <1>1, <1>3 DEF Handles, QueueInv, TaskInv
<1>5. Untouched(c)
  <2>1. \A t : t.run.call # c => (t \in timers') = (t \in timers)
    BY <1>2 DEF Do
  <2> QED
    BY <1>1, <1>2, <2>1 DEF Untouched, TimingTypeOK, resultVars
<1> QED
  BY <1>1, <1>2, <1>3, <1>4, <1>5 DEF Effect, resultVars, TimingTypeOK

(* What such a step, or one of the loop, leaves as it is for call d.       *)
SameFor(d) ==
  /\ batch' = batch
  /\ started'[d] = started[d] /\ finished'[d] = finished[d]
  /\ verdict'[d] = verdict[d] /\ task'[d] = task[d]
  /\ (d \in cancelled') = (d \in cancelled)
  /\ (d \in released') = (d \in released)
  /\ \A do \in Doings \ {"begin"} : Has(ready', do, d) = Has(ready, do, d)
  /\ \A do : HasTimer(do, d)' = HasTimer(do, d)
  /\ \A t : t.run.call = d => (t \in timers') = (t \in timers)
  /\ \A e, k : e # "begin" /\ k # "begin" /\ InOrder(ready, e, k, d)
                => InOrder(ready', e, k, d)

LEMMA SameTimers ==
  ASSUME NEW d, \A t : t.run.call = d => (t \in timers') = (t \in timers)
  PROVE  \A do : HasTimer(do, d)' = HasTimer(do, d)
<1>1. \A t, do : t.run = Do(do, d) => t.run.call = d
  BY DEF Do
<1> QED
  BY <1>1 DEF HasTimer

LEMMA EffectSame ==
  ASSUME NEW c, NEW h, NEW E, NEW t, NEW v, Effect(c, h, E, t, v),
         NEW d \in Calls \ {c}
  PROVE  SameFor(d)
<1>1. Handles(c, h, E) /\ Untouched(c)
  BY DEF Effect
<1>2. \A u : u.run.call = d => (u \in timers') = (u \in timers)
  BY <1>1 DEF Untouched
<1>3. \A do \in Doings \ {"begin"} : Has(ready', do, d) = Has(ready, do, d)
  <2>1. \A do \in Doings \ {"begin"} : Has(ready', do, d) <=> Has(ready, do, d)
    BY <1>1 DEF Handles
  <2> QED
    BY <2>1 DEF Has
<1>4. \A e, k : e # "begin" /\ k # "begin" /\ InOrder(ready, e, k, d)
                => InOrder(ready', e, k, d)
  BY <1>1 DEF Handles
<1> QED
  BY <1>1, <1>2, <1>3, <1>4, SameTimers DEF Untouched, SameFor, inputVars

LEMMA IdleSame ==
  ASSUME UNCHANGED <<inputVars, ready, timers, waitVars, resultVars>>,
         NEW d \in Calls
  PROVE  SameFor(d)
  BY DEF SameFor, HasTimer, inputVars, waitVars, resultVars

LEMMA PollEffect ==
  ASSUME TimingTypeOK, NEW t \in timers, PollTimer(t)
  PROVE  /\ \A d \in Calls : d # t.run.call => SameFor(d)
         /\ \A do, d : Has(ready, do, d) => Has(ready', do, d)
         /\ \A do, d : Has(ready', do, d) => Has(ready, do, d) \/ t.run = Do(do, d)
         /\ Has(ready', t.run.do, t.run.call) /\ t.run = Do(t.run.do, t.run.call)
         /\ \A e, k, d : InOrder(ready, e, k, d) /\ t.run # Do(e, d)
                          => InOrder(ready', e, k, d)
         /\ timers' = timers \ {t}
         /\ UNCHANGED <<inputVars, now, waitVars, resultVars, report>>
<1>1. /\ ready' = Append(ready, t.run) /\ timers' = timers \ {t}
      /\ UNCHANGED <<inputVars, now, waitVars, resultVars, report>>
  BY DEF PollTimer
<1>2. /\ ready \in Seq(Callback) /\ t.run \in Callback
      /\ t.run = Do(t.run.do, t.run.call)
  BY DEF TimingTypeOK, Callback, Do
<1>3. /\ \A do, d : Has(ready, do, d) => Has(ready', do, d)
      /\ \A do, d : Has(ready', do, d) => Has(ready, do, d) \/ t.run = Do(do, d)
      /\ Has(ready', t.run.do, t.run.call)
      /\ \A e, k, d : InOrder(ready, e, k, d) /\ t.run # Do(e, d)
                       => InOrder(ready', e, k, d)
  BY <1>1, <1>2, AppendAdds, AppendFollows
<1>4. ASSUME NEW d \in Calls, d # t.run.call PROVE SameFor(d)
  <2>1. \A do : t.run # Do(do, d)
    BY <1>2, <1>4, DoInjective
  <2>2. \A u : u.run.call = d => (u \in timers') = (u \in timers)
    BY <1>1, <1>4
  <2>3. \A do \in Doings \ {"begin"} : Has(ready', do, d) = Has(ready, do, d)
    <3>1. \A do \in Doings \ {"begin"} : Has(ready', do, d) <=> Has(ready, do, d)
      BY <1>3, <2>1
    <3> QED
      BY <3>1 DEF Has
  <2>4. \A e, k : e # "begin" /\ k # "begin" /\ InOrder(ready, e, k, d)
                  => InOrder(ready', e, k, d)
    BY <1>3, <2>1
  <2> QED
    BY <1>1, <2>2, <2>3, <2>4, SameTimers
       DEF SameFor, inputVars, waitVars, resultVars
<1> QED
  BY <1>1, <1>2, <1>3, <1>4

-----------------------------------------------------------------------------
(* No wake-up is lost: whatever a call that is under way waits for is in   *)
(* the queue or among the timers, and no timer outlives what it is for.    *)
AwakeInv(c) ==
  /\ started[c] # Never /\ task[c] = "none" => verdict[c] # "none"
  /\ task[c] = "new" => Has(ready, "run", c)
  /\ task[c] = "due" => Has(ready, "wake", c)
  /\ task[c] = "asleep" => Has(ready, "alarm", c) \/ HasTimer("alarm", c)
  /\ task[c] \in {"ended", "cancelled"} /\ c \notin released =>
       Has(ready, "release", c)
  /\ c \in released /\ verdict[c] = "none" => Has(ready, "collect", c)
  /\ task[c] \in Unfinished /\ c \notin released /\ c \notin cancelled =>
       Has(ready, "release", c) \/ HasTimer("release", c)
  /\ verdict[c] # "none" => ~HasTimer("release", c)
  /\ HasTimer("alarm", c) =>
       /\ task[c] = "asleep" \/ (task[c] = "due" /\ c \in cancelled)
       /\ ~Has(ready, "alarm", c)
  /\ Has(ready, "alarm", c) => task[c] # "new"
  /\ \A t, u \in timers : t.run = Do("alarm", c) /\ u.run = Do("alarm", c) => t = u

WakeInv ==
  /\ \A t \in timers : t.run.call \in Calls
  /\ \A c \in Calls : AwakeInv(c)

LEMMA InitWakeInv == TimingInit => WakeInv
<1> SUFFICES ASSUME TimingInit PROVE WakeInv
  OBVIOUS
<1>1. \A do, c : Has(ready, do, c) => do = "begin"
  BY DEF TimingInit, Has, Do
<1>2. timers = {} /\ \A do, c : ~HasTimer(do, c)
  BY DEF TimingInit, HasTimer
<1>3. \A c \in Calls : /\ task[c] = "none" /\ started[c] = Never /\ verdict[c] = "none"
                       /\ c \notin released
  BY DEF TimingInit
<1>4. ASSUME NEW c \in Calls PROVE AwakeInv(c)
  BY <1>1, <1>2, <1>3 DEF AwakeInv, Unfinished
<1> QED
  BY <1>2, <1>4 DEF WakeInv

LEMMA AwakeSame ==
  ASSUME NEW d \in Calls, AwakeInv(d), SameFor(d)
  PROVE  AwakeInv(d)'
<1>1. /\ Has(ready', "run", d) = Has(ready, "run", d)
      /\ Has(ready', "wake", d) = Has(ready, "wake", d)
      /\ Has(ready', "alarm", d) = Has(ready, "alarm", d)
      /\ Has(ready', "release", d) = Has(ready, "release", d)
      /\ Has(ready', "collect", d) = Has(ready, "collect", d)
  BY DEF SameFor, Doings
<1>2. HasTimer("alarm", d)' = HasTimer("alarm", d)
      /\ HasTimer("release", d)' = HasTimer("release", d)
  BY DEF SameFor
<1>3. \A t, u \in timers' : t.run = Do("alarm", d) /\ u.run = Do("alarm", d) => t = u
  <2>1. \A t : t.run = Do("alarm", d) => t.run.call = d
    BY DEF Do
  <2> QED
    BY <2>1 DEF SameFor, AwakeInv
<1> QED
  BY <1>1, <1>2, <1>3 DEF SameFor, AwakeInv

(* The queue as the call sees it.                                          *)
LEMMA Handled ==
  ASSUME NEW c, NEW h, NEW E, NEW t, NEW v, Effect(c, h, E, t, v)
  PROVE  /\ Has(ready, h, c) /\ task'[c] = t /\ verdict'[c] = v
         /\ \A do : Has(ready', do, c) => Has(ready, do, c) \/ do \in E
         /\ \A do : do # h /\ Has(ready, do, c) => Has(ready', do, c)
         /\ \A do \in E : Has(ready', do, c)
  BY DEF Effect, Handles

LEMMA CallKeepsAwake ==
  ASSUME TimingInv, NEW c \in Calls, AwakeInv(c), CallStep(c)
  PROVE  AwakeInv(c)'
<1>1. QueueInv(c) /\ TaskInv(c) /\ TimingTypeOK
  BY DEF TimingInv, CallInv
<1>2. CASE Invoke(c)
  <2> DEFINE t == [at |-> now + batch[c].limit, run |-> Do("release", c)]
  <2>1. /\ Effect(c, "begin", {"run"}, "new", "none")
        /\ task[c] = "none" /\ timers' = timers \cup {t}
        /\ UNCHANGED <<cancelled, released>>
    BY <1>2, InvokeEffect
  <2>0. t \in timers' /\ t.run = Do("release", c)
    BY <2>1
  <2> HIDE DEF t
  <2>2. HasTimer("release", c)' /\ t.run # Do("alarm", c)
    <3>1. t.run # Do("alarm", c)
      BY <2>0, DoInjective
    <3> QED
      BY <2>0, <3>1 DEF HasTimer
  <2>3. (HasTimer("alarm", c)' => HasTimer("alarm", c))
        /\ \A u \in timers' : u.run = Do("alarm", c) => u \in timers
    BY <2>1, <2>2 DEF HasTimer
  <2>4. /\ task'[c] = "new" /\ verdict'[c] = "none" /\ Has(ready', "run", c)
        /\ Has(ready', "alarm", c) => Has(ready, "alarm", c)
    BY <2>1, Handled
  <2>5. ~Has(ready, "alarm", c) /\ ~HasTimer("alarm", c)
        /\ (c \in released => Has(ready', "collect", c))
    BY <1>1, <2>1, Handled DEF QueueInv, TaskInv, AwakeInv
  <2> QED
    BY <2>1, <2>2, <2>3, <2>4, <2>5 DEF AwakeInv
<1>3. CASE InvokeRefused(c)
  <2>1. /\ Effect(c, "begin", {}, "none", "refused")
        /\ task[c] = "none" /\ UNCHANGED <<timers, cancelled, released>>
    BY <1>3, InvokeRefusedEffect
  <2>2. /\ task'[c] = "none" /\ verdict'[c] = "refused"
    BY <2>1, Handled
  <2>3. \A t \in timers : t.run.call # c
    BY <1>1, <2>1 DEF QueueInv
  <2>4. \A do : ~HasTimer(do, c)'
    BY <2>1, <2>3 DEF HasTimer, Do
  <2> QED
    BY <2>1, <2>2, <2>3, <2>4 DEF AwakeInv, Unfinished, Do
<1>4. CASE ReleaseWaiter(c)
  <2> DEFINE E == IF c \in released THEN {} ELSE {"collect"}
  <2>1. /\ Effect(c, "release", E, task[c], verdict[c])
        /\ released' = released \cup {c}
        /\ UNCHANGED <<timers, cancelled, started>>
    BY <1>4, ReleaseEffect
  <2>2. \A do : HasTimer(do, c)' = HasTimer(do, c)
    BY <2>1 DEF HasTimer
  <2> HIDE DEF E
  <2>3. /\ task'[c] = task[c] /\ verdict'[c] = verdict[c]
        /\ \A do : Has(ready', do, c) => Has(ready, do, c) \/ do \in E
        /\ \A do : do # "release" /\ Has(ready, do, c) => Has(ready', do, c)
        /\ \A do \in E : Has(ready', do, c)
    BY <2>1, Handled
  <2>4. verdict[c] = "none" => Has(ready', "collect", c)
    BY <2>3 DEF AwakeInv, E
  <2>5. Has(ready', "alarm", c) => Has(ready, "alarm", c)
    BY <2>3 DEF E
  <2> QED
    BY <2>1, <2>2, <2>3, <2>4, <2>5 DEF AwakeInv
<1>5. CASE CancelTask(c)
  <2> DEFINE E == IF task[c] = "asleep" THEN {"wake"} ELSE {}
  <2>1. /\ Effect(c, "collect", E, "due", "none")
        /\ task[c] \in {"asleep", "due"} /\ verdict[c] = "none"
        /\ cancelled' = cancelled \cup {c} /\ released' = released \ {c}
        /\ UNCHANGED <<timers, started>>
    BY <1>5, CancelEffect
  <2>2. \A do : HasTimer(do, c)' = HasTimer(do, c)
    BY <2>1 DEF HasTimer
  <2> HIDE DEF E
  <2>3. /\ task'[c] = "due" /\ verdict'[c] = "none"
        /\ \A do : Has(ready', do, c) => Has(ready, do, c) \/ do \in E
        /\ \A do : do # "collect" /\ Has(ready, do, c) => Has(ready', do, c)
        /\ \A do \in E : Has(ready', do, c)
    BY <2>1, Handled
  <2>4. Has(ready', "wake", c) /\ (Has(ready', "alarm", c) => Has(ready, "alarm", c))
    BY <2>1, <2>3 DEF AwakeInv, E
  <2> QED
    BY <2>1, <2>2, <2>3, <2>4 DEF AwakeInv
<1>6. CASE Collect(c)
  <2>1. /\ Effect(c, "collect", {}, task[c], Outcome(c)) /\ Outcome(c) # "none"
        /\ task[c] \in {"ended", "cancelled"} /\ c \in released
        /\ timers' = {t \in timers : t.run # Do("release", c)}
        /\ UNCHANGED <<cancelled, released, started>>
    BY <1>6, CollectEffect
  <2>2. ~HasTimer("release", c)' /\ (HasTimer("alarm", c)' => HasTimer("alarm", c))
    BY <2>1 DEF HasTimer
  <2>3. task'[c] = task[c] /\ verdict'[c] # "none"
    BY <2>1, Handled
  <2>4. ~HasTimer("alarm", c)
    BY <2>1 DEF AwakeInv
  <2>5. \A t, u \in timers' : t.run = Do("alarm", c) /\ u.run = Do("alarm", c) => t = u
    BY <2>1 DEF AwakeInv
  <2> QED
    BY <2>1, <2>2, <2>3, <2>4, <2>5 DEF AwakeInv, Unfinished
<1>7. CASE RunToSleep(c)
  <2> DEFINE t == [at |-> now' + batch[c].sleep, run |-> Do("alarm", c)]
  <2>1. /\ Effect(c, "run", {}, "asleep", "none")
        /\ task[c] = "new" /\ verdict[c] = "none" /\ timers' = timers \cup {t}
        /\ UNCHANGED <<cancelled, released, started>>
    BY <1>7, RunToSleepEffect
  <2>0. t \in timers' /\ t.run = Do("alarm", c)
    BY <2>1
  <2> HIDE DEF t
  <2>2. HasTimer("alarm", c)' /\ t.run # Do("release", c)
    <3>1. t.run # Do("release", c)
      BY <2>0, DoInjective
    <3> QED
      BY <2>0, <3>1 DEF HasTimer
  <2>3. HasTimer("release", c)' <=> HasTimer("release", c)
    BY <2>1, <2>2 DEF HasTimer
  <2>4. ~Has(ready, "alarm", c) /\ \A u \in timers : u.run # Do("alarm", c)
    BY <2>1 DEF AwakeInv, HasTimer
  <2>5. /\ task'[c] = "asleep" /\ verdict'[c] = "none"
        /\ \A do : Has(ready', do, c) => Has(ready, do, c)
        /\ \A do : do # "run" /\ Has(ready, do, c) => Has(ready', do, c)
    BY <2>1, Handled
  <2>6. \A u, w \in timers' : u.run = Do("alarm", c) /\ w.run = Do("alarm", c) => u = w
    BY <2>1, <2>4
  <2> QED
    BY <2>1, <2>2, <2>3, <2>4, <2>5, <2>6 DEF AwakeInv, Unfinished
<1>8. CASE RunToYield(c)
  <2>1. /\ Effect(c, "run", {"wake"}, "due", "none")
        /\ task[c] = "new" /\ verdict[c] = "none"
        /\ UNCHANGED <<timers, cancelled, released, started>>
    BY <1>8, RunToYieldEffect
  <2>2. \A do : HasTimer(do, c)' = HasTimer(do, c)
    BY <2>1 DEF HasTimer
  <2>3. /\ task'[c] = "due" /\ verdict'[c] = "none" /\ Has(ready', "wake", c)
        /\ \A do : do # "run" /\ Has(ready, do, c) => Has(ready', do, c)
    BY <2>1, Handled
  <2> QED
    BY <2>1, <2>2, <2>3 DEF AwakeInv, Unfinished
<1>9. CASE RunToEnd(c) \/ WakeToEnd(c)
  <2>1. PICK h \in {"run", "wake"} :
          /\ Effect(c, h, {"release"}, "ended", "none")
          /\ task[c] = (IF h = "run" THEN "new" ELSE "due")
          /\ h = "wake" => c \notin cancelled
          /\ verdict[c] = "none"
          /\ UNCHANGED <<timers, cancelled, released, started>>
    BY <1>9, EndEffect
  <2>2. \A do : HasTimer(do, c)' = HasTimer(do, c)
    BY <2>1 DEF HasTimer
  <2>3. ~HasTimer("alarm", c)
    BY <2>1 DEF AwakeInv
  <2>4. /\ task'[c] = "ended" /\ verdict'[c] = "none" /\ Has(ready', "release", c)
        /\ \A do : do # h /\ Has(ready, do, c) => Has(ready', do, c)
    BY <2>1, Handled
  <2> QED
    BY <2>1, <2>2, <2>3, <2>4 DEF AwakeInv, Unfinished
<1>10. CASE Alarm(c)
  <2> DEFINE E == IF task[c] = "asleep" THEN {"wake"} ELSE {}
             t == IF task[c] = "asleep" THEN "due" ELSE task[c]
  <2>1. /\ Effect(c, "alarm", E, t, verdict[c])
        /\ UNCHANGED <<timers, cancelled, released, started>>
    BY <1>10, AlarmEffect
  <2>2. \A do : HasTimer(do, c)' = HasTimer(do, c)
    BY <2>1 DEF HasTimer
  <2> HIDE DEF E, t
  <2>3. /\ Has(ready, "alarm", c) /\ task'[c] = t /\ verdict'[c] = verdict[c]
        /\ \A do : do # "alarm" /\ Has(ready, do, c) => Has(ready', do, c)
        /\ \A do \in E : Has(ready', do, c)
    BY <2>1, Handled
  <2>4. ~HasTimer("alarm", c) /\ task[c] # "new"
    BY <2>3 DEF AwakeInv
  <2>5. CASE task[c] = "asleep"
    <3>1. t = "due" /\ Has(ready', "wake", c)
      BY <2>3, <2>5 DEF t, E
    <3> QED
      BY <2>1, <2>2, <2>3, <2>4, <2>5, <3>1 DEF AwakeInv, Unfinished
  <2>6. CASE task[c] # "asleep"
    <3>1. t = task[c]
      BY <2>6 DEF t
    <3> QED
      BY <2>1, <2>2, <2>3, <2>4, <2>6, <3>1 DEF AwakeInv, Unfinished
  <2> QED
    BY <2>5, <2>6
<1>11. CASE WakeCancelled(c)
  <2>1. /\ Effect(c, "wake", {"release"}, "cancelled", "none")
        /\ task[c] = "due" /\ c \in cancelled /\ verdict[c] = "none"
        /\ timers' = {t \in timers : t.run # Do("alarm", c)}
        /\ UNCHANGED <<cancelled, released, started>>
    BY <1>11, WakeCancelledEffect
  <2>2. ~HasTimer("alarm", c)' /\ \A u \in timers' : u.run # Do("alarm", c)
    BY <2>1 DEF HasTimer
  <2>3. /\ task'[c] = "cancelled" /\ verdict'[c] = "none" /\ Has(ready', "release", c)
        /\ \A do : do # "wake" /\ Has(ready, do, c) => Has(ready', do, c)
    BY <2>1, Handled
  <2> QED
    BY <2>1, <2>2, <2>3 DEF AwakeInv, Unfinished
<1> QED
  BY <1>2, <1>3, <1>4, <1>5, <1>6, <1>7, <1>8, <1>9, <1>10, <1>11 DEF CallStep

LEMMA PollKeepsAwake ==
  ASSUME TimingInv, NEW t \in timers, PollTimer(t), NEW c \in Calls, AwakeInv(c)
  PROVE  AwakeInv(c)'
<1>1. TimingTypeOK
  BY DEF TimingInv
<1>2. CASE t.run.call # c
  BY <1>1, <1>2, PollEffect, AwakeSame
<1>3. CASE t.run.call = c
  <2>1. /\ \A do : Has(ready, do, c) => Has(ready', do, c)
        /\ \A do : Has(ready', do, c) => Has(ready, do, c) \/ t.run = Do(do, c)
        /\ timers' = timers \ {t}
        /\ UNCHANGED <<inputVars, waitVars, resultVars>>
    BY <1>1, PollEffect
  <2>2. /\ t.run = Do(t.run.do, c) /\ Has(ready', t.run.do, c)
    BY <1>1, <1>3, PollEffect
  <2>3. t.run.do \in {"release", "alarm"}
    BY <1>3 DEF TimingInv, CallInv, QueueInv
  <2>4. /\ \A do : HasTimer(do, c)' => HasTimer(do, c)
        /\ HasTimer(t.run.do, c)
        /\ \A do : do # t.run.do /\ HasTimer(do, c) => HasTimer(do, c)'
    <3>1. \A do : t.run = Do(do, c) => do = t.run.do
      BY <2>2, DoInjective
    <3> QED
      BY <2>1, <2>2, <3>1 DEF HasTimer
  <2>5. CASE t.run.do = "release"
    <3>1. t.run # Do("alarm", c)
      BY <2>2, <2>5, DoInjective
    <3>2. Has(ready', "release", c)
          /\ (Has(ready', "alarm", c) => Has(ready, "alarm", c))
      BY <2>1, <2>2, <2>5, <3>1
    <3>3. HasTimer("alarm", c) => HasTimer("alarm", c)'
      BY <2>4, <2>5
    <3>4. \A u, w \in timers' : u.run = Do("alarm", c) /\ w.run = Do("alarm", c) => u = w
      BY <2>1 DEF AwakeInv
    <3> QED
      BY <2>1, <2>4, <3>2, <3>3, <3>4 DEF AwakeInv, waitVars, resultVars
  <2>6. CASE t.run.do = "alarm"
    <3>1. Has(ready', "alarm", c) /\ HasTimer("alarm", c)
      BY <2>2, <2>4, <2>6
    <3>2. \A u \in timers' : u.run # Do("alarm", c)
      BY <2>1, <2>2, <2>6 DEF AwakeInv
    <3>3. ~HasTimer("alarm", c)'
      BY <3>2 DEF HasTimer
    <3>4. HasTimer("release", c)' <=> HasTimer("release", c)
      BY <2>4, <2>6
    <3>5. task[c] \in {"asleep", "due"}
      BY <3>1 DEF AwakeInv
    <3> QED
      BY <2>1, <3>1, <3>2, <3>3, <3>4, <3>5 DEF AwakeInv, waitVars, resultVars
  <2> QED
    BY <2>3, <2>5, <2>6
<1> QED
  BY <1>2, <1>3

(* Whose step it is: one of a call, of the loop, or none of them.          *)
LEMMA TimingSteps ==
  ASSUME [TimingNext]_tvars
  PROVE  \/ \E c \in Calls : CallStep(c)
         \/ \E t \in timers : PollTimer(t)
         \/ \E t \in timers : SleepUntil(t)
         \/ UNCHANGED <<inputVars, now, ready, timers, waitVars, resultVars>>
<1>1. CASE StartRound
  BY <1>1 DEF StartRound
<1>2. CASE Report
  BY <1>2 DEF Report, loopVars
<1>3. CASE UNCHANGED tvars
  BY <1>3 DEF tvars, loopVars
<1> QED
  BY <1>1, <1>2, <1>3 DEF TimingNext, BatchStep, LoopStep, Rest

(* A step of call c has one of these effects.                              *)
LEMMA CallEffect ==
  ASSUME TimingInv, NEW c \in Calls, CallStep(c)
  PROVE  \E h, E, t, v : Effect(c, h, E, t, v)
<1>1. CASE Invoke(c)
  BY <1>1, InvokeEffect
<1>2. CASE InvokeRefused(c)
  BY <1>2, InvokeRefusedEffect
<1>3. CASE ReleaseWaiter(c)
  BY <1>3, ReleaseEffect
<1>4. CASE CancelTask(c)
  BY <1>4, CancelEffect
<1>5. CASE Collect(c)
  BY <1>5, CollectEffect
<1>6. CASE RunToSleep(c)
  BY <1>6, RunToSleepEffect
<1>7. CASE RunToYield(c)
  BY <1>7, RunToYieldEffect
<1>8. CASE RunToEnd(c) \/ WakeToEnd(c)
  BY <1>8, EndEffect
<1>9. CASE Alarm(c)
  BY <1>9, AlarmEffect
<1>10. CASE WakeCancelled(c)
  BY <1>10, WakeCancelledEffect
<1> QED
  BY <1>1, <1>2, <1>3, <1>4, <1>5, <1>6, <1>7, <1>8, <1>9, <1>10 DEF CallStep

LEMMA StepKeepsBatch ==
  ASSUME TimingInv, [TimingNext]_tvars PROVE UNCHANGED inputVars
<1>1. ASSUME NEW c \in Calls, CallStep(c) PROVE UNCHANGED inputVars
  <2>1. PICK h, E, t, v : Effect(c, h, E, t, v)
    BY <1>1, CallEffect
  <2> QED
    BY <2>1 DEF Effect, Untouched
<1> QED
  BY <1>1, TimingSteps DEF PollTimer, SleepUntil

LEMMA NextKeepsWake == TimingInv /\ WakeInv /\ [TimingNext]_tvars => WakeInv'
<1> SUFFICES ASSUME TimingInv, WakeInv, [TimingNext]_tvars PROVE WakeInv'
  OBVIOUS
<1>0. TimingTypeOK /\ (\A d \in Calls : AwakeInv(d))
      /\ \A t \in timers : t.run.call \in Calls
  BY DEF TimingInv, WakeInv
<1>1. ASSUME NEW c \in Calls, CallStep(c) PROVE WakeInv'
  <2>1. PICK h, E, t, v : Effect(c, h, E, t, v)
    BY <1>1, CallEffect
  <2>2. Calls' = Calls /\ \A u : u.run.call # c => (u \in timers') = (u \in timers)
    BY <2>1 DEF Effect, Untouched, inputVars, Calls
  <2>3. \A d \in Calls : AwakeInv(d)'
    BY <1>0, <1>1, <2>1, EffectSame, AwakeSame, CallKeepsAwake
  <2> QED
    BY <1>0, <2>2, <2>3 DEF WakeInv
<1>2. ASSUME NEW t \in timers, PollTimer(t) PROVE WakeInv'
  <2>1. timers' = timers \ {t} /\ Calls' = Calls
    BY <1>2 DEF PollTimer, inputVars, Calls
  <2> QED
    BY <1>0, <1>2, <2>1, PollKeepsAwake DEF WakeInv
<1>3. ASSUME UNCHANGED <<inputVars, ready, timers, waitVars, resultVars>> PROVE WakeInv'
  <2>1. timers' = timers /\ Calls' = Calls
    BY <1>3 DEF inputVars, Calls
  <2> QED
    BY <1>0, <1>3, <2>1, IdleSame, AwakeSame DEF WakeInv
<1>4. ASSUME NEW t \in timers, SleepUntil(t) PROVE WakeInv'
  BY <1>3, <1>4 DEF SleepUntil
<1> QED
  BY <1>1, <1>2, <1>3, <1>4, TimingSteps

-----------------------------------------------------------------------------
(* How long the tools have kept the loop so far, and how long it has been  *)
(* asleep.                                                                 *)
Blocked(c) ==
  (IF task[c] \in {"none", "new"} THEN 0 ELSE batch[c].before)
  + (IF task[c] = "ended" /\ batch[c].awaits THEN batch[c].after ELSE 0)
BlockedSoFar == SumFunction([c \in Calls |-> Blocked(c)])
SleptSoFar == now - BlockedSoFar

LEMMA CallsFinite == ASSUME TimingTypeOK PROVE IsFiniteSet(Calls)
<1>1. Calls = 1..Len(batch) /\ Len(batch) \in Nat
  BY BatchesTyped DEF TimingTypeOK, Calls
<1> QED
  BY <1>1, FS_Interval

LEMMA BlockingBounds ==
  ASSUME TimingInv
  PROVE  /\ BlockedSoFar \in Nat /\ AllBlocking \in Nat
         /\ BlockedSoFar <= AllBlocking
<1> DEFINE f == [c \in Calls |-> Blocked(c)]
           g == [c \in Calls |-> Blocks(c)]
<1>0. TimingTypeOK /\ IsFiniteSet(Calls)
  BY CallsFinite DEF TimingInv
<1>1. ASSUME NEW c \in Calls
      PROVE  Blocked(c) \in Nat /\ Blocks(c) \in Nat /\ Blocked(c) <= Blocks(c)
  <2>1. /\ batch[c].before \in Nat /\ batch[c].after \in Nat
        /\ batch[c].awaits \in BOOLEAN /\ Blocks(c) \in Nat
    BY <1>0, CallTypes
  <2>2. task[c] # "none" => batch[c].gives # "refused"
    BY DEF TimingInv, CallInv, TaskInv
  <2> QED
    BY <2>1, <2>2 DEF Blocked, Blocks
<1>2. f \in [Calls -> Nat] /\ g \in [Calls -> Nat] /\ \A c \in Calls : f[c] <= g[c]
  BY <1>1
<1>3. /\ f \in [Calls -> Int] /\ g \in [Calls -> Int]
  BY <1>1
<1> HIDE DEF f, g
<1>4. SumFunction(f) \in Nat /\ SumFunction(g) \in Nat
  BY <1>0, <1>2, SumOfNaturals
<1>5. SumFunction(f) <= SumFunction(g)
  BY <1>0, <1>2, <1>3, SumMonotone
<1> QED
  BY <1>4, <1>5 DEF BlockedSoFar, AllBlocking, f, g

LEMMA BlockedChange ==
  ASSUME TimingInv, NEW c \in Calls, Untouched(c), Blocked(c)' \in Nat
  PROVE  BlockedSoFar' = BlockedSoFar + (Blocked(c)' - Blocked(c))
<1> DEFINE f == [d \in Calls |-> Blocked(d)]
           g == [d \in Calls |-> Blocked(d)']
<1>0. TimingTypeOK /\ IsFiniteSet(Calls) /\ Calls' = Calls
  BY CallsFinite DEF TimingInv, Untouched, inputVars, Calls
<1>1. \A d \in Calls \ {c} : Blocked(d)' = Blocked(d)
  BY DEF Untouched, inputVars, Blocked
<1>2. \A d \in Calls : Blocked(d) \in Nat
  BY <1>0, CallTypes DEF Blocked
<1>3. f \in [Calls -> Int] /\ g \in [Calls -> Int] /\ \A d \in Calls \ {c} : g[d] = f[d]
  BY <1>1, <1>2
<1>4. f[c] = Blocked(c) /\ g[c] = Blocked(c)'
  OBVIOUS
<1>5. BlockedSoFar = SumFunction(f) /\ BlockedSoFar' = SumFunction(g)
  BY <1>0 DEF BlockedSoFar
<1> HIDE DEF f, g
<1>6. SumFunction(g) = SumFunction(f) + (g[c] - f[c])
  BY <1>0, <1>3, SumChange
<1> QED
  BY <1>4, <1>5, <1>6

(* A call moves the clock only by blocking.                                *)
LEMMA CallsOnlyBlock ==
  ASSUME TimingInv, NEW c \in Calls, CallStep(c)
  PROVE  /\ SleptSoFar' = SleptSoFar /\ BlockedSoFar' >= BlockedSoFar
         /\ BlockedSoFar' \in Int
<1>1. /\ TimingTypeOK /\ now \in Nat
      /\ batch[c].before \in Nat /\ batch[c].after \in Nat
      /\ BlockedSoFar \in Nat /\ TaskInv(c)
  BY CallTypes, BlockingBounds DEF TimingInv, CallInv
<1>2. \E d \in Nat : now' = now + d /\ Untouched(c) /\ Blocked(c)' = Blocked(c) + d
  <2>1. CASE Invoke(c)
    <3>1. /\ Untouched(c) /\ task[c] = "none" /\ task'[c] = "new" /\ now' = now
      BY <2>1, InvokeEffect DEF Effect
    <3> QED
      BY <1>1, <3>1 DEF Blocked
  <2>2. CASE InvokeRefused(c)
    <3>1. /\ Untouched(c) /\ task[c] = "none" /\ task'[c] = "none" /\ now' = now
      BY <2>2, InvokeRefusedEffect DEF Effect
    <3> QED
      BY <1>1, <3>1 DEF Blocked
  <2>3. CASE ReleaseWaiter(c) \/ Collect(c)
    <3>1. /\ Untouched(c) /\ task'[c] = task[c] /\ now' = now
      BY <2>3, ReleaseEffect, CollectEffect DEF Effect
    <3> QED
      BY <1>1, <3>1 DEF Blocked, Untouched, inputVars
  <2>4. CASE CancelTask(c)
    <3>1. /\ Untouched(c) /\ task[c] \in {"asleep", "due"} /\ task'[c] = "due"
          /\ now' = now
      BY <2>4, CancelEffect DEF Effect
    <3> QED
      BY <1>1, <3>1 DEF Blocked, Untouched, inputVars
  <2>5. CASE RunToSleep(c) \/ RunToYield(c)
    <3>1. /\ Untouched(c) /\ task[c] = "new" /\ task'[c] \in {"asleep", "due"}
          /\ now' = now + batch[c].before
      BY <2>5, RunToSleepEffect, RunToYieldEffect DEF Effect
    <3> QED
      BY <1>1, <3>1 DEF Blocked, Untouched, inputVars
  <2>6. CASE RunToEnd(c) \/ WakeToEnd(c)
    <3>1. PICK h \in {"run", "wake"} :
            /\ Untouched(c) /\ task'[c] = "ended"
            /\ task[c] = (IF h = "run" THEN "new" ELSE "due")
            /\ h = "run" => ~batch[c].awaits /\ now' = now + batch[c].before
            /\ h = "wake" => batch[c].awaits /\ now' = now + batch[c].after
      BY <2>6, EndEffect DEF Effect
    <3>2. CASE h = "run"
      BY <1>1, <3>1, <3>2 DEF Blocked, Untouched, inputVars
    <3>3. CASE h = "wake"
      BY <1>1, <3>1, <3>3 DEF Blocked, Untouched, inputVars
    <3> QED
      BY <3>2, <3>3
  <2>7. CASE Alarm(c)
    <3>1. /\ Untouched(c) /\ task'[c] = (IF task[c] = "asleep" THEN "due" ELSE task[c])
          /\ now' = now
      BY <2>7, AlarmEffect DEF Effect
    <3> QED
      BY <1>1, <3>1 DEF Blocked, Untouched, inputVars
  <2>8. CASE WakeCancelled(c)
    <3>1. /\ Untouched(c) /\ task[c] = "due" /\ task'[c] = "cancelled" /\ now' = now
      BY <2>8, WakeCancelledEffect DEF Effect
    <3> QED
      BY <1>1, <3>1 DEF Blocked, Untouched, inputVars
  <2> QED
    BY <2>1, <2>2, <2>3, <2>4, <2>5, <2>6, <2>7, <2>8 DEF CallStep
<1>3. PICK d \in Nat : now' = now + d /\ Untouched(c) /\ Blocked(c)' = Blocked(c) + d
  BY <1>2
<1>4. Blocked(c) \in Nat /\ Blocked(c)' \in Nat
  BY <1>1, <1>3 DEF Blocked
<1>5. BlockedSoFar' = BlockedSoFar + (Blocked(c)' - Blocked(c))
  BY <1>3, <1>4, BlockedChange
<1> QED
  BY <1>1, <1>3, <1>4, <1>5 DEF SleptSoFar

(* While a call is under way, the loop has slept no longer since its start *)
(* than the call's sleep and its limit.                                    *)
OwnTime(c) == Least(SleepOf(c), batch[c].limit)

DelayInv(c) ==
  /\ started[c] # Never /\ verdict[c] = "none" => SleptSoFar <= started[c] + OwnTime(c)
  /\ Has(ready, "run", c) => SleptSoFar <= started[c]
  /\ \A t \in timers :
       /\ t.run = Do("alarm", c) => t.at <= started[c] + SleepOf(c) + BlockedSoFar
       /\ t.run = Do("release", c) => t.at <= LimitAt(c)
  /\ verdict[c] # "none" => Duration(c) <= OwnTime(c) + AllBlocking

(* What no step may do to call c but those that change its result or set   *)
(* its timers.                                                             *)
Settled(c) ==
  /\ batch' = batch /\ SleptSoFar' = SleptSoFar
  /\ BlockedSoFar' \in Int /\ BlockedSoFar' >= BlockedSoFar
  /\ started'[c] = started[c] /\ finished'[c] = finished[c]
  /\ verdict'[c] = verdict[c]
  /\ Has(ready', "run", c) => Has(ready, "run", c)
  /\ \A t \in timers' : t.run.call = c => t \in timers

LEMMA DelayTypes ==
  ASSUME TimingInv, NEW c \in Calls
  PROVE  /\ now \in Nat /\ SleepOf(c) \in Nat /\ batch[c].limit \in Nat
         /\ OwnTime(c) \in Nat /\ OwnTime(c) <= SleepOf(c)
         /\ OwnTime(c) <= batch[c].limit
         /\ started[c] \in Int /\ BlockedSoFar \in Nat /\ AllBlocking \in Nat
         /\ BlockedSoFar <= AllBlocking
         /\ SleptSoFar \in Int /\ now = SleptSoFar + BlockedSoFar
         /\ \A t \in timers : t.at \in Nat
<1>1. /\ now \in Nat /\ SleepOf(c) \in Nat /\ batch[c].limit \in Nat
      /\ started[c] \in Int /\ BlockedSoFar \in Nat /\ AllBlocking \in Nat
      /\ BlockedSoFar <= AllBlocking
  BY CallTypes, BlockingBounds DEF TimingInv, Never
<1>2. \A t \in timers : t.at \in Nat
  BY DEF TimingInv, TimingTypeOK
<1> QED
  BY <1>1, <1>2 DEF OwnTime, Least, SleptSoFar

LEMMA DelaySettled ==
  ASSUME TimingInv, NEW c \in Calls, DelayInv(c), Settled(c) PROVE DelayInv(c)'
<1>1. /\ SleepOf(c)' = SleepOf(c) /\ OwnTime(c)' = OwnTime(c)
      /\ AllBlocking' = AllBlocking /\ LimitAt(c)' = LimitAt(c)
      /\ Duration(c)' = Duration(c)
  BY DEF Settled, SleepOf, OwnTime, AllBlocking, Blocks, Calls, LimitAt, Duration
<1>2. /\ BlockedSoFar \in Int /\ started[c] \in Int /\ SleepOf(c) \in Int
      /\ \A t \in timers : t.at \in Int
  BY DelayTypes
<1>3. \A t \in timers' :
        /\ t.run = Do("alarm", c) => t.at <= started'[c] + SleepOf(c)' + BlockedSoFar'
        /\ t.run = Do("release", c) => t.at <= LimitAt(c)'
  <2>1. \A t, do : t.run = Do(do, c) => t.run.call = c
    BY DEF Do
  <2> QED
    BY <1>1, <1>2, <2>1 DEF DelayInv, Settled
<1> QED
  BY <1>1, <1>3 DEF DelayInv, Settled

LEMMA SameSettled ==
  ASSUME NEW d, SameFor(d), SleptSoFar' = SleptSoFar,
         BlockedSoFar' \in Int, BlockedSoFar' >= BlockedSoFar
  PROVE  Settled(d)
  BY DEF SameFor, Settled, Doings

LEMMA CallKeepsDelay ==
  ASSUME TimingInv, NEW c \in Calls, DelayInv(c), CallStep(c)
  PROVE  DelayInv(c)'
<1>1. /\ SleptSoFar' = SleptSoFar
      /\ BlockedSoFar' \in Int /\ BlockedSoFar' >= BlockedSoFar
  BY CallsOnlyBlock
<1>2. /\ now \in Nat /\ SleepOf(c) \in Nat /\ batch[c].limit \in Nat
      /\ OwnTime(c) \in Nat
      /\ started[c] \in Int /\ BlockedSoFar \in Nat /\ AllBlocking \in Nat
      /\ BlockedSoFar <= AllBlocking
      /\ SleptSoFar \in Int /\ now = SleptSoFar + BlockedSoFar
  BY DelayTypes
<1>3. ASSUME batch' = batch
      PROVE  /\ SleepOf(c)' = SleepOf(c) /\ OwnTime(c)' = OwnTime(c)
             /\ AllBlocking' = AllBlocking
  BY <1>3 DEF SleepOf, OwnTime, AllBlocking, Blocks, Calls
<1>4. \A t, do : t.run = Do(do, c) => t.run.call = c
  BY DEF Do
<1>5. QueueInv(c) /\ TaskInv(c)
  BY DEF TimingInv, CallInv
<1>6. CASE Invoke(c)
  <2> DEFINE t == [at |-> now + batch[c].limit, run |-> Do("release", c)]
  <2>1. /\ Effect(c, "begin", {"run"}, "new", "none") /\ task[c] = "none"
        /\ started'[c] = now /\ timers' = timers \cup {t} /\ now' = now
    BY <1>6, InvokeEffect
  <2>2. verdict'[c] = "none" /\ batch' = batch
    BY <2>1 DEF Effect, Untouched, inputVars
  <2>3. t.run # Do("alarm", c) /\ t.at = LimitAt(c)'
    BY <2>1, <2>2, DoInjective DEF LimitAt
  <2> HIDE DEF t
  <2>4. \A u \in timers : u.run.call # c
    BY <1>5, <2>1 DEF QueueInv
  <2>5. \A u \in timers' : /\ u.run # Do("alarm", c)
                           /\ u.run = Do("release", c) => u.at <= LimitAt(c)'
    <3>1. LimitAt(c)' \in Int /\ t.at <= LimitAt(c)'
      BY <1>2, <2>1, <2>2, <2>3 DEF LimitAt
    <3>2. \A u \in timers : \A do : u.run # Do(do, c)
      BY <1>4, <2>4
    <3> QED
      BY <2>1, <2>3, <3>1, <3>2
  <2>6. SleptSoFar' <= started'[c] /\ SleptSoFar' <= started'[c] + OwnTime(c)'
    BY <1>1, <1>2, <1>3, <2>1, <2>2
  <2> QED
    BY <2>2, <2>5, <2>6 DEF DelayInv
<1>7. CASE InvokeRefused(c)
  <2>1. /\ Effect(c, "begin", {}, "none", "refused") /\ task[c] = "none"
        /\ started'[c] = now /\ finished'[c] = now /\ timers' = timers
    BY <1>7, InvokeRefusedEffect
  <2>2. /\ verdict'[c] = "refused" /\ batch' = batch
        /\ Has(ready', "run", c) => Has(ready, "run", c)
    BY <2>1, Handled DEF Effect, Untouched, inputVars
  <2>3. ~Has(ready', "run", c) /\ \A u \in timers' : u.run.call # c
    BY <1>5, <2>1, <2>2 DEF QueueInv
  <2>4. Duration(c)' <= OwnTime(c)' + AllBlocking'
    BY <1>2, <1>3, <2>1, <2>2 DEF Duration
  <2> QED
    BY <1>4, <2>2, <2>3, <2>4 DEF DelayInv
<1>8. CASE Collect(c)
  <2>1. /\ Effect(c, "collect", {}, task[c], Outcome(c)) /\ Outcome(c) # "none"
        /\ verdict[c] = "none" /\ started[c] # Never /\ finished'[c] = now
        /\ timers' = {t \in timers : t.run # Do("release", c)}
        /\ started' = started
    BY <1>8, CollectEffect
  <2>2. /\ verdict'[c] # "none" /\ batch' = batch
        /\ Has(ready', "run", c) => Has(ready, "run", c)
    BY <2>1, Handled DEF Effect, Untouched, inputVars
  <2>3. Duration(c)' <= OwnTime(c)' + AllBlocking'
    <3>1. SleptSoFar <= started[c] + OwnTime(c)
      BY <2>1 DEF DelayInv
    <3> QED
      BY <1>2, <1>3, <2>1, <2>2, <3>1 DEF Duration
  <2>4. SleptSoFar' <= started'[c] \/ ~Has(ready', "run", c)
    BY <1>1, <2>1, <2>2 DEF DelayInv
  <2>5. \A t \in timers' :
          /\ t.run # Do("release", c)
          /\ t.run = Do("alarm", c) => t.at <= started'[c] + SleepOf(c)' + BlockedSoFar'
    <3>1. \A t \in timers : t.at \in Int
      BY DelayTypes
    <3> QED
      BY <1>1, <1>2, <1>3, <2>1, <2>2, <3>1 DEF DelayInv
  <2> QED
    BY <2>2, <2>3, <2>4, <2>5 DEF DelayInv
<1>9. CASE RunToSleep(c)
  <2> DEFINE t == [at |-> now' + batch[c].sleep, run |-> Do("alarm", c)]
  <2>1. /\ Effect(c, "run", {}, "asleep", "none") /\ verdict[c] = "none"
        /\ started[c] # Never /\ batch[c].awaits
        /\ timers' = timers \cup {t} /\ started' = started
        /\ finished'[c] = finished[c] /\ now' = now + batch[c].before
    BY <1>9, RunToSleepEffect
  <2>2. /\ verdict'[c] = "none" /\ batch' = batch /\ Has(ready, "run", c)
    BY <2>1, Handled DEF Effect, Untouched, inputVars
  <2>3. SleptSoFar <= started[c]
    BY <2>2 DEF DelayInv
  <2>4. t.run # Do("release", c) /\ t.at = now' + SleepOf(c)
    BY <2>1, DoInjective DEF SleepOf
  <2> HIDE DEF t
  <2>5. now' = SleptSoFar' + BlockedSoFar'
    <3>1. batch[c].before \in Nat
      BY CallTypes DEF TimingInv
    <3> QED
      BY <1>1, <1>2, <2>1, <3>1 DEF SleptSoFar
  <2>6. t.at <= started'[c] + SleepOf(c)' + BlockedSoFar'
    BY <1>1, <1>2, <1>3, <2>1, <2>2, <2>3, <2>4, <2>5
  <2>7. LimitAt(c)' = LimitAt(c)
    BY <2>1, <2>2 DEF LimitAt
  <2>8. \A u \in timers' :
          /\ u.run = Do("alarm", c) => u.at <= started'[c] + SleepOf(c)' + BlockedSoFar'
          /\ u.run = Do("release", c) => u.at <= LimitAt(c)'
    <3>1. \A u \in timers : u.at \in Int
      BY DelayTypes
    <3> QED
      BY <1>1, <1>2, <1>3, <2>1, <2>2, <2>4, <2>6, <2>7, <3>1 DEF DelayInv
  <2>9. SleptSoFar' <= started'[c] /\ SleptSoFar' <= started'[c] + OwnTime(c)'
    BY <1>1, <1>2, <1>3, <2>1, <2>2, <2>3
  <2> QED
    BY <2>2, <2>8, <2>9 DEF DelayInv
<1>10. ASSUME NEW h, NEW E, NEW t, Effect(c, h, E, t, verdict[c]), "run" \notin E,
              timers' \subseteq timers, started' = started, finished'[c] = finished[c]
       PROVE  DelayInv(c)'
  <2>1. /\ verdict'[c] = verdict[c] /\ batch' = batch
        /\ Has(ready', "run", c) => Has(ready, "run", c)
    BY <1>10, Handled DEF Effect, Untouched, inputVars
  <2>2. Settled(c)
    BY <1>1, <1>10, <2>1 DEF Settled
  <2> QED
    BY <2>2, DelaySettled
<1>11. CASE ReleaseWaiter(c)
  BY <1>10, <1>11, ReleaseEffect
<1>12. CASE CancelTask(c)
  BY <1>10, <1>12, CancelEffect
<1>13. CASE RunToYield(c)
  BY <1>10, <1>13, RunToYieldEffect
<1>14. CASE RunToEnd(c) \/ WakeToEnd(c)
  BY <1>10, <1>14, EndEffect
<1>15. CASE Alarm(c)
  BY <1>10, <1>15, AlarmEffect
<1>16. CASE WakeCancelled(c)
  BY <1>10, <1>16, WakeCancelledEffect
<1> QED
  BY <1>6, <1>7, <1>8, <1>9, <1>11, <1>12, <1>13, <1>14, <1>15, <1>16 DEF CallStep

LEMMA PollKeepsDelay ==
  ASSUME TimingInv, NEW t \in timers, PollTimer(t), NEW c \in Calls, DelayInv(c)
  PROVE  DelayInv(c)'
<1>1. /\ UNCHANGED <<inputVars, now, waitVars, resultVars>>
      /\ timers' \subseteq timers
      /\ \A do, d : Has(ready', do, d) => Has(ready, do, d) \/ t.run = Do(do, d)
  BY PollEffect DEF TimingInv
<1>2. t.run # Do("run", c)
  <2>1. t.run = Do("run", c) => t.run.call = c /\ t.run.do = "run"
    BY DEF Do
  <2> QED
    BY <2>1 DEF TimingInv, CallInv, QueueInv
<1>3. BlockedSoFar' = BlockedSoFar /\ SleptSoFar' = SleptSoFar
  BY <1>1 DEF BlockedSoFar, SleptSoFar, Blocked, Calls, inputVars, waitVars
<1>4. Settled(c)
  <2>1. BlockedSoFar \in Nat
    BY BlockingBounds
  <2> QED
    BY <1>1, <1>2, <1>3, <2>1 DEF Settled, inputVars, resultVars
<1> QED
  BY <1>4, DelaySettled

LEMMA IdleKeepsDelay ==
  ASSUME TimingInv, UNCHANGED <<inputVars, now, ready, timers, waitVars, resultVars>>,
         NEW c \in Calls, DelayInv(c)
  PROVE  DelayInv(c)'
<1>1. BlockedSoFar' = BlockedSoFar /\ SleptSoFar' = SleptSoFar
  BY DEF BlockedSoFar, SleptSoFar, Blocked, Calls, inputVars, waitVars
<1>2. Settled(c)
  <2>1. BlockedSoFar \in Nat
    BY BlockingBounds
  <2> QED
    BY <1>1, <2>1 DEF Settled, inputVars, resultVars
<1> QED
  BY <1>2, DelaySettled

(* The loop sleeps only when every call under way is asleep, with its      *)
(* alarm and its time-out still to come.                                   *)
LEMMA AsleepTogether ==
  ASSUME TimingInv, WakeInv, ready = <<>>, NEW c \in Calls,
         started[c] # Never, verdict[c] = "none"
  PROVE  task[c] = "asleep" /\ HasTimer("alarm", c) /\ HasTimer("release", c)
<1>1. \A do : ~Has(ready, do, c)
  BY DEF Has
<1>2. /\ AwakeInv(c) /\ TaskInv(c) /\ task[c] \in TaskStates
  BY DEF TimingInv, WakeInv, CallInv, TimingTypeOK
<1>3. c \notin released
  BY <1>1, <1>2 DEF AwakeInv
<1>4. task[c] = "asleep"
  BY <1>1, <1>2, <1>3 DEF AwakeInv, TaskStates
<1> QED
  BY <1>1, <1>2, <1>3, <1>4 DEF AwakeInv, TaskInv, Unfinished

LEMMA SleepKeepsDelay ==
  ASSUME TimingInv, WakeInv, \A d \in Calls : DelayInv(d),
         NEW t \in timers, SleepUntil(t), NEW c \in Calls
  PROVE  DelayInv(c)'
<1>1. /\ ready = <<>> /\ now' = t.at /\ \A u \in timers : t.at <= u.at
      /\ UNCHANGED <<inputVars, ready, timers, waitVars, resultVars>>
  BY DEF SleepUntil
<1>2. BlockedSoFar' = BlockedSoFar
  BY <1>1 DEF BlockedSoFar, Blocked, Calls, inputVars, waitVars
<1>3. /\ SleepOf(c)' = SleepOf(c) /\ OwnTime(c)' = OwnTime(c)
      /\ AllBlocking' = AllBlocking /\ LimitAt(c)' = LimitAt(c)
      /\ Duration(c)' = Duration(c) /\ Has(ready, "run", c)' = Has(ready, "run", c)
  BY <1>1 DEF SleepOf, OwnTime, AllBlocking, Blocks, Calls, LimitAt, Duration, Has,
              inputVars, resultVars
<1>4. started[c] # Never /\ verdict[c] = "none" => SleptSoFar' <= started[c] + OwnTime(c)
  <2> SUFFICES ASSUME started[c] # Never, verdict[c] = "none"
               PROVE  t.at - BlockedSoFar <= started[c] + OwnTime(c)
    BY <1>1, <1>2 DEF SleptSoFar
  <2>1. HasTimer("alarm", c) /\ HasTimer("release", c)
    BY <1>1, AsleepTogether
  <2>2. PICK a \in timers : a.run = Do("alarm", c)
    BY <2>1 DEF HasTimer
  <2>3. PICK r \in timers : r.run = Do("release", c)
    BY <2>1 DEF HasTimer
  <2>4. /\ a.at <= started[c] + SleepOf(c) + BlockedSoFar
        /\ r.at <= started[c] + batch[c].limit
    BY <2>2, <2>3 DEF DelayInv, LimitAt
  <2>5. /\ SleepOf(c) \in Nat /\ batch[c].limit \in Nat /\ started[c] \in Int
        /\ BlockedSoFar \in Nat /\ \A u \in timers : u.at \in Nat
    BY DelayTypes
  <2>6. t.at <= a.at /\ t.at <= r.at
    BY <1>1
  <2> QED
    BY <2>4, <2>5, <2>6 DEF OwnTime, Least
<1>5. ~Has(ready, "run", c)
  BY <1>1 DEF Has
<1> QED
  BY <1>1, <1>2, <1>3, <1>4, <1>5 DEF DelayInv, inputVars, resultVars

DelaysBounded == \A c \in Calls : DelayInv(c)

LEMMA InitDelays == TimingInit => DelaysBounded
<1> SUFFICES ASSUME TimingInit, NEW c \in Calls PROVE DelayInv(c)
  BY DEF DelaysBounded
<1>1. \A do, d : Has(ready, do, d) => do = "begin"
  BY DEF TimingInit, Has, Do
<1> QED
  BY <1>1 DEF TimingInit, DelayInv

LEMMA NextKeepsDelays ==
  TimingInv /\ WakeInv /\ DelaysBounded /\ [TimingNext]_tvars => DelaysBounded'
<1> SUFFICES ASSUME TimingInv, WakeInv, DelaysBounded, [TimingNext]_tvars
             PROVE  DelaysBounded'
  OBVIOUS
<1>0. Calls' = Calls
  BY StepKeepsBatch DEF Calls, inputVars
<1> SUFFICES ASSUME NEW d \in Calls PROVE DelayInv(d)'
  BY <1>0 DEF DelaysBounded
<1>1. \A c \in Calls : DelayInv(c)
  BY DEF DelaysBounded
<1>2. ASSUME NEW c \in Calls, CallStep(c) PROVE DelayInv(d)'
  <2>1. CASE d = c
    BY <1>1, <1>2, <2>1, CallKeepsDelay
  <2>2. CASE d # c
    <3>1. PICK h, E, t, v : Effect(c, h, E, t, v)
      BY <1>2, CallEffect
    <3>2. SameFor(d)
      BY <2>2, <3>1, EffectSame
    <3> QED
      BY <1>1, <1>2, <3>2, CallsOnlyBlock, SameSettled, DelaySettled
  <2> QED
    BY <2>1, <2>2
<1> QED
  BY <1>1, <1>2, PollKeepsDelay, SleepKeepsDelay, IdleKeepsDelay, TimingSteps

(* WakeInv and DelaysBounded are invariants of every batch.                *)
LEMMA DelaysHold == TimingSpec => [](TimingInv /\ WakeInv /\ DelaysBounded)
<1>1. TimingInit => TimingInv /\ WakeInv /\ DelaysBounded
  BY InitTimingInv, InitWakeInv, InitDelays
<1>2. TimingInv /\ WakeInv /\ DelaysBounded /\ [TimingNext]_tvars
        => (TimingInv /\ WakeInv /\ DelaysBounded)'
  BY NextKeepsTimingInv, NextKeepsWake, NextKeepsDelays
<1> QED
  BY <1>1, <1>2, PTL DEF TimingSpec

(* DelayIsBlocking: a call's duration exceeds its sleep or its limit,      *)
(* whichever ends first, by no more than all the batch's blocking: a       *)
(* time-out comes late only as far as a tool keeps the event loop.         *)
THEOREM DelaysAreBlocking == TimingSpec => []DelayIsBlocking
<1>1. DelaysBounded => DelayIsBlocking
  BY DEF DelaysBounded, DelayInv, OwnTime, DelayIsBlocking
<1> QED
  BY <1>1, DelaysHold, PTL

-----------------------------------------------------------------------------
(* A call that sleeps beyond its limit is caught: its time-out comes up    *)
(* before its alarm, and wait_for goes on before the task does.            *)
LateInv(c) ==
  /\ task[c] \in Unfinished /\ Has(ready, "release", c) => ~HasTimer("release", c)
  /\ SleepOf(c) > batch[c].limit =>
       /\ task[c] # "ended"
       /\ task[c] = "asleep" =>
            \/ c \in released
            \/ Has(ready, "release", c) /\ InOrder(ready, "release", "alarm", c)
            \/ HasTimer("release", c) /\ ~Has(ready, "alarm", c)
       /\ task[c] = "due" /\ c \notin cancelled =>
            Has(ready, "collect", c) /\ InOrder(ready, "collect", "wake", c)

LEMMA NotFirst ==
  ASSUME TimingTypeOK, NEW c, NEW e, NEW k, e # k, Has(ready, e, c),
         InOrder(ready, e, k, c), ready # <<>>
  PROVE  Head(ready) # Do(k, c)
<1> SUFFICES ASSUME Head(ready) = Do(k, c) PROVE FALSE
  OBVIOUS
<1>1. PICK i \in DOMAIN ready : ready[i] = Do(e, c)
  BY DEF Has
<1>2. 1 \in DOMAIN ready /\ ready[1] = Do(k, c) /\ i >= 1
  BY DEF TimingTypeOK
<1>3. i < 1
  BY <1>1, <1>2 DEF InOrder
<1> QED
  BY <1>2, <1>3

LEMMA LateSame ==
  ASSUME NEW d \in Calls, LateInv(d), SameFor(d) PROVE LateInv(d)'
<1>1. /\ Has(ready', "alarm", d) = Has(ready, "alarm", d)
      /\ Has(ready', "release", d) = Has(ready, "release", d)
      /\ Has(ready', "collect", d) = Has(ready, "collect", d)
      /\ HasTimer("release", d)' = HasTimer("release", d)
      /\ InOrder(ready, "release", "alarm", d) => InOrder(ready', "release", "alarm", d)
      /\ InOrder(ready, "collect", "wake", d) => InOrder(ready', "collect", "wake", d)
  BY DEF SameFor, Doings
<1>2. SleepOf(d)' = SleepOf(d) /\ batch' = batch
  BY DEF SameFor, SleepOf
<1> QED
  BY <1>1, <1>2 DEF SameFor, LateInv

LEMMA CallKeepsLate ==
  ASSUME TimingInv, NEW c \in Calls, AwakeInv(c), LateInv(c), CallStep(c)
  PROVE  LateInv(c)'
<1>1. QueueInv(c) /\ TaskInv(c) /\ TimingTypeOK
  BY DEF TimingInv, CallInv
<1>2. /\ batch[c].awaits \in BOOLEAN /\ batch[c].sleep \in Nat /\ batch[c].limit \in Nat
      /\ SleepOf(c) > batch[c].limit => batch[c].awaits /\ batch[c].sleep > 0
  <2>1. /\ batch[c].awaits \in BOOLEAN /\ batch[c].sleep \in Nat
        /\ batch[c].limit \in Nat
    BY <1>1, CallTypes
  <2> QED
    BY <2>1 DEF SleepOf
<1>3. ASSUME NEW h, NEW E, NEW t, NEW v, Effect(c, h, E, t, v)
      PROVE  /\ batch' = batch /\ SleepOf(c)' = SleepOf(c) /\ task'[c] = t
             /\ ready # <<>> /\ Head(ready) = Do(h, c) /\ Has(ready, h, c)
             /\ \A do : Has(ready', do, c) => Has(ready, do, c) \/ do \in E
             /\ \A do : do # h /\ Has(ready, do, c) => Has(ready', do, c)
             /\ \A e, k : InOrder(ready, e, k, c) /\ e \notin E
                          /\ e # "begin" /\ k # "begin" => InOrder(ready', e, k, c)
  <2>1. Handles(c, h, E) /\ batch' = batch /\ task'[c] = t
    BY <1>3 DEF Effect, Untouched, inputVars
  <2>2. ready # <<>>
    BY <2>1 DEF Handles, Has
  <2> QED
    BY <2>1, <2>2 DEF Handles, SleepOf
<1>4. (\A do : ~Has(ready, do, c) => \A e : InOrder(ready, e, do, c) /\ InOrder(ready, do, e, c))
  BY DEF Has, InOrder
<1>5. CASE Invoke(c)
  <2>1. /\ Effect(c, "begin", {"run"}, "new", "none") /\ task[c] = "none"
    BY <1>5, InvokeEffect
  <2>2. task'[c] = "new" /\ (Has(ready', "release", c) => Has(ready, "release", c))
    BY <1>3, <2>1
  <2>3. ~Has(ready, "release", c)
    BY <1>1, <2>1 DEF QueueInv
  <2> QED
    BY <2>2, <2>3 DEF LateInv
<1>6. CASE InvokeRefused(c)
  <2>1. task'[c] = "none"
    BY <1>3, <1>6, InvokeRefusedEffect
  <2> QED
    BY <2>1 DEF LateInv, Unfinished
<1>7. CASE ReleaseWaiter(c)
  <2> DEFINE E == IF c \in released THEN {} ELSE {"collect"}
  <2>1. /\ Effect(c, "release", E, task[c], verdict[c])
        /\ released' = released \cup {c} /\ UNCHANGED <<timers, cancelled>>
    BY <1>7, ReleaseEffect
  <2>2. HasTimer("release", c)' = HasTimer("release", c)
    BY <2>1 DEF HasTimer
  <2>3. c \notin released => ~Has(ready, "collect", c)
    BY <1>1 DEF QueueInv
  <2>4. "collect" \in E => c \notin released
    OBVIOUS
  <2> HIDE DEF E
  <2>5. /\ batch' = batch /\ SleepOf(c)' = SleepOf(c) /\ task'[c] = task[c]
        /\ Has(ready, "collect", c) => Has(ready', "collect", c)
        /\ InOrder(ready, "collect", "wake", c) /\ "collect" \notin E
             => InOrder(ready', "collect", "wake", c)
    BY <1>3, <2>1
  <2>6. Has(ready', "release", c) => Has(ready, "release", c)
    BY <1>3, <2>1
  <2> QED
    BY <2>1, <2>2, <2>3, <2>4, <2>5, <2>6 DEF LateInv
<1>8. CASE CancelTask(c)
  <2> DEFINE E == IF task[c] = "asleep" THEN {"wake"} ELSE {}
  <2>1. /\ Effect(c, "collect", E, "due", "none") /\ task[c] \in {"asleep", "due"}
        /\ cancelled' = cancelled \cup {c} /\ timers' = timers
    BY <1>8, CancelEffect
  <2>2. HasTimer("release", c)' = HasTimer("release", c)
    BY <2>1 DEF HasTimer
  <2>3. /\ task'[c] = "due"
        /\ Has(ready', "release", c) => Has(ready, "release", c) \/ "release" \in E
    BY <1>3, <2>1
  <2> QED
    BY <2>1, <2>2, <2>3 DEF LateInv, Unfinished
<1>9. CASE Collect(c)
  <2>1. task'[c] = task[c] /\ task[c] \in {"ended", "cancelled"} /\ batch' = batch
        /\ SleepOf(c)' = SleepOf(c)
    BY <1>3, <1>9, CollectEffect
  <2> QED
    BY <2>1 DEF LateInv, Unfinished
<1>10. CASE RunToSleep(c)
  <2> DEFINE t == [at |-> now' + batch[c].sleep, run |-> Do("alarm", c)]
  <2>1. /\ Effect(c, "run", {}, "asleep", "none") /\ task[c] = "new"
        /\ timers' = timers \cup {t} /\ UNCHANGED <<cancelled, released>>
    BY <1>10, RunToSleepEffect
  <2>2. t.run # Do("release", c)
    BY DoInjective
  <2> HIDE DEF t
  <2>3. HasTimer("release", c)' <=> HasTimer("release", c)
    BY <2>1, <2>2 DEF HasTimer
  <2>4. /\ task'[c] = "asleep" /\ batch' = batch /\ SleepOf(c)' = SleepOf(c)
        /\ Has(ready', "release", c) <=> Has(ready, "release", c)
        /\ Has(ready', "alarm", c) => Has(ready, "alarm", c)
        /\ InOrder(ready, "release", "alarm", c) => InOrder(ready', "release", "alarm", c)
    BY <1>3, <2>1
  <2>5. ~Has(ready, "alarm", c)
    BY <2>1 DEF AwakeInv
  <2>6. c \notin cancelled
    BY <1>1, <2>1 DEF TaskInv
  <2>7. c \in released \/ Has(ready, "release", c) \/ HasTimer("release", c)
    BY <2>1, <2>6 DEF AwakeInv, Unfinished
  <2> QED
    BY <1>4, <2>1, <2>3, <2>4, <2>5, <2>7 DEF LateInv, Unfinished
<1>11. CASE RunToYield(c)
  <2>1. /\ Effect(c, "run", {"wake"}, "due", "none") /\ task[c] = "new"
        /\ batch[c].sleep = 0 /\ timers' = timers
    BY <1>11, RunToYieldEffect
  <2>2. HasTimer("release", c)' = HasTimer("release", c)
    BY <2>1 DEF HasTimer
  <2>3. /\ batch' = batch /\ SleepOf(c)' = SleepOf(c)
        /\ Has(ready', "release", c) => Has(ready, "release", c)
    BY <1>3, <2>1
  <2>4. ~(SleepOf(c) > batch[c].limit)
    BY <1>2, <2>1
  <2> QED
    BY <2>1, <2>2, <2>3, <2>4 DEF LateInv, Unfinished
<1>12. CASE RunToEnd(c) \/ WakeToEnd(c)
  <2>1. PICK h \in {"run", "wake"} :
          /\ Effect(c, h, {"release"}, "ended", "none")
          /\ task[c] = (IF h = "run" THEN "new" ELSE "due")
          /\ h = "run" => ~batch[c].awaits
          /\ h = "wake" => c \notin cancelled
    BY <1>12, EndEffect
  <2>2. /\ task'[c] = "ended" /\ batch' = batch /\ SleepOf(c)' = SleepOf(c)
        /\ Head(ready) = Do(h, c) /\ ready # <<>>
    BY <1>3, <2>1
  <2>3. ~(SleepOf(c) > batch[c].limit)
    <3>1. CASE h = "run"
      BY <1>2, <2>1, <3>1
    <3>2. CASE h = "wake"
      <4> SUFFICES ASSUME SleepOf(c) > batch[c].limit PROVE FALSE
        OBVIOUS
      <4>1. Has(ready, "collect", c) /\ InOrder(ready, "collect", "wake", c)
        BY <2>1, <3>2 DEF LateInv
      <4>2. Head(ready) # Do("wake", c)
        BY <1>1, <2>2, <4>1, NotFirst
      <4> QED
        BY <2>2, <3>2, <4>2
    <3> QED
      BY <3>1, <3>2
  <2> QED
    BY <2>2, <2>3 DEF LateInv, Unfinished
<1>13. CASE Alarm(c)
  <2> DEFINE E == IF task[c] = "asleep" THEN {"wake"} ELSE {}
             t == IF task[c] = "asleep" THEN "due" ELSE task[c]
  <2>1. /\ Effect(c, "alarm", E, t, verdict[c]) /\ UNCHANGED <<timers, cancelled, released>>
    BY <1>13, AlarmEffect
  <2>2. HasTimer("release", c)' = HasTimer("release", c)
    BY <2>1 DEF HasTimer
  <2>3. E \subseteq {"wake"} /\ (t = task[c] \/ (t = "due" /\ task[c] = "asleep"))
        /\ t # "asleep"
    OBVIOUS
  <2> HIDE DEF E, t
  <2>4. /\ batch' = batch /\ SleepOf(c)' = SleepOf(c) /\ task'[c] = t
        /\ ready # <<>> /\ Head(ready) = Do("alarm", c) /\ Has(ready, "alarm", c)
        /\ Has(ready', "release", c) => Has(ready, "release", c)
        /\ Has(ready, "collect", c) => Has(ready', "collect", c)
        /\ InOrder(ready, "collect", "wake", c) => InOrder(ready', "collect", "wake", c)
    BY <1>3, <2>1, <2>3
  <2>5. CASE task[c] = "asleep"
    <3>1. t = "due"
      BY <2>3, <2>5
    <3>2. SleepOf(c) > batch[c].limit => c \in released
      BY <1>1, <2>4, <2>5, NotFirst DEF LateInv
    <3>3. c \in released => Has(ready, "collect", c)
      BY <1>1, <2>5 DEF AwakeInv, TaskInv
    <3>4. InOrder(ready, "collect", "wake", c)
      BY <1>1, <1>4, <2>5 DEF QueueInv
    <3> QED
      BY <2>1, <2>2, <2>4, <2>5, <3>1, <3>2, <3>3, <3>4 DEF LateInv, Unfinished
  <2>6. CASE task[c] # "asleep"
    BY <2>1, <2>2, <2>3, <2>4, <2>6 DEF LateInv
  <2> QED
    BY <2>5, <2>6
<1>14. CASE WakeCancelled(c)
  <2>1. task'[c] = "cancelled"
    BY <1>3, <1>14, WakeCancelledEffect
  <2> QED
    BY <2>1 DEF LateInv, Unfinished
<1> QED
  BY <1>5, <1>6, <1>7, <1>8, <1>9, <1>10, <1>11, <1>12, <1>13, <1>14 DEF CallStep

LEMMA PollKeepsLate ==
  ASSUME TimingInv, NEW t \in timers, PollTimer(t),
         NEW c \in Calls, DelayInv(c), LateInv(c)
  PROVE  LateInv(c)'
<1>1. TimingTypeOK /\ ClockInv(c) /\ QueueInv(c)
  BY DEF TimingInv, CallInv
<1>2. CASE t.run.call # c
  BY <1>1, <1>2, PollEffect, LateSame
<1>3. CASE t.run.call = c
  <2>1. /\ \A do : Has(ready, do, c) => Has(ready', do, c)
        /\ \A do : Has(ready', do, c) => Has(ready, do, c) \/ t.run = Do(do, c)
        /\ \A e, k : InOrder(ready, e, k, c) /\ t.run # Do(e, c)
                       => InOrder(ready', e, k, c)
        /\ timers' = timers \ {t}
        /\ UNCHANGED <<inputVars, waitVars, resultVars>>
        /\ t.run = Do(t.run.do, c) /\ Has(ready', t.run.do, c)
    BY <1>1, <1>3, PollEffect
  <2>2. /\ batch' = batch /\ task' = task /\ released' = released
        /\ cancelled' = cancelled /\ SleepOf(c)' = SleepOf(c)
    BY <2>1 DEF inputVars, waitVars, SleepOf
  <2>3. \A do : t.run = Do(do, c) => do = t.run.do
    BY <2>1, DoInjective
  <2>4. CASE t.run.do = "release"
    <3>1. ~HasTimer("release", c)'
      <4> SUFFICES ASSUME NEW u \in timers', u.run = Do("release", c) PROVE FALSE
        BY DEF HasTimer
      <4>1. /\ u \in timers /\ u # t /\ u.run.call = c
            /\ t.run = Do("release", c)
        BY <2>1, <2>4 DEF Do
      <4>2. t.at >= LimitAt(c) /\ u.at <= LimitAt(c)
            /\ u.at >= LimitAt(c) /\ t.at <= LimitAt(c)
        BY <1>1, <1>3, <2>4, <4>1 DEF ClockInv, DelayInv, Do
      <4>3. t.at \in Nat /\ u.at \in Nat /\ LimitAt(c) \in Int
        BY <4>1, DelayTypes DEF LimitAt
      <4>4. t.at = u.at
        BY <4>2, <4>3
      <4>5. t \in [at : Nat, run : Callback] /\ u \in [at : Nat, run : Callback]
        BY <1>1, <4>1 DEF TimingTypeOK
      <4> QED
        BY <4>1, <4>4, <4>5
    <3>2. HasTimer("release", c)
      BY <2>1, <2>4 DEF HasTimer
    <3>3. Has(ready', "alarm", c) => Has(ready, "alarm", c)
      BY <2>1, <2>3, <2>4
    <3>4. task[c] = "asleep" /\ ~Has(ready, "alarm", c)
            => Has(ready', "release", c) /\ InOrder(ready', "release", "alarm", c)
      BY <2>1, <2>4, <3>3 DEF Has, InOrder
    <3>5. task[c] \in Unfinished => ~Has(ready, "release", c)
      BY <3>2 DEF LateInv
    <3>6. /\ Has(ready, "collect", c) => Has(ready', "collect", c)
          /\ InOrder(ready, "collect", "wake", c) => InOrder(ready', "collect", "wake", c)
      BY <2>1, <2>3, <2>4
    <3> QED
      BY <2>2, <3>1, <3>4, <3>5, <3>6 DEF LateInv, Unfinished
  <2>5. CASE t.run.do # "release"
    <3>1. t.run.do = "alarm"
      BY <1>1, <1>3, <2>5 DEF QueueInv
    <3>2. HasTimer("release", c)' <=> HasTimer("release", c)
      BY <2>1, <2>3, <2>5 DEF HasTimer
    <3>3. /\ Has(ready, "collect", c) => Has(ready', "collect", c)
          /\ InOrder(ready, "collect", "wake", c) => InOrder(ready', "collect", "wake", c)
          /\ InOrder(ready, "release", "alarm", c) => InOrder(ready', "release", "alarm", c)
          /\ Has(ready', "release", c) <=> Has(ready, "release", c)
      BY <2>1, <2>3, <3>1
    <3>4. SleepOf(c) > batch[c].limit => ~HasTimer("release", c)
      <4> SUFFICES ASSUME SleepOf(c) > batch[c].limit, NEW u \in timers,
                          u.run = Do("release", c)
                   PROVE  FALSE
        BY DEF HasTimer
      <4>1. /\ batch[c].before \in Nat /\ batch[c].sleep \in Nat
            /\ batch[c].limit \in Nat /\ started[c] \in Int
            /\ t.at \in Nat /\ u.at \in Nat /\ now \in Nat
        BY <1>1, CallTypes, DelayTypes
      <4>2. SleepOf(c) = batch[c].sleep
        BY <4>1 DEF SleepOf
      <4>3. u.at <= started[c] + batch[c].limit
        BY DEF DelayInv, LimitAt
      <4>4. t.at >= started[c] + batch[c].before + batch[c].sleep
        BY <1>1, <1>3, <3>1 DEF ClockInv, AwakeAt
      <4>5. t.at <= now /\ \A w \in timers : w.at <= now => t.at <= w.at
        BY DEF PollTimer, Due
      <4> QED
        BY <4>1, <4>2, <4>3, <4>4, <4>5
    <3> QED
      BY <2>2, <3>2, <3>3, <3>4 DEF LateInv
  <2> QED
    BY <2>4, <2>5
<1> QED
  BY <1>2, <1>3

LateTogether == \A c \in Calls : LateInv(c)

LEMMA InitLate == TimingInit => LateTogether
  BY DEF TimingInit, LateTogether, LateInv, Unfinished

LEMMA NextKeepsLate ==
  TimingInv /\ WakeInv /\ DelaysBounded /\ LateTogether /\ [TimingNext]_tvars
    => LateTogether'
<1> SUFFICES ASSUME TimingInv, WakeInv, DelaysBounded, LateTogether, [TimingNext]_tvars
             PROVE  LateTogether'
  OBVIOUS
<1>0. Calls' = Calls
  BY StepKeepsBatch DEF Calls, inputVars
<1> SUFFICES ASSUME NEW d \in Calls PROVE LateInv(d)'
  BY <1>0 DEF LateTogether
<1>1. \A c \in Calls : LateInv(c) /\ DelayInv(c) /\ AwakeInv(c)
  BY DEF LateTogether, DelaysBounded, WakeInv
<1>2. ASSUME NEW c \in Calls, CallStep(c) PROVE LateInv(d)'
  <2>1. CASE d = c
    BY <1>1, <1>2, <2>1, CallKeepsLate
  <2>2. CASE d # c
    <3>1. PICK h, E, t, v : Effect(c, h, E, t, v)
      BY <1>2, CallEffect
    <3>2. SameFor(d)
      BY <2>2, <3>1, EffectSame
    <3> QED
      BY <1>1, <3>2, LateSame
  <2> QED
    BY <2>1, <2>2
<1>3. ASSUME UNCHANGED <<inputVars, ready, timers, waitVars, resultVars>>
      PROVE  LateInv(d)'
  BY <1>1, <1>3, IdleSame, LateSame
<1>4. ASSUME NEW t \in timers, SleepUntil(t) PROVE LateInv(d)'
  BY <1>3, <1>4 DEF SleepUntil
<1>5. ASSUME NEW t \in timers, PollTimer(t) PROVE LateInv(d)'
  BY <1>1, <1>5, PollKeepsLate
<1> QED
  BY <1>2, <1>3, <1>4, <1>5, TimingSteps

(* LimitsDecide: in whatever order the callbacks run, a call that keeps    *)
(* its limit even if all other calls of the batch keep it from the loop is *)
(* not given up, and one that sleeps beyond its limit always is.           *)
THEOREM LimitsAreDecisive == TimingSpec => []LimitsDecide
<1> DEFINE Inv == TimingInv /\ WakeInv /\ DelaysBounded /\ LateTogether
<1>1. TimingInit => Inv
  BY InitTimingInv, InitWakeInv, InitDelays, InitLate
<1>2. Inv /\ [TimingNext]_tvars => Inv'
  BY NextKeepsTimingInv, NextKeepsWake, NextKeepsDelays, NextKeepsLate
<1>3. Inv => LimitsDecide
  <2> SUFFICES ASSUME Inv, NEW c \in Calls
               PROVE  /\ SleepOf(c) + AllBlocking < batch[c].limit
                           => verdict[c] # "timeout"
                      /\ SleepOf(c) > batch[c].limit => verdict[c] \notin {"ok", "error"}
    BY DEF LimitsDecide
  <2>1. /\ SoundAt(c) /\ DelayInv(c) /\ LateInv(c) /\ TaskInv(c) /\ TimingTypeOK
    BY DEF TimingInv, CallInv, DelaysBounded, LateTogether
  <2>2. /\ SleepOf(c) \in Nat /\ AllBlocking \in Nat /\ batch[c].limit \in Nat
        /\ OwnTime(c) \in Nat /\ OwnTime(c) <= SleepOf(c)
        /\ started[c] \in Int /\ finished[c] \in Int
    BY <2>1, DelayTypes DEF TimingTypeOK, Never
  <2>3. verdict[c] = "timeout" => Duration(c) >= batch[c].limit
                                  /\ Duration(c) <= OwnTime(c) + AllBlocking
    BY <2>1 DEF SoundAt, DelayInv
  <2>4. Duration(c) \in Int
    BY <2>2 DEF Duration
  <2>5. SleepOf(c) + AllBlocking < batch[c].limit => verdict[c] # "timeout"
    BY <2>2, <2>3, <2>4
  <2>6. verdict[c] \in {"ok", "error"} => task[c] = "ended"
    BY <2>1 DEF TaskInv
  <2> QED
    BY <2>1, <2>5, <2>6 DEF LateInv
<1> HIDE DEF Inv
<1> QED
  BY <1>1, <1>2, <1>3, PTL DEF TimingSpec

-----------------------------------------------------------------------------
(* What a step of call c does to the clock and to its result: it starts    *)
(* the call, lets its task run on, settles it, or nothing of it.           *)
Starts(c) ==
  /\ started[c] = Never /\ verdict[c] = "none" /\ verdict'[c] = "none"
  /\ started'[c] = now /\ finished'[c] = finished[c] /\ now' = now
GoesOn(c) ==
  /\ started[c] # Never /\ verdict[c] = "none" /\ verdict'[c] = "none"
  /\ started'[c] = started[c] /\ finished'[c] = finished[c]
  /\ now' \in Nat /\ now' >= now
  /\ Blocks(c) = 0 => now' = now
GetsResult(c) ==
  /\ verdict[c] = "none" /\ verdict'[c] # "none"
  /\ finished'[c] = now /\ now' = now
  /\ IF verdict'[c] = "refused"
       THEN started[c] = Never /\ started'[c] = now /\ batch[c].gives = "refused"
       ELSE started[c] # Never /\ started'[c] = started[c]
KeepsResult(c) ==
  /\ started[c] # Never /\ verdict'[c] = verdict[c] /\ now' = now
  /\ started'[c] = started[c] /\ finished'[c] = finished[c]

LEMMA CallResult ==
  ASSUME TimingInv, NEW c \in Calls, CallStep(c)
  PROVE  /\ Untouched(c)
         /\ Starts(c) \/ GoesOn(c) \/ GetsResult(c) \/ KeepsResult(c)
<1>1. /\ now \in Nat /\ batch[c].before \in Nat /\ batch[c].after \in Nat
      /\ batch[c].awaits \in BOOLEAN
  BY CallTypes DEF TimingInv
<1>2. task[c] # "none" => batch[c].gives # "refused"
  BY DEF TimingInv, CallInv, TaskInv
<1>3. CASE Invoke(c)
  BY <1>3, InvokeEffect DEF Effect, Starts
<1>4. CASE InvokeRefused(c)
  BY <1>4, InvokeRefusedEffect DEF Effect, GetsResult
<1>5. CASE ReleaseWaiter(c)
  BY <1>5, ReleaseEffect DEF Effect, KeepsResult
<1>6. CASE CancelTask(c)
  BY <1>1, <1>6, CancelEffect DEF Effect, GoesOn
<1>7. CASE Collect(c)
  BY <1>7, CollectEffect DEF Effect, GetsResult
<1>8. CASE RunToSleep(c) \/ RunToYield(c)
  <2>1. /\ Untouched(c) /\ task[c] = "new" /\ verdict[c] = "none" /\ verdict'[c] = "none"
        /\ started[c] # Never /\ finished'[c] = finished[c] /\ started' = started
        /\ batch[c].awaits /\ now' = now + batch[c].before
    BY <1>8, RunToSleepEffect, RunToYieldEffect DEF Effect
  <2>2. Blocks(c) = batch[c].before + batch[c].after
    BY <1>2, <2>1 DEF Blocks
  <2> QED
    BY <1>1, <2>1, <2>2 DEF GoesOn
<1>9. CASE RunToEnd(c) \/ WakeToEnd(c)
  <2>1. PICK h \in {"run", "wake"} :
          /\ Untouched(c) /\ verdict'[c] = "none"
          /\ task[c] = (IF h = "run" THEN "new" ELSE "due")
          /\ h = "run" => ~batch[c].awaits /\ now' = now + batch[c].before
          /\ h = "wake" => batch[c].awaits /\ now' = now + batch[c].after
          /\ verdict[c] = "none" /\ started[c] # Never
          /\ finished'[c] = finished[c] /\ started' = started
    BY <1>9, EndEffect DEF Effect
  <2>2. CASE h = "run"
    BY <1>1, <1>2, <2>1, <2>2 DEF GoesOn, Blocks
  <2>3. CASE h = "wake"
    BY <1>1, <1>2, <2>1, <2>3 DEF GoesOn, Blocks
  <2> QED
    BY <2>2, <2>3
<1>10. CASE Alarm(c)
  BY <1>10, AlarmEffect DEF Effect, KeepsResult
<1>11. CASE WakeCancelled(c)
  BY <1>1, <1>11, WakeCancelledEffect DEF Effect, GoesOn
<1> QED
  BY <1>3, <1>4, <1>5, <1>6, <1>7, <1>8, <1>9, <1>10, <1>11 DEF CallStep

(* A timer belongs to a call that is under way.                            *)
LEMMA TimedUnderway ==
  ASSUME TimingInv, WakeInv, NEW t \in timers
  PROVE  /\ t.run.call \in Calls /\ started[t.run.call] # Never
         /\ verdict[t.run.call] = "none"
<1> DEFINE c == t.run.call
<1>1. c \in Calls
  BY DEF WakeInv
<1>2. QueueInv(c) /\ TaskInv(c) /\ AwakeInv(c) /\ TimingTypeOK
  BY <1>1 DEF TimingInv, CallInv, WakeInv
<1>3. t.run = Do(t.run.do, c)
  BY <1>2 DEF TimingTypeOK, Callback, Do
<1>4. t.run.do \in {"release", "alarm"} /\ task[c] # "none"
  BY <1>2 DEF QueueInv
<1>5. HasTimer(t.run.do, c)
  BY <1>3 DEF HasTimer
<1>6. verdict[c] = "none"
  BY <1>2, <1>4, <1>5 DEF AwakeInv, TaskInv
<1> QED
  BY <1>1, <1>2, <1>4, <1>6 DEF TaskInv

(* How long the calls have been under way, and the clock.                  *)
Elapsed(c) ==
  CASE started[c] = Never -> 0
    [] started[c] # Never /\ verdict[c] = "none" -> now - started[c]
    [] OTHER -> Duration(c)
AllElapsed == SumFunction([c \in Calls |-> Elapsed(c)])
ClockCounted == now <= AllElapsed /\ (sequential => now = AllElapsed)

(* Call c is under way if the clock moves, and nothing changes for others. *)
Advances(c) ==
  /\ UNCHANGED inputVars
  /\ now' \in Nat /\ now' >= now
  /\ \A d \in Calls \ {c} : /\ started'[d] = started[d] /\ finished'[d] = finished[d]
                            /\ verdict'[d] = verdict[d]
  /\ Elapsed(c)' = Elapsed(c) + (now' - now)
  /\ now' # now => started[c] # Never /\ verdict[c] = "none"

LEMMA ElapsedTypes ==
  ASSUME TimingInv, NEW c \in Calls
  PROVE  /\ Elapsed(c) \in Int /\ started[c] \in Int /\ finished[c] \in Int /\ now \in Nat
         /\ Duration(c) \in Int
<1>1. started[c] \in Int /\ finished[c] \in Int /\ now \in Nat
  BY DEF TimingInv, TimingTypeOK, Never
<1> QED
  BY <1>1 DEF Elapsed, Duration

LEMMA AdvanceKeepsClock ==
  ASSUME TimingInv, TurnInv, ClockCounted, NEW c \in Calls, Advances(c)
  PROVE  ClockCounted'
<1> DEFINE f == [d \in Calls |-> Elapsed(d)]
           g == [f EXCEPT ![c] = @ + (now' - now)]
           h == [d \in Calls |-> Elapsed(d)']
<1>0. /\ TimingTypeOK /\ IsFiniteSet(Calls) /\ Calls' = Calls /\ now \in Nat
      /\ now' \in Nat /\ now' >= now /\ sequential' = sequential
  BY CallsFinite DEF TimingInv, TimingTypeOK, Advances, Calls, inputVars
<1>1. \A d \in Calls : Elapsed(d) \in Int
  BY ElapsedTypes
<1>2. ASSUME NEW d \in Calls, d # c
      PROVE  Elapsed(d)' = IF started[d] # Never /\ verdict[d] = "none"
                             THEN Elapsed(d) + (now' - now) ELSE Elapsed(d)
  <2>1. /\ started'[d] = started[d] /\ verdict'[d] = verdict[d]
        /\ finished'[d] = finished[d]
    BY <1>2 DEF Advances
  <2>2. started[d] \in Int
    BY ElapsedTypes
  <2> QED
    BY <1>0, <2>1, <2>2 DEF Elapsed, Duration
<1>3. f \in [Calls -> Int] /\ g \in [Calls -> Int] /\ h \in [Calls -> Int]
  <2>1. \A d \in Calls : Elapsed(d)' \in Int
    BY <1>0, <1>1, <1>2 DEF Advances
  <2> QED
    BY <1>0, <1>1, <2>1
<1>4. f[c] = Elapsed(c) /\ g[c] = Elapsed(c) + (now' - now) /\ h[c] = g[c]
  BY DEF Advances
<1>5. \A d \in Calls \ {c} : g[d] = f[d]
  OBVIOUS
<1>6. \A d \in Calls : g[d] <= h[d]
  <2>1. ASSUME NEW d \in Calls, d # c PROVE Elapsed(d) <= Elapsed(d)'
    BY <1>0, <1>1, <1>2, <2>1
  <2>2. g[c] <= h[c]
    BY <1>3, <1>4
  <2> QED
    BY <2>1, <2>2
<1>7. sequential => h = g
  <2> SUFFICES ASSUME sequential, NEW d \in Calls, d # c PROVE Elapsed(d)' = Elapsed(d)
    BY <1>4
  <2>1. CASE now' = now
    BY <1>0, <1>1, <1>2, <2>1
  <2>2. CASE now' # now
    <3>1. started[c] # Never /\ verdict[c] = "none"
      BY <2>2 DEF Advances
    <3>2. d < c \/ c < d
      BY <1>0, CallTypes
    <3>3. ~(started[d] # Never /\ verdict[d] = "none")
      BY <3>1, <3>2 DEF TurnInv
    <3> QED
      BY <1>2, <3>3
  <2> QED
    BY <2>1, <2>2
<1>8. AllElapsed = SumFunction(f) /\ AllElapsed' = SumFunction(h)
  BY <1>0 DEF AllElapsed
<1> HIDE DEF f, g, h
<1>9. /\ SumFunction(g) = SumFunction(f) + (g[c] - f[c])
      /\ SumFunction(g) <= SumFunction(h)
      /\ SumFunction(f) \in Int /\ SumFunction(g) \in Int /\ SumFunction(h) \in Int
  BY <1>0, <1>3, <1>5, <1>6, SumChange, SumMonotone, SumOfIntegers
<1>10. SumFunction(g) = SumFunction(f) + (now' - now)
  BY <1>0, <1>1, <1>4, <1>9
<1> QED
  BY <1>0, <1>7, <1>8, <1>9, <1>10 DEF ClockCounted

LEMMA CallAdvances ==
  ASSUME TimingInv, NEW c \in Calls, CallStep(c) PROVE Advances(c)
<1>1. Untouched(c) /\ (Starts(c) \/ GoesOn(c) \/ GetsResult(c) \/ KeepsResult(c))
  BY CallResult
<1>2. /\ Elapsed(c) \in Int /\ started[c] \in Int /\ now \in Nat /\ Never \notin Nat
      /\ verdict[c] # "none" => started[c] # Never
  BY ElapsedTypes DEF TimingInv, CallInv, TaskInv, Never
<1>3. Elapsed(c)' = Elapsed(c) + (now' - now)
  <2>1. CASE Starts(c)
    BY <1>2, <2>1 DEF Starts, Elapsed
  <2>2. CASE GoesOn(c)
    BY <1>2, <2>2 DEF GoesOn, Elapsed
  <2>3. CASE GetsResult(c)
    BY <1>2, <2>3 DEF GetsResult, Elapsed, Duration
  <2>4. CASE KeepsResult(c)
    BY <1>2, <2>4 DEF KeepsResult, Elapsed, Duration
  <2> QED
    BY <1>1, <2>1, <2>2, <2>3, <2>4
<1>4. /\ now' \in Nat /\ now' >= now
      /\ now' # now => started[c] # Never /\ verdict[c] = "none"
  BY <1>1, <1>2 DEF Starts, GoesOn, GetsResult, KeepsResult
<1> QED
  BY <1>1, <1>3, <1>4 DEF Advances, Untouched

LEMMA NextKeepsClock ==
  TimingInv /\ WakeInv /\ TurnInv /\ ClockCounted /\ [TimingNext]_tvars => ClockCounted'
<1> SUFFICES ASSUME TimingInv, WakeInv, TurnInv, ClockCounted, [TimingNext]_tvars
             PROVE  ClockCounted'
  OBVIOUS
<1>1. ASSUME NEW c \in Calls, CallStep(c) PROVE ClockCounted'
  BY <1>1, CallAdvances, AdvanceKeepsClock
<1>2. ASSUME NEW t \in timers, SleepUntil(t) PROVE ClockCounted'
  <2> DEFINE c == t.run.call
  <2>1. c \in Calls /\ started[c] # Never /\ verdict[c] = "none"
    BY TimedUnderway
  <2>2. /\ now' = t.at /\ now' \in Nat /\ now' >= now
        /\ UNCHANGED <<inputVars, resultVars>>
    <3>1. t.at \in Nat /\ now \in Nat
      BY <2>1, DelayTypes
    <3> QED
      BY <1>2, <3>1 DEF SleepUntil, Due
  <2>3. Elapsed(c)' = Elapsed(c) + (now' - now)
    BY <2>1, <2>2, ElapsedTypes DEF Elapsed, resultVars
  <2>4. Advances(c)
    BY <2>1, <2>2, <2>3 DEF Advances, resultVars
  <2> QED
    BY <2>1, <2>4, AdvanceKeepsClock
<1>3. ASSUME UNCHANGED <<inputVars, now, resultVars>> PROVE ClockCounted'
  BY <1>3 DEF ClockCounted, AllElapsed, Elapsed, Duration, Calls, inputVars, resultVars
<1> QED
  BY <1>1, <1>2, <1>3, TimingSteps DEF PollTimer

(* Nothing is finished in the future; a call that is refused takes no      *)
(* time; where nothing blocks, gather starts every call at once.           *)
FinishInv(c) ==
  /\ finished[c] <= now
  /\ verdict[c] = "refused" => finished[c] = started[c] /\ batch[c].gives = "refused"
  /\ ~sequential /\ AllBlocking = 0 =>
       started[c] = 0 \/ (started[c] = Never /\ now = 0)

(* The batch is over when its last call is, and so is the report.          *)
LastFinish == AllFinished => \E c \in Calls : finished[c] = now
Reported ==
  report # NoReport =>
    AllFinished /\ report.wall \in now..now + Overhead /\ report.estimate = Estimate

ReportInv == (\A c \in Calls : FinishInv(c)) /\ LastFinish /\ Reported

LEMMA NothingBlocks ==
  ASSUME TimingInv, AllBlocking = 0, NEW c \in Calls PROVE Blocks(c) = 0
<1> DEFINE f == [d \in Calls |-> Blocks(d)]
<1>1. TimingTypeOK /\ IsFiniteSet(Calls)
  BY CallsFinite DEF TimingInv
<1>2. f \in [Calls -> Nat] /\ f[c] = Blocks(c) /\ SumFunction(f) = 0
  BY <1>1, CallTypes DEF AllBlocking
<1> HIDE DEF f
<1>3. f[c] <= 0 /\ f[c] \in Nat
  BY <1>1, <1>2, SumOfNaturals
<1> QED
  BY <1>2, <1>3

LEMMA FinishKept ==
  ASSUME TimingInv, NEW d \in Calls, FinishInv(d), UNCHANGED inputVars,
         started'[d] = started[d], finished'[d] = finished[d], verdict'[d] = verdict[d],
         now' \in Nat, now' >= now,
         ~sequential /\ AllBlocking = 0 => now' = now \/ started[d] # Never
  PROVE  FinishInv(d)'
<1>1. AllBlocking' = AllBlocking /\ batch' = batch /\ sequential' = sequential
  BY DEF AllBlocking, Blocks, Calls, inputVars
<1>2. finished[d] \in Int /\ now \in Nat
  BY ElapsedTypes
<1> QED
  BY <1>1, <1>2 DEF FinishInv

LEMMA CallKeepsFinish ==
  ASSUME TimingInv, NEW c \in Calls, CallStep(c), NEW d \in Calls, FinishInv(d)
  PROVE  FinishInv(d)'
<1>1. Untouched(c) /\ (Starts(c) \/ GoesOn(c) \/ GetsResult(c) \/ KeepsResult(c))
  BY CallResult
<1>2. /\ now \in Nat /\ finished[d] \in Int
      /\ AllBlocking = 0 => Blocks(c) = 0
      /\ now' \in Nat /\ now' >= now
  BY <1>1, ElapsedTypes, NothingBlocks DEF Starts, GoesOn, GetsResult, KeepsResult
<1>3. AllBlocking = 0 => now' = now
  BY <1>1, <1>2 DEF Starts, GoesOn, GetsResult, KeepsResult
<1>4. CASE d # c \/ GoesOn(c) \/ KeepsResult(c)
  BY <1>1, <1>2, <1>3, <1>4, FinishKept DEF Untouched, GoesOn, KeepsResult
<1>5. CASE d = c /\ (Starts(c) \/ GetsResult(c))
  <2>1. AllBlocking' = AllBlocking /\ batch' = batch /\ sequential' = sequential
    BY <1>1 DEF Untouched, AllBlocking, Blocks, Calls, inputVars
  <2>2. CASE Starts(c)
    BY <1>2, <1>5, <2>1, <2>2 DEF Starts, FinishInv, Never
  <2>3. CASE GetsResult(c)
    BY <1>2, <1>5, <2>1, <2>3 DEF GetsResult, FinishInv, Never
  <2> QED
    BY <1>5, <2>2, <2>3
<1> QED
  BY <1>1, <1>4, <1>5

LEMMA CallKeepsReport ==
  ASSUME TimingInv, ReportInv, NEW c \in Calls, CallStep(c)
  PROVE  ReportInv'
<1>1. /\ Untouched(c) /\ (Starts(c) \/ GoesOn(c) \/ GetsResult(c) \/ KeepsResult(c))
      /\ Calls' = Calls /\ report' = report
  BY CallResult DEF Untouched, Calls, inputVars
<1>2. \A d \in Calls : FinishInv(d)'
  BY CallKeepsFinish DEF ReportInv
<1>3. CASE Starts(c) \/ GoesOn(c)
  <2>1. ~AllFinished /\ ~AllFinished'
    BY <1>1, <1>3 DEF AllFinished, Starts, GoesOn
  <2> QED
    BY <1>1, <1>2, <2>1 DEF ReportInv, LastFinish, Reported
<1>4. CASE GetsResult(c)
  <2>1. ~AllFinished /\ finished'[c] = now'
    BY <1>1, <1>4 DEF AllFinished, GetsResult
  <2> QED
    BY <1>1, <1>2, <2>1 DEF ReportInv, LastFinish, Reported
<1>5. CASE KeepsResult(c)
  <2>1. \A d \in Calls : started'[d] = started[d] /\ finished'[d] = finished[d]
                         /\ verdict'[d] = verdict[d]
    BY <1>1, <1>5 DEF KeepsResult, Untouched
  <2>2. (AllFinished' <=> AllFinished) /\ Estimate' = Estimate /\ now' = now
    BY <1>1, <1>5, <2>1 DEF AllFinished, Estimate, Duration, KeepsResult
  <2> QED
    BY <1>1, <1>2, <2>1, <2>2 DEF ReportInv, LastFinish, Reported
<1> QED
  BY <1>1, <1>3, <1>4, <1>5

LEMMA SleepKeepsReport ==
  ASSUME TimingInv, WakeInv, TurnInv, ReportInv, NEW t \in timers, SleepUntil(t)
  PROVE  ReportInv'
<1>1. /\ ready = <<>> /\ now' = t.at
      /\ UNCHANGED <<inputVars, resultVars, report>>
  BY DEF SleepUntil
<1>2. ~AllFinished
  BY TimedUnderway DEF AllFinished
<1>3. /\ Calls' = Calls /\ (AllFinished' <=> AllFinished)
  BY <1>1 DEF AllFinished, Calls, inputVars, resultVars
<1>4. ASSUME NEW d \in Calls PROVE FinishInv(d)'
  <2>1. now' \in Nat /\ now' >= now
    <3>1. t.at \in Nat /\ now \in Nat
      BY <1>4, DelayTypes
    <3> QED
      BY <1>1, <3>1 DEF SleepUntil, Due
  <2>2. ~sequential => started[d] # Never
    BY <1>1 DEF TurnInv, Has
  <2> QED
    BY <1>1, <2>1, <2>2, FinishKept DEF ReportInv, resultVars
<1> QED
  BY <1>1, <1>2, <1>3, <1>4 DEF ReportInv, LastFinish, Reported

LEMMA InitReport == TimingInit => ReportInv /\ ClockCounted
<1> SUFFICES ASSUME TimingInit PROVE ReportInv /\ ClockCounted
  OBVIOUS
<1>1. TimingInv /\ TimingTypeOK /\ IsFiniteSet(Calls)
  BY InitTimingInv, CallsFinite DEF TimingInv
<1>2. 1 \in Calls
  BY BatchesTyped DEF TimingInit, Calls
<1>3. /\ now = 0 /\ report = NoReport
      /\ \A c \in Calls : /\ started[c] = Never /\ finished[c] = Never
                          /\ verdict[c] = "none"
  BY DEF TimingInit
<1>4. \A c \in Calls : FinishInv(c)
  BY <1>3 DEF FinishInv, Never
<1>5. ~AllFinished
  BY <1>2, <1>3 DEF AllFinished
<1>6. AllElapsed = 0
  <2> DEFINE f == [c \in Calls |-> Elapsed(c)]
  <2>1. f \in [Calls -> Int] /\ \A c \in Calls : f[c] = 0
    BY <1>3 DEF Elapsed
  <2> HIDE DEF f
  <2>2. SumFunction(f) = 0
    BY <1>1, <2>1, SumOfZeros
  <2> QED
    BY <2>2 DEF f, AllElapsed
<1> QED
  BY <1>3, <1>4, <1>5, <1>6 DEF ReportInv, LastFinish, Reported, ClockCounted

LEMMA NextKeepsReport ==
  TimingInv /\ WakeInv /\ TurnInv /\ ReportInv /\ [TimingNext]_tvars => ReportInv'
<1> SUFFICES ASSUME TimingInv, WakeInv, TurnInv, ReportInv, [TimingNext]_tvars
             PROVE  ReportInv'
  OBVIOUS
<1>1. ASSUME UNCHANGED <<inputVars, now, resultVars>>
      PROVE  /\ Calls' = Calls /\ (AllFinished' <=> AllFinished)
             /\ Estimate' = Estimate
             /\ (\A c \in Calls : FinishInv(c)') /\ LastFinish'
  <2>1. batch' = batch /\ sequential' = sequential /\ now' = now /\ started' = started
        /\ finished' = finished /\ verdict' = verdict
    BY <1>1 DEF inputVars, resultVars
  <2>2. AllBlocking' = AllBlocking
    BY <2>1 DEF AllBlocking, Blocks, Calls
  <2> QED
    BY <2>1, <2>2 DEF ReportInv, FinishInv, LastFinish, AllFinished, Estimate, Duration,
                      Calls
<1>2. ASSUME UNCHANGED <<inputVars, now, resultVars, report>> PROVE ReportInv'
  BY <1>1, <1>2 DEF ReportInv, Reported
<1>3. CASE \E c \in Calls : CallStep(c)
  BY <1>3, CallKeepsReport
<1>4. ASSUME NEW t \in timers, PollTimer(t) PROVE ReportInv'
  BY <1>2, <1>4 DEF PollTimer
<1>5. ASSUME NEW t \in timers, SleepUntil(t) PROVE ReportInv'
  BY <1>5, SleepKeepsReport
<1>6. CASE StartRound
  BY <1>2, <1>6 DEF StartRound
<1>7. CASE Report
  <2>1. PICK extra \in 0..Overhead :
          /\ AllFinished /\ report' = [wall |-> now + extra, estimate |-> Estimate]
          /\ UNCHANGED <<inputVars, now, resultVars>>
    BY <1>7 DEF Report, loopVars
  <2>2. now \in Nat /\ now + extra \in now..now + Overhead
    BY OverheadTyped DEF TimingInv, TimingTypeOK
  <2>3. report'.wall = now + extra /\ report'.estimate = Estimate
    BY <2>1
  <2> QED
    BY <1>1, <2>1, <2>2, <2>3 DEF ReportInv, Reported, inputVars
<1>8. CASE UNCHANGED tvars
  BY <1>2, <1>8 DEF tvars, loopVars
<1> QED
  BY <1>3, <1>4, <1>5, <1>6, <1>7, <1>8 DEF TimingNext, BatchStep, LoopStep, Rest

(* All that is known of a batch on the event loop.                         *)
WholeInv ==
  TimingInv /\ WakeInv /\ DelaysBounded /\ TurnInv /\ ClockCounted /\ ReportInv

LEMMA WholeInvHolds == TimingSpec => []WholeInv
<1>1. TimingInit => WholeInv
  BY InitTimingInv, InitWakeInv, InitDelays, InitTurnInv, InitReport DEF WholeInv
<1>2. WholeInv /\ [TimingNext]_tvars => WholeInv'
  BY NextKeepsTimingInv, NextKeepsWake, NextKeepsDelays, NextKeepsTurn, NextKeepsClock,
     NextKeepsReport
     DEF WholeInv
<1> QED
  BY <1>1, <1>2, PTL DEF TimingSpec

(* Once there is a report, the calls are counted with their durations, and *)
(* the wall time is the clock's, up to the overhead.                       *)
LEMMA ReportCounts ==
  ASSUME WholeInv, report # NoReport
  PROVE  /\ \A c \in Calls : verdict[c] # "none" /\ started[c] # Never
         /\ report.wall \in now..now + Overhead /\ report.estimate = Estimate
         /\ AllElapsed = Estimate
<1>1. AllFinished /\ report.wall \in now..now + Overhead /\ report.estimate = Estimate
  BY DEF WholeInv, ReportInv, Reported
<1>2. \A c \in Calls : verdict[c] # "none" /\ started[c] # Never
  BY <1>1 DEF AllFinished, WholeInv, TimingInv, CallInv, TaskInv
<1>3. [c \in Calls |-> Elapsed(c)] = [c \in Calls |-> Duration(c)]
  BY <1>2 DEF Elapsed
<1> QED
  BY <1>1, <1>2, <1>3 DEF AllElapsed, Estimate

(* WallTimeFits: no call is longer than the reported wall time, which is   *)
(* at most the sum of their durations and the overhead of the batch, since *)
(* the clock moves only while some call is under way; in sequential mode   *)
(* it is at least that sum (_run_batch).                                   *)
THEOREM ReportsFitTheCalls == TimingSpec => []WallTimeFits
<1>1. WholeInv => WallTimeFits
  <2> SUFFICES ASSUME WholeInv, report # NoReport
               PROVE  /\ \A c \in Calls : Duration(c) <= report.wall
                      /\ report.wall <= report.estimate + Overhead
                      /\ sequential => report.wall >= report.estimate
    BY DEF WallTimeFits
  <2>1. /\ \A c \in Calls : verdict[c] # "none" /\ started[c] # Never
        /\ report.wall \in now..now + Overhead /\ report.estimate = Estimate
        /\ AllElapsed = Estimate
    BY ReportCounts
  <2>2. now \in Nat /\ Overhead \in Nat /\ TimingInv
    BY OverheadTyped DEF WholeInv, TimingInv, TimingTypeOK
  <2>3. ASSUME NEW c \in Calls PROVE Duration(c) <= report.wall
    <3>1. finished[c] <= now /\ finished[c] \in Int /\ started[c] \in Nat
      BY <2>1, <2>2, ElapsedTypes, CallTypes DEF WholeInv, ReportInv, FinishInv, TimingInv
    <3> QED
      BY <2>1, <2>2, <3>1 DEF Duration
  <2>4. now <= AllElapsed /\ (sequential => now = AllElapsed)
    BY DEF WholeInv, ClockCounted
  <2>5. AllElapsed \in Int
    <3> DEFINE f == [c \in Calls |-> Elapsed(c)]
    <3>1. f \in [Calls -> Int] /\ IsFiniteSet(Calls)
      BY <2>2, ElapsedTypes, CallsFinite DEF TimingInv
    <3> HIDE DEF f
    <3>2. SumFunction(f) \in Int
      BY <3>1, SumOfIntegers
    <3> QED
      BY <3>2 DEF f, AllElapsed
  <2> QED
    BY <2>1, <2>2, <2>3, <2>4, <2>5
<1> QED
  BY <1>1, WholeInvHolds, PTL

(* If no tool blocks, a call takes its sleep or its limit.                 *)
LEMMA CooperativeDuration ==
  ASSUME WholeInv, AllBlocking = 0, NEW c \in Calls, verdict[c] # "none"
  PROVE  Duration(c) = IF batch[c].gives = "refused" THEN 0
                       ELSE Least(SleepOf(c), batch[c].limit)
<1>1. /\ TaskInv(c) /\ SoundAt(c) /\ DelayInv(c) /\ FinishInv(c) /\ TimingInv
      /\ verdict[c] \in Verdicts
  BY DEF WholeInv, TimingInv, CallInv, DelaysBounded, ReportInv, TimingTypeOK
<1>2. /\ SleepOf(c) \in Nat /\ batch[c].limit \in Nat /\ OwnTime(c) \in Nat
      /\ OwnTime(c) <= SleepOf(c) /\ OwnTime(c) <= batch[c].limit
      /\ Duration(c) \in Int /\ Blocks(c) = 0 /\ started[c] \in Int
  BY <1>1, DelayTypes, ElapsedTypes, NothingBlocks
<1>3. CASE verdict[c] = "refused"
  BY <1>1, <1>2, <1>3 DEF FinishInv, Duration
<1>4. CASE verdict[c] # "refused"
  <2>1. batch[c].gives # "refused" /\ verdict[c] \in {"ok", "error", "timeout"}
    BY <1>1, <1>4 DEF TaskInv, Verdicts
  <2>2. Duration(c) <= OwnTime(c)
    BY <1>1, <1>2 DEF DelayInv
  <2>3. Duration(c) >= OwnTime(c)
    BY <1>1, <1>2, <2>1 DEF SoundAt
  <2>4. Duration(c) = OwnTime(c)
    BY <1>2, <2>2, <2>3
  <2> QED
    BY <2>1, <2>4 DEF OwnTime
<1> QED
  BY <1>3, <1>4

(* CooperativeReport: if no tool blocks the loop, the report is exact up   *)
(* to the overhead: the wall time is the longest call's in parallel mode   *)
(* and the sum in sequential mode, as is the estimate.                     *)
THEOREM CooperativeReportsAreExact == TimingSpec => []CooperativeReport
<1>1. WholeInv => CooperativeReport
  <2> DEFINE length == [c \in Calls |->
                          IF batch[c].gives = "refused" THEN 0
                          ELSE Least(SleepOf(c), batch[c].limit)]
             S == {length[c] : c \in Calls}
  <2> SUFFICES ASSUME WholeInv, report # NoReport, AllBlocking = 0
               PROVE  /\ report.estimate = SumFunction(length)
                      /\ \E extra \in 0..Overhead :
                           report.wall =
                             extra + IF sequential THEN SumFunction(length) ELSE Max(S)
    BY DEF CooperativeReport
  <2>1. /\ \A c \in Calls : verdict[c] # "none" /\ started[c] # Never
        /\ report.wall \in now..now + Overhead /\ report.estimate = Estimate
        /\ AllElapsed = Estimate
    BY ReportCounts
  <2>2. length = [c \in Calls |-> Duration(c)]
    BY <2>1, CooperativeDuration
  <2> HIDE DEF length
  <2>3. Estimate = SumFunction(length)
    BY <2>2 DEF Estimate
  <2>4. sequential => now = AllElapsed
    BY DEF WholeInv, ClockCounted
  <2>5. ASSUME ~sequential PROVE Max(S) = now
    <3>1. \A c \in Calls : length[c] = finished[c] /\ finished[c] <= now /\ finished[c] \in Int
      <4> SUFFICES ASSUME NEW c \in Calls
                   PROVE  length[c] = finished[c] /\ finished[c] <= now
                          /\ finished[c] \in Int
        OBVIOUS
      <4>1. FinishInv(c) /\ TimingInv
        BY DEF WholeInv, ReportInv
      <4>2. started[c] = 0 /\ finished[c] <= now
        BY <2>1, <2>5, <4>1 DEF FinishInv
      <4>3. finished[c] \in Int
        BY <4>1, ElapsedTypes
      <4> QED
        BY <2>2, <4>2, <4>3 DEF Duration
    <3>2. \E c \in Calls : finished[c] = now
      BY <2>1 DEF WholeInv, ReportInv, LastFinish, AllFinished
    <3>3. now \in S /\ \A x \in S : x \in Int /\ now >= x
      BY <3>1, <3>2
    <3> HIDE DEF S
    <3>4. \A x \in S : (\A y \in S : x >= y) => x = now
      BY <3>3
    <3> QED
      BY <3>3, <3>4 DEF Max
  <2>6. now = IF sequential THEN SumFunction(length) ELSE Max(S)
    BY <2>1, <2>3, <2>4, <2>5
  <2>7. PICK extra \in 0..Overhead : report.wall = extra + now
    <3>1. now \in Nat /\ Overhead \in Nat
      BY OverheadTyped DEF WholeInv, TimingInv, TimingTypeOK
    <3>2. report.wall - now \in 0..Overhead
      BY <2>1, <3>1
    <3> QED
      BY <2>1, <3>1, <3>2
  <2> QED
    BY <2>1, <2>3, <2>6, <2>7
<1> QED
  BY <1>1, WholeInvHolds, PTL
=============================================================================
