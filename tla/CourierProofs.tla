----------------------------- MODULE CourierProofs -----------------------------
(***************************************************************************)
(* Three things of the courier's caches, for any number of replicas,       *)
(* envelopes and Copies, and whatever connections, documents and restarts  *)
(* do to them.  What a replica has answered with success stays in the      *)
(* dedup cache; the status InProgress stands for one worker; and a verdict *)
(* that clients poll is true of the replicas.  For the last one the format *)
(* of a copy stream is what matters, so its encoder and its decoder are    *)
(* shown to fit first, for streams of any length.                          *)
(***************************************************************************)
EXTENDS Courier, TLAPS, SequenceTheorems, FiniteSetTheorems, FunctionTheorems, WellFoundedInduction

(* What is needed of the types: the caches and the tasks are records that have the fields
   they are asked for, and a verdict in progress is written in one way. *)
IsEntry(entry) == "replies" \in DOMAIN entry

IsVerdict(v) ==
    /\ {"status", "old"} \subseteq DOMAIN v
    /\ v.status = "InProgress" => v \in InProgress

IsTask(w) == "at" \in DOMAIN w

DedupTyped ==
    /\ dedupCache = [e \in Envelopes |-> dedupCache[e]]
    /\ \A e \in Envelopes : dedupCache[e] # None => IsEntry(dedupCache[e])

VerdictsTyped ==
    /\ copyDedupCache = [c \in Caps |-> copyDedupCache[c]]
    /\ \A c \in Caps : copyDedupCache[c] # None => IsVerdict(copyDedupCache[c])

TasksTyped ==
    /\ tasks = [t \in Tasks |-> tasks[t]]
    /\ \A t \in Tasks : IsTask(tasks[t])

CopyInv    == VerdictsTyped /\ TasksTyped /\ InProgressIsWorking
CourierInv == DedupTyped /\ CopyInv

(***************************************************************************)
(* A Copy goes on from one attempt to the next until it has a verdict: no  *)
(* outcome of an attempt leaves it idle.                                   *)
(***************************************************************************)
GoesOn(w) == IsTask(w) /\ w.at \in {"pause", "failed", "succeeded"}

LEMMA NextShardGoesOn == ASSUME NEW w, IsTask(w) PROVE GoesOn(NextShard(w))
BY DEF NextShard, GoesOn, IsTask

LEMMA CopyAgainGoesOn == ASSUME NEW w, IsTask(w) PROVE GoesOn(CopyAgain(w))
<1>1. IsTask([w EXCEPT !.at = "pause", !.attempt = w.attempt + 1])
      /\ [w EXCEPT !.at = "pause", !.attempt = w.attempt + 1].at = "pause"
  BY DEF IsTask
<1>2. GoesOn([w EXCEPT !.at = "failed", !.code = "none"])
  BY DEF GoesOn, IsTask
<1> QED BY <1>1, <1>2, NextShardGoesOn DEF CopyAgain, GoesOn

LEMMA NextBoxGoesOn == ASSUME NEW c, NEW w, IsTask(w) PROVE GoesOn(NextBox(c, w))
<1>1. GoesOn([w EXCEPT !.at = "succeeded"])
  BY DEF GoesOn, IsTask
<1>2. GoesOn([w EXCEPT !.at = "failed", !.code = "none"])
  BY DEF GoesOn, IsTask
<1>3. GoesOn([w EXCEPT !.at = "pause", !.box = w.box + 1, !.shard = 1, !.attempt = 0])
  BY DEF GoesOn, IsTask
<1> QED BY <1>1, <1>2, <1>3 DEF NextBox

LEMMA BoxReadGoesOn == ASSUME NEW c, NEW w, NEW code, IsTask(w) PROVE GoesOn(BoxRead(c, w, code))
<1> DEFINE got     == IF code = "data" THEN Stream(c)[w.box].data ELSE <<>>
           decoded == Decode(w.buffer \o got)
           next    == [w EXCEPT !.buffer = decoded.rest, !.ready = decoded.envelopes,
                                !.attempt = 0, !.code = "none"]
<1>1. BoxRead(c, w, code) =
         IF decoded.failed THEN [w EXCEPT !.at = "failed", !.code = "none"]
         ELSE IF decoded.envelopes = <<>> THEN NextBox(c, next)
         ELSE [next EXCEPT !.at = "pause"]
  BY DEF BoxRead
<1>2. GoesOn([w EXCEPT !.at = "failed", !.code = "none"])
  BY DEF GoesOn, IsTask
<1> HIDE DEF decoded
<1>3. IsTask(next)
  BY DEF IsTask
<1>4. GoesOn([next EXCEPT !.at = "pause"])
  BY <1>3 DEF GoesOn, IsTask
<1> HIDE DEF next
<1> QED BY <1>1, <1>2, <1>3, <1>4, NextBoxGoesOn

LEMMA EnvelopeCopiedGoesOn == ASSUME NEW c, NEW w, IsTask(w) PROVE GoesOn(EnvelopeCopied(c, w))
<1> DEFINE next == [w EXCEPT !.ready = Tail(w.ready), !.done = w.done + 1, !.attempt = 0]
<1>1. EnvelopeCopied(c, w) =
         IF next.ready = <<>> THEN NextBox(c, next) ELSE [next EXCEPT !.at = "pause"]
  BY DEF EnvelopeCopied
<1>2. IsTask(next)
  BY DEF IsTask
<1>3. GoesOn([next EXCEPT !.at = "pause"])
  BY <1>2 DEF GoesOn, IsTask
<1> HIDE DEF next
<1> QED BY <1>1, <1>2, <1>3, NextBoxGoesOn

LEMMA CopyRepliesGoesOn ==
    ASSUME NEW c, NEW w, NEW replies, IsTask(w)
    PROVE  GoesOn(CopyReplies(c, w, replies))
<1>1. \A code : IsTask([w EXCEPT !.code = code])
  BY DEF IsTask
<1>2. \A code : GoesOn([w EXCEPT !.at = "failed", !.code = code])
  BY DEF GoesOn, IsTask
<1>3. CASE w.ready # <<>>
  BY <1>2, <1>3, CopyAgainGoesOn, EnvelopeCopiedGoesOn DEF CopyReplies
<1>4. CASE w.ready = <<>>
  BY <1>1, <1>4, CopyAgainGoesOn, BoxReadGoesOn, NextShardGoesOn DEF CopyReplies
<1> QED BY <1>3, <1>4

(* The tombstones are written without a verdict. *)
LEMMA EraseNextGoesOn ==
    ASSUME NEW c, NEW w, IsTask(w)
    PROVE  LET v == EraseNext(c, w) IN IsTask(v) /\ v.at \in {"pause", "idle"}
<1>1. IsTask(IdleTask) /\ IdleTask.at = "idle"
  BY DEF IsTask, IdleTask
<1>2. IsTask([w EXCEPT !.at = "pause", !.box = w.box + 1, !.attempt = 0])
      /\ [w EXCEPT !.at = "pause", !.box = w.box + 1, !.attempt = 0].at = "pause"
  BY DEF IsTask
<1> QED BY <1>1, <1>2 DEF EraseNext

LEMMA EraseRepliesGoesOn ==
    ASSUME NEW c, NEW w, NEW replies, IsTask(w)
    PROVE  LET v == EraseReplies(c, w, replies) IN IsTask(v) /\ v.at \in {"pause", "idle"}
<1>1. IsTask([w EXCEPT !.at = "pause", !.attempt = w.attempt + 1])
      /\ [w EXCEPT !.at = "pause", !.attempt = w.attempt + 1].at = "pause"
  BY DEF IsTask
<1> QED BY <1>1, EraseNextGoesOn DEF EraseReplies

(***************************************************************************)
(* The status InProgress stands for one worker.                            *)
(***************************************************************************)
LEMMA TaskForms ==
    ASSUME NEW t \in Tasks
    PROVE  \/ \E e \in Envelopes : t = <<"query", e>>
           \/ \E c \in Caps : t = <<"copy", c>>
           \/ \E c \in Caps : t = <<"erase", c>>
BY DEF Tasks

LEMMA TaskNames ==
    /\ \A e \in Envelopes : <<"query", e>> \in Tasks
    /\ \A c \in Caps : <<"copy", c>> \in Tasks /\ <<"erase", c>> \in Tasks
BY DEF Tasks

LEMMA CourierInit == Init => CourierInv
<1> SUFFICES ASSUME Init PROVE CourierInv
  OBVIOUS
<1>1. DedupTyped
  BY DEF Init, DedupTyped
<1>2. VerdictsTyped
  BY DEF Init, VerdictsTyped
<1>3. TasksTyped /\ \A t \in Tasks : tasks[t].at = "idle"
  BY DEF Init, TasksTyped, IsTask, IdleTask
<1>4. InProgressIsWorking
  BY <1>3, TaskNames DEF Init, InProgressIsWorking
<1> QED BY <1>1, <1>2, <1>3, <1>4 DEF CourierInv, CopyInv

(* Tasks that move while every Copy stays at work or idle. *)
LEMMA TasksMove ==
    ASSUME CopyInv, copyDedupCache' = copyDedupCache, tasks' = [t \in Tasks |-> tasks'[t]],
           \A t \in Tasks : IsTask(tasks'[t]),
           \A c \in Caps : tasks'[<<"copy", c>>].at = "idle" <=> tasks[<<"copy", c>>].at = "idle"
    PROVE  CopyInv'
<1>1. VerdictsTyped'
  BY DEF CopyInv, VerdictsTyped
<1>2. TasksTyped'
  BY DEF TasksTyped
<1>3. InProgressIsWorking'
  BY DEF CopyInv, InProgressIsWorking
<1> QED BY <1>1, <1>2, <1>3 DEF CopyInv

(* One task that moves and stays at work, if it is a Copy. *)
LEMMA TaskMoves ==
    ASSUME CopyInv, copyDedupCache' = copyDedupCache, NEW t, NEW w, IsTask(w),
           tasks' = [tasks EXCEPT ![t] = w],
           t[1] = "copy" => tasks[t].at # "idle" /\ w.at # "idle"
    PROVE  CopyInv'
<1>1. tasks = [u \in Tasks |-> tasks[u]] /\ \A u \in Tasks : IsTask(tasks[u])
  BY DEF CopyInv, TasksTyped
<1>2. tasks' = [u \in Tasks |-> tasks'[u]] /\ \A u \in Tasks : IsTask(tasks'[u])
  BY <1>1
<1>3. ASSUME NEW c \in Caps
      PROVE  tasks'[<<"copy", c>>].at = "idle" <=> tasks[<<"copy", c>>].at = "idle"
  <2>1. <<"copy", c>> \in Tasks
    BY TaskNames
  <2>2. CASE t = <<"copy", c>>
    BY <1>1, <2>1, <2>2
  <2>3. CASE t # <<"copy", c>>
    BY <1>1, <2>1, <2>3
  <2> QED BY <2>2, <2>3
<1> QED BY <1>2, <1>3, TasksMove

(* An attempt ends: the task goes on, or it is a Copy that gets its verdict. *)
LEMMA SettleKeeps ==
    ASSUME CopyInv, NEW t \in Tasks, NEW w, IsTask(w), Settle(t, w),
           t[1] = "copy" => tasks[t].at # "idle" /\ w.at # "idle",
           t[1] = "erase" => w.at \notin {"failed", "succeeded"}
    PROVE  CopyInv'
<1>1. CASE w.at \notin {"failed", "succeeded"}
  <2>1. tasks' = [tasks EXCEPT ![t] = w] /\ copyDedupCache' = copyDedupCache
    BY <1>1 DEF Settle
  <2> QED BY <2>1, TaskMoves
<1>2. CASE w.at \in {"failed", "succeeded"}
  <2> DEFINE c == Owner(t)
             verdict == IF w.at = "succeeded"
                        THEN [status |-> "Succeeded", code |-> "none", index |-> 0, old |-> FALSE]
                        ELSE [status |-> "Failed", code |-> w.code, index |-> w.done + 1, old |-> FALSE]
  <2>1. copyDedupCache' = [copyDedupCache EXCEPT ![c] = verdict]
    BY <1>2 DEF Settle
  <2>2. tasks = [u \in Tasks |-> tasks[u]] /\ \A u \in Tasks : IsTask(tasks[u])
    BY DEF CopyInv, TasksTyped
  <2>3. <<"erase", c>> # t
    BY <1>2
  <2>4. tasks' = [tasks EXCEPT ![t] = IdleTask, ![<<"erase", c>>] =
                     IF w.at = "succeeded" /\ @.at = "idle"
                     THEN [IdleTask EXCEPT !.at = "pause"] ELSE @]
    BY <1>2 DEF Settle
  <2>5. /\ tasks' = [u \in Tasks |-> tasks'[u]]
        /\ tasks'[t] = IdleTask
        /\ \A u \in Tasks \ {t, <<"erase", c>>} : tasks'[u] = tasks[u]
        /\ <<"erase", c>> \in Tasks =>
              tasks'[<<"erase", c>>] \in {[IdleTask EXCEPT !.at = "pause"], tasks[<<"erase", c>>]}
    <3>1. tasks' = [u \in Tasks |->
                      IF u = <<"erase", c>>
                      THEN IF w.at = "succeeded" /\ tasks[u].at = "idle"
                           THEN [IdleTask EXCEPT !.at = "pause"] ELSE tasks[u]
                      ELSE IF u = t THEN IdleTask ELSE tasks[u]]
      BY <2>2, <2>3, <2>4
    <3> HIDE DEF c
    <3> QED BY <2>3, <3>1
  <2>6. IsTask(IdleTask) /\ IsTask([IdleTask EXCEPT !.at = "pause"]) /\ IdleTask.at = "idle"
    BY DEF IsTask, IdleTask
  <2>7. TasksTyped'
    <3>1. \A u \in Tasks : IsTask(tasks'[u])
      BY <2>2, <2>5, <2>6
    <3> QED BY <2>5, <3>1 DEF TasksTyped
  <2>8. IsVerdict(verdict) /\ verdict.status # "InProgress"
    BY DEF IsVerdict
  <2>9. copyDedupCache = [d \in Caps |-> copyDedupCache[d]]
    BY DEF CopyInv, VerdictsTyped
  <2>10. /\ copyDedupCache' = [d \in Caps |-> copyDedupCache'[d]]
         /\ \A d \in Caps : copyDedupCache'[d] = IF d = c THEN verdict ELSE copyDedupCache[d]
    <3> HIDE DEF verdict, c
    <3> QED BY <2>1, <2>9
  <2>11. VerdictsTyped'
    <3> HIDE DEF verdict, c
    <3> QED BY <2>8, <2>10 DEF CopyInv, VerdictsTyped
  <2>12. ASSUME NEW d \in Caps
         PROVE  tasks'[<<"copy", d>>].at # "idle"
                <=> copyDedupCache'[d] # None /\ copyDedupCache'[d].status = "InProgress"
    <3>1. <<"copy", d>> \in Tasks /\ <<"copy", d>> # <<"erase", c>>
      BY TaskNames
    <3>2. CASE t = <<"copy", d>>
      <4>1. c = d
        BY <3>2 DEF Owner
      <4> HIDE DEF verdict, c
      <4> QED BY <2>5, <2>6, <2>8, <2>10, <3>1, <3>2, <4>1
    <3>3. CASE t # <<"copy", d>>
      <4>1. c # d
        <5>1. CASE \E e \in Envelopes : t = <<"query", e>>
          BY <5>1, CourierAssumption DEF Owner
        <5>2. CASE \E b \in Caps : t = <<"copy", b>>
          BY <3>3, <5>2 DEF Owner
        <5> QED BY <1>2, <5>1, <5>2, TaskForms
      <4>2. tasks'[<<"copy", d>>] = tasks[<<"copy", d>>] /\ copyDedupCache'[d] = copyDedupCache[d]
        <5> HIDE DEF verdict, c
        <5> QED BY <2>5, <2>10, <3>1, <3>3, <4>1
      <4> QED BY <4>2 DEF CopyInv, InProgressIsWorking
    <3> QED BY <3>2, <3>3
  <2>13. InProgressIsWorking'
    BY <2>12 DEF InProgressIsWorking
  <2> QED BY <2>7, <2>11, <2>13 DEF CopyInv
<1> QED BY <1>1, <1>2

(* The goroutines.  A Copy that begins an attempt, sends or collects is at work. *)
LEMMA WorkKeeps ==
    ASSUME CopyInv, NEW t \in Tasks, Work(t)
    PROVE  CopyInv'
<1> DEFINE w == tasks[t]
<1>1. IsTask(w)
  BY DEF CopyInv, TasksTyped
<1>2. tasks = [u \in Tasks |-> tasks[u]]
  BY DEF CopyInv, TasksTyped
<1>4. ASSUME Begin(t) PROVE CopyInv'
  <2>1. w.at = "pause"
    BY <1>4 DEF Begin
  <2>2. CASE Targets(t, w) = <<>>
    <3>1. CASE t[1] = "erase"
      <4> DEFINE v == EraseNext(Owner(t), w)
      <4>1. Settle(t, v)
        BY <1>4, <2>2, <3>1 DEF Begin
      <4>2. IsTask(v) /\ v.at \in {"pause", "idle"}
        BY <1>1, EraseNextGoesOn
      <4> HIDE DEF v
      <4> QED BY <3>1, <4>1, <4>2, SettleKeeps
    <3>2. CASE t[1] # "erase"
      <4> DEFINE v == NextShard(w)
      <4>1. Settle(t, v)
        BY <1>4, <2>2, <3>2 DEF Begin
      <4>2. IsTask(v) /\ v.at \in {"pause", "failed", "succeeded"}
        BY <1>1, NextShardGoesOn DEF GoesOn
      <4> HIDE DEF v
      <4> QED BY <2>1, <3>2, <4>1, <4>2, SettleKeeps
    <3> QED BY <3>1, <3>2
  <2>3. CASE Targets(t, w) # <<>>
    <3> DEFINE v == [w EXCEPT !.at = "send", !.todo = Targets(t, w), !.chan = <<>>,
                              !.want = Len(Targets(t, w))]
    <3>1. tasks' = [tasks EXCEPT ![t] = v] /\ copyDedupCache' = copyDedupCache
      BY <1>4, <2>3 DEF Begin
    <3>2. IsTask(v) /\ v.at = "send"
      BY <1>1 DEF IsTask
    <3> HIDE DEF v
    <3> QED BY <2>1, <3>1, <3>2, TaskMoves
  <2> QED BY <2>2, <2>3
<1>5. ASSUME Send(t) PROVE CopyInv'
  <2> DEFINE r == Head(w.todo)
  <2>1. w.at \in {"send", "stuck"}
    BY <1>5 DEF Send
  <2>2. IsTask(Sent(t, w)) /\ (t[1] = "copy" => Sent(t, w).at \in {"send", "wait"})
    BY <1>1 DEF Sent, IsTask, IdleTask
  <2>3. IsTask(IdleTask)
    BY DEF IsTask, IdleTask
  <2>4. CASE t[1] = "copy" /\ Settle(t, CopyAgain(w))
    <3> DEFINE v == CopyAgain(w)
    <3>1. IsTask(v) /\ v.at \in {"pause", "failed", "succeeded"}
      BY <1>1, CopyAgainGoesOn DEF GoesOn
    <3> HIDE DEF v
    <3> QED BY <2>1, <2>4, <3>1, SettleKeeps DEF v
  <2>5. CASE /\ t[1] # "copy" /\ copyDedupCache' = copyDedupCache
             /\ tasks' = [tasks EXCEPT ![t] = IF t[1] = "query" THEN IdleTask ELSE Sent(t, w)]
    BY <2>2, <2>3, <2>5, TaskMoves
  <2>6. CASE tasks' = [tasks EXCEPT ![t] = Sent(t, w)] /\ copyDedupCache' = copyDedupCache
    BY <2>1, <2>2, <2>6, TaskMoves
  <2>7. CASE tasks' = [tasks EXCEPT ![t].at = "stuck"] /\ copyDedupCache' = copyDedupCache
    <3>1. tasks' = [tasks EXCEPT ![t] = [w EXCEPT !.at = "stuck"]]
      BY <1>2, <2>7
    <3>2. IsTask([w EXCEPT !.at = "stuck"]) /\ [w EXCEPT !.at = "stuck"].at = "stuck"
      BY <1>1 DEF IsTask
    <3> QED BY <2>1, <2>7, <3>1, <3>2, TaskMoves
  <2> QED BY <1>5, <2>4, <2>5, <2>6, <2>7 DEF Send
<1>6. ASSUME Collect(t) PROVE CopyInv'
  <2> DEFINE replies == SubSeq(w.chan, 1, IF Len(w.chan) < w.want THEN Len(w.chan) ELSE w.want)
  <2>1. w.at = "wait"
    BY <1>6 DEF Collect
  <2>2. CASE t[1] = "copy"
    <3> DEFINE v == CopyReplies(Owner(t), w, replies)
    <3>1. Settle(t, v)
      BY <1>6, <2>2 DEF Collect
    <3>2. IsTask(v) /\ v.at \in {"pause", "failed", "succeeded"}
      BY <1>1, CopyRepliesGoesOn DEF GoesOn
    <3> HIDE DEF v
    <3> QED BY <2>1, <2>2, <3>1, <3>2, SettleKeeps
  <2>3. CASE t[1] # "copy"
    <3> DEFINE v == EraseReplies(Owner(t), w, replies)
    <3>1. Settle(t, v)
      BY <1>6, <2>3 DEF Collect
    <3>2. IsTask(v) /\ v.at \in {"pause", "idle"}
      BY <1>1, EraseRepliesGoesOn
    <3> HIDE DEF v
    <3> QED BY <2>3, <3>1, <3>2, SettleKeeps
  <2> QED BY <2>2, <2>3
<1> QED BY <1>4, <1>5, <1>6 DEF Work

(* A client starts a Copy, and drops the verdicts that have expired. *)
LEMMA CopyKeeps ==
    ASSUME CopyInv, NEW c \in Caps, Copy(c)
    PROVE  CopyInv'
<1> DEFINE fresh == [status |-> "InProgress", code |-> "none", index |-> 0, old |-> FALSE]
           w     == [IdleTask EXCEPT !.at = "pause"]
<1>1. /\ copyDedupCache' = [d \in Caps |-> IF d = c THEN fresh
                              ELSE IF Expired(copyDedupCache[d]) THEN None ELSE copyDedupCache[d]]
      /\ tasks' = [tasks EXCEPT ![<<"copy", c>>] = w]
  BY DEF Copy
<1>2. fresh \in InProgress /\ fresh # None /\ IsVerdict(fresh) /\ fresh.status = "InProgress"
  <2>1. fresh \in InProgress /\ fresh.status = "InProgress"
    BY DEF InProgress
  <2>2. {"status", "old"} \subseteq DOMAIN fresh
    OBVIOUS
  <2> QED BY <2>1, <2>2, CourierAssumption DEF IsVerdict
<1>3. IsTask(w) /\ w.at = "pause"
  BY DEF IsTask, IdleTask
<1> HIDE DEF fresh, w
<1>4. VerdictsTyped'
  BY <1>1, <1>2 DEF CopyInv, VerdictsTyped
<1>5. tasks = [u \in Tasks |-> tasks[u]] /\ <<"copy", c>> \in Tasks
  BY TaskNames DEF CopyInv, TasksTyped
<1>6. /\ tasks' = [u \in Tasks |-> tasks'[u]] /\ tasks'[<<"copy", c>>] = w
      /\ \A u \in Tasks \ {<<"copy", c>>} : tasks'[u] = tasks[u]
  BY <1>1, <1>5
<1>7. TasksTyped'
  BY <1>3, <1>6 DEF CopyInv, TasksTyped
<1>8. ASSUME NEW d \in Caps
      PROVE  tasks'[<<"copy", d>>].at # "idle"
             <=> copyDedupCache'[d] # None /\ copyDedupCache'[d].status = "InProgress"
  <2>1. CASE d = c
    BY <1>1, <1>2, <1>3, <1>6, <2>1
  <2>2. CASE d # c
    <3>1. <<"copy", d>> \in Tasks /\ <<"copy", d>> # <<"copy", c>>
      BY <2>2, TaskNames
    <3>2. tasks'[<<"copy", d>>] = tasks[<<"copy", d>>]
      BY <1>6, <3>1
    <3>3. copyDedupCache'[d] = IF Expired(copyDedupCache[d]) THEN None ELSE copyDedupCache[d]
      BY <1>1, <2>2
    <3> QED BY <3>2, <3>3 DEF CopyInv, InProgressIsWorking, Expired
  <2> QED BY <2>1, <2>2
<1>9. InProgressIsWorking'
  BY <1>8 DEF InProgressIsWorking
<1> QED BY <1>4, <1>7, <1>9 DEF CopyInv

(* The dispatch of an envelope is a task of its own. *)
LEMMA QueryMoves ==
    ASSUME CopyInv, copyDedupCache' = copyDedupCache, NEW e, NEW w, IsTask(w),
           tasks' = [tasks EXCEPT ![<<"query", e>>] = w]
    PROVE  CopyInv'
BY TaskMoves

LEMMA TypedTasks ==
    ASSUME CopyInv
    PROVE  tasks = [t \in Tasks |-> tasks[t]] /\ \A t \in Tasks : IsTask(tasks[t])
BY DEF CopyInv, TasksTyped

LEMMA ClientKeeps ==
    ASSUME CopyInv,
           \E e \in Envelopes : Acquire(e) \/ \E i \in 1..2 : Ask(e, i)
    PROVE  CopyInv'
<1>1. PICK e \in Envelopes : Acquire(e) \/ \E i \in 1..2 : Ask(e, i)
  OBVIOUS
<1> DEFINE t == <<"query", e>>
<1>2. t \in Tasks /\ IsTask(tasks[t]) /\ copyDedupCache' = copyDedupCache
  <2>1. copyDedupCache' = copyDedupCache
    BY <1>1 DEF Acquire, Ask, caches
  <2> QED BY <2>1, TaskNames, TypedTasks
<1>3. \/ tasks' = tasks
      \/ tasks' = [tasks EXCEPT ![t].at = "send"]
      \/ tasks' = [tasks EXCEPT ![t].at = "queued", ![t].todo = Intermediates[e]]
  BY <1>1 DEF Acquire, Ask, Schedule
<1>4. \/ tasks' = [tasks EXCEPT ![t] = tasks[t]]
      \/ tasks' = [tasks EXCEPT ![t] = [tasks[t] EXCEPT !.at = "send"]]
      \/ tasks' = [tasks EXCEPT ![t] = [tasks[t] EXCEPT !.at = "queued", !.todo = Intermediates[e]]]
  <2>1. tasks = [u \in Tasks |-> tasks[u]]
    BY TypedTasks
  <2> HIDE DEF t
  <2> QED BY <1>2, <1>3, <2>1
<1>5. /\ IsTask([tasks[t] EXCEPT !.at = "send"])
      /\ IsTask([tasks[t] EXCEPT !.at = "queued", !.todo = Intermediates[e]])
  BY <1>2 DEF IsTask
<1> QED BY <1>2, <1>4, <1>5, QueryMoves

(* A connection: it delivers replies, and takes the room from those who wait for it. *)
LEMMA ConnectionKeeps ==
    ASSUME CopyInv, NEW r \in Replicas, Answer(r) \/ Leave(r)
    PROVE  CopyInv'
<1>1. tasks = [t \in Tasks |-> tasks[t]] /\ \A t \in Tasks : IsTask(tasks[t])
  BY TypedTasks
<1>2. copyDedupCache' = copyDedupCache
  BY DEF Answer, Leave, caches
<1>3. CASE Answer(r)
  <2>1. PICK t, code : tasks' \in {tasks, [tasks EXCEPT ![t].chan = Append(@, code)]}
    <3>1. PICK code : LET h == Head(conns[r].wire) t == copyCache[h]
                      IN  tasks' = tasks \/ tasks' = [tasks EXCEPT ![t].chan = Append(@, code)]
      BY <1>3 DEF Answer
    <3> QED BY <3>1
  <2>2. tasks' = [u \in Tasks |-> tasks'[u]]
    BY <1>1, <2>1
  <2>3. ASSUME NEW u \in Tasks PROVE IsTask(tasks'[u]) /\ tasks'[u].at = tasks[u].at
    <3>1. CASE tasks' = tasks
      BY <1>1, <3>1
    <3>2. CASE tasks' = [tasks EXCEPT ![t].chan = Append(@, code)]
      <4>1. tasks'[u] = tasks[u] \/ tasks'[u] = [tasks[u] EXCEPT !.chan = Append(@, code)]
        BY <1>1, <3>2
      <4>2. IsTask(tasks[u])
        BY <1>1
      <4> QED BY <4>1, <4>2 DEF IsTask
    <3> QED BY <2>1, <3>1, <3>2
  <2> QED BY <1>2, <2>2, <2>3, TasksMove, TaskNames
<1>4. CASE Leave(r)
  <2>1. tasks' = [t \in Tasks |-> IF tasks[t].at = "stuck" /\ Head(tasks[t].todo) = r
                                  THEN [tasks[t] EXCEPT !.at = "wedged"] ELSE tasks[t]]
    BY <1>4 DEF Leave
  <2>2. ASSUME NEW u \in Tasks
        PROVE  IsTask(tasks'[u]) /\ (tasks'[u].at = "idle" <=> tasks[u].at = "idle")
    <3>1. \/ tasks'[u] = tasks[u]
          \/ tasks[u].at = "stuck" /\ tasks'[u] = [tasks[u] EXCEPT !.at = "wedged"]
      BY <2>1
    <3>2. IsTask(tasks[u])
      BY <1>1
    <3> QED BY <3>1, <3>2 DEF IsTask
  <2>3. tasks' = [t \in Tasks |-> tasks'[t]]
    BY <2>1
  <2> QED BY <1>2, <2>2, <2>3, TasksMove, TaskNames
<1> QED BY <1>3, <1>4

(* Time passes for the verdicts, a restart forgets them with the work. *)
LEMMA CourierAges ==
    ASSUME CopyInv, Age \/ Restart
    PROVE  CopyInv'
<1>1. CASE Age
  <2>1. /\ copyDedupCache' = [c \in Caps |-> IF copyDedupCache[c] = None THEN None
                                             ELSE [copyDedupCache[c] EXCEPT !.old = TRUE]]
        /\ tasks' = tasks
    BY <1>1 DEF Age
  <2>2. ASSUME NEW c \in Caps, copyDedupCache[c] # None
        PROVE  /\ IsVerdict(copyDedupCache'[c]) /\ copyDedupCache'[c].status = copyDedupCache[c].status
               /\ copyDedupCache[c].status = "InProgress" => copyDedupCache'[c] # None
    <3>1. copyDedupCache'[c] = [copyDedupCache[c] EXCEPT !.old = TRUE] /\ IsVerdict(copyDedupCache[c])
      BY <2>1, <2>2 DEF CopyInv, VerdictsTyped
    <3>2. /\ {"status", "old"} \subseteq DOMAIN copyDedupCache'[c]
          /\ copyDedupCache'[c].status = copyDedupCache[c].status
      BY <3>1 DEF IsVerdict
    <3>3. copyDedupCache[c].status = "InProgress" => copyDedupCache'[c] \in InProgress
      BY <3>1 DEF IsVerdict, InProgress
    <3> QED BY <3>2, <3>3, CourierAssumption DEF IsVerdict
  <2>3. VerdictsTyped'
    BY <2>1, <2>2 DEF CopyInv, VerdictsTyped
  <2>4. InProgressIsWorking'
    BY <2>1, <2>2 DEF CopyInv, InProgressIsWorking
  <2>5. TasksTyped'
    BY <2>1 DEF CopyInv, TasksTyped
  <2> QED BY <2>3, <2>4, <2>5 DEF CopyInv
<1>2. CASE Restart
  <2>1. copyDedupCache' = [c \in Caps |-> None] /\ tasks' = [t \in Tasks |-> IdleTask]
    BY <1>2 DEF Restart
  <2>2. VerdictsTyped'
    BY <2>1 DEF VerdictsTyped
  <2>3. TasksTyped' /\ \A t \in Tasks : tasks'[t].at = "idle"
    BY <2>1 DEF TasksTyped, IsTask, IdleTask
  <2>4. InProgressIsWorking'
    BY <2>1, <2>3, TaskNames DEF InProgressIsWorking
  <2> QED BY <2>2, <2>3, <2>4 DEF CopyInv
<1> QED BY <1>1, <1>2

LEMMA CopyStutters ==
    ASSUME CopyInv, UNCHANGED <<copyDedupCache, tasks>>
    PROVE  CopyInv'
BY DEF CopyInv, VerdictsTyped, TasksTyped, InProgressIsWorking

(***************************************************************************)
(* The dedup cache.                                                        *)
(***************************************************************************)
(* A reply replaces what is no success. *)
LEMMA CacheReplyStays ==
    ASSUME DedupTyped, NEW e, NEW from, NEW code, CacheReply(e, from, code)
    PROVE  DedupTyped' /\ Stays
<1>1. CASE dedupCache' = dedupCache
  BY <1>1 DEF DedupTyped, Stays
<1>2. CASE dedupCache[e] # None
  <2> DEFINE new == [i \in 1..2 |-> IF Intermediates[e][i] = from
                                       /\ Replaces(dedupCache[e].replies[i], code)
                                    THEN code ELSE dedupCache[e].replies[i]]
  <2>1. dedupCache' = [dedupCache EXCEPT ![e].replies =
                          [i \in 1..2 |-> IF Intermediates[e][i] = from /\ Replaces(@[i], code)
                                          THEN code ELSE @[i]]]
    BY <1>2 DEF CacheReply
  <2>2. /\ dedupCache' = [d \in Envelopes |-> dedupCache'[d]]
        /\ \A d \in Envelopes : dedupCache'[d] =
              IF d = e THEN [dedupCache[e] EXCEPT !.replies = new] ELSE dedupCache[d]
    BY <2>1 DEF DedupTyped
  <2>3. \A i \in 1..2 : dedupCache[e].replies[i] = "ok" => new[i] = "ok"
    BY DEF Replaces
  <2>4. ASSUME e \in Envelopes
        PROVE  LET entry == [dedupCache[e] EXCEPT !.replies = new]
               IN  IsEntry(entry) /\ entry.replies = new
    <3>1. IsEntry(dedupCache[e])
      BY <1>2, <2>4 DEF DedupTyped
    <3> HIDE DEF new
    <3> QED BY <3>1 DEF IsEntry
  <2> HIDE DEF new
  <2>5. DedupTyped'
    BY <2>2, <2>4 DEF DedupTyped
  <2>6. Stays
    BY <2>2, <2>3, <2>4 DEF Stays
  <2> QED BY <2>5, <2>6
<1> QED BY <1>1, <1>2 DEF CacheReply

(* The answer of a task that waits for it leaves the cache alone. *)
LEMMA AnswerStays ==
    ASSUME DedupTyped, NEW r \in Replicas, Answer(r)
    PROVE  DedupTyped' /\ Stays
<1>1. \/ dedupCache' = dedupCache
      \/ \E e, from, code : CacheReply(e, from, code)
  BY DEF Answer
<1>2. dedupCache' = dedupCache => DedupTyped' /\ Stays
  BY DEF DedupTyped, Stays
<1> QED BY <1>1, <1>2, CacheReplyStays

(* A client's request makes an entry where there is none, and drops those that are old. *)
LEMMA AskStays ==
    ASSUME DedupTyped, NEW e \in Envelopes, NEW i \in 1..2, Ask(e, i)
    PROVE  DedupTyped' /\ Stays
<1> DEFINE entry == [old |-> FALSE, replies |-> <<None, None>>]
<1>1. CASE dedupCache' = dedupCache
  BY <1>1 DEF DedupTyped, Stays
<1>2. CASE /\ dedupCache[e] = None
           /\ dedupCache' = [d \in Envelopes |-> IF d = e THEN entry
                ELSE IF dedupCache[d] # None /\ dedupCache[d].old THEN None ELSE dedupCache[d]]
  <2>1. IsEntry(entry)
    BY DEF IsEntry
  <2> HIDE DEF entry
  <2>2. DedupTyped'
    BY <1>2, <2>1 DEF DedupTyped
  <2>3. Stays
    BY <1>2 DEF Stays
  <2> QED BY <2>2, <2>3
<1> QED BY <1>1, <1>2 DEF Ask

LEMMA AgeStays ==
    ASSUME DedupTyped, Age \/ Restart
    PROVE  DedupTyped' /\ Stays
<1>1. CASE Age
  <2>1. dedupCache' = [e \in Envelopes |-> IF dedupCache[e] = None THEN None
                                           ELSE [dedupCache[e] EXCEPT !.old = TRUE]]
    BY <1>1 DEF Age
  <2>2. ASSUME NEW e \in Envelopes, dedupCache[e] # None
        PROVE  IsEntry(dedupCache'[e]) /\ dedupCache'[e].replies = dedupCache[e].replies
    <3>1. IsEntry(dedupCache[e]) /\ dedupCache'[e] = [dedupCache[e] EXCEPT !.old = TRUE]
      BY <2>1, <2>2 DEF DedupTyped
    <3> QED BY <3>1 DEF IsEntry
  <2>3. DedupTyped'
    BY <2>1, <2>2 DEF DedupTyped
  <2>4. Stays
    BY <2>2 DEF Stays
  <2> QED BY <2>3, <2>4
<1>2. CASE Restart
  BY <1>2 DEF Restart, DedupTyped, Stays
<1> QED BY <1>1, <1>2

LEMMA DedupStep ==
    ASSUME DedupTyped, [Next]_vars
    PROVE  DedupTyped' /\ Stays
<1>1. dedupCache' = dedupCache => DedupTyped' /\ Stays
  BY DEF DedupTyped, Stays
<1>2. CASE UNCHANGED vars
  BY <1>1, <1>2 DEF vars
<1>3. ASSUME NEW e \in Envelopes, NEW i \in 1..2, Ask(e, i) PROVE DedupTyped' /\ Stays
  BY <1>3, AskStays
<1>4. ASSUME NEW c \in Caps, Copy(c) PROVE DedupTyped' /\ Stays
  BY <1>1, <1>4 DEF Copy
<1>5. ASSUME NEW e \in Envelopes, Acquire(e) PROVE DedupTyped' /\ Stays
  BY <1>1, <1>5 DEF Acquire, caches
<1>6. ASSUME NEW t \in Tasks, Work(t) PROVE DedupTyped' /\ Stays
  BY <1>1, <1>6 DEF Work, Begin, Send, Collect
<1>7. ASSUME NEW r \in Replicas,
             \/ Establish(r) \/ Transmit(r) \/ Decoy(r) \/ Lose(r) \/ Spawn(r) \/ Leave(r)
             \/ Document(r)
      PROVE  DedupTyped' /\ Stays
  <2>1. dedupCache' = dedupCache
    BY <1>7 DEF Establish, Transmit, Decoy, Lose, Spawn, Leave, Document, caches
  <2> QED BY <1>1, <2>1
<1>8. CASE Tick
  BY <1>1, <1>8 DEF Tick, caches
<1> QED BY <1>2, <1>3, <1>4, <1>5, <1>6, <1>7, <1>8, AnswerStays, AgeStays DEF Next

LEMMA CopyStep ==
    ASSUME CopyInv, [Next]_vars
    PROVE  CopyInv'
<1>1. CASE UNCHANGED vars
  BY <1>1, CopyStutters DEF vars
<1>2. ASSUME NEW r \in Replicas,
             \/ Establish(r) \/ Transmit(r) \/ Decoy(r) \/ Lose(r) \/ Spawn(r) \/ Document(r)
      PROVE  CopyInv'
  <2>1. copyDedupCache' = copyDedupCache /\ tasks' = tasks
    BY <1>2 DEF Establish, Transmit, Decoy, Lose, Spawn, Document, caches
  <2> QED BY <2>1, CopyStutters
<1>3. CASE Tick
  BY <1>3, CopyStutters DEF Tick, caches
<1> QED BY <1>1, <1>2, <1>3, ClientKeeps, CopyKeeps, WorkKeeps, ConnectionKeeps, CourierAges DEF Next

(* While clients that poll a Copy are told to keep polling somebody works on it, and no Copy
   runs that no status answers for: after any failure of a replica, a connection or a document,
   after the end of the cache's TTL and after a restart (handleCopyCommand, plugin.go:792). *)
THEOREM PollersAreServed == Spec => []InProgressIsWorking
<1>1. CourierInv => InProgressIsWorking
  BY DEF CourierInv, CopyInv
<1>2. CourierInv /\ [Next]_vars => CourierInv'
  BY DedupStep, CopyStep DEF CourierInv
<1> QED BY <1>1, <1>2, CourierInit, PTL DEF Spec

(* What a replica has answered with success is not replaced by what comes later from another
   attempt, as long as the entry is there (storeOrReplaceReply, plugin.go:363). *)
THEOREM SuccessesAreKept == Spec => AnswersStay
<1>1. DedupTyped /\ [Next]_vars => DedupTyped'
  BY DedupStep
<1>2. DedupTyped /\ [Next]_vars => [Stays]_vars
  BY DedupStep
<1>3. Init => DedupTyped
  BY CourierInit DEF CourierInv
<1> QED BY <1>1, <1>2, <1>3, PTL DEF Spec, AnswersStay

(***************************************************************************)
(* Induction, with a set in place of the predicate.                        *)
(***************************************************************************)
LEMMA LeastNumber ==
    ASSUME NEW S \in SUBSET Nat, S # {}
    PROVE  \E n \in S : \A k \in S : n <= k
<1>1. PICK n \in S : \A k \in S : ~(<<k, n>> \in OpToRel(<, Nat))
  BY NatLessThanWellFounded, WFMin, Zenon
<1>2. \A k \in S : ~(k < n)
  BY <1>1 DEF OpToRel
<1> QED BY <1>2

LEMMA Induction ==
    ASSUME NEW n \in Nat, NEW S, 0 \in S, \A i \in 0..(n - 1) : i \in S => i + 1 \in S
    PROVE  0..n \subseteq S
<1> SUFFICES ASSUME (0..n) \ S # {} PROVE FALSE
  OBVIOUS
<1> DEFINE R == (0..n) \ S
<1>1. PICK m \in R : \A k \in R : m <= k
  <2>1. R \in SUBSET Nat /\ R # {}
    OBVIOUS
  <2> HIDE DEF R
  <2> QED BY <2>1, LeastNumber
<1>2. m # 0 /\ m - 1 \in 0..(n - 1)
  BY <1>1
<1> QED BY <1>1, <1>2

(* A function defined by recursion, whose step stays in a set: there is one. *)
Iterates(f, n, T, a, next) ==
    f \in [0..n -> T] /\ f[0] = a /\ \A i \in 1..n : f[i] = next[i][f[i - 1]]

LEMMA Recursion ==
    ASSUME NEW n \in Nat, NEW T, NEW a \in T, NEW next \in [1..n -> [T -> T]]
    PROVE  \E f : Iterates(f, n, T, a, next)
<1> DEFINE Good(m, f) == f[0] = a /\ \A i \in 1..m : f[i] = next[i][f[i - 1]]
           S == {m \in 0..n : \E f \in [0..m -> T] : Good(m, f)}
<1>1. 0 \in S
  <2> DEFINE g == [i \in 0..0 |-> a]
  <2>1. g \in [0..0 -> T] /\ g[0] = a /\ 0 \in 0..n
    OBVIOUS
  <2> HIDE DEF g
  <2> QED BY <2>1
<1>2. ASSUME NEW m \in 0..(n - 1), m \in S PROVE m + 1 \in S
  <2>1. PICK f \in [0..m -> T] : Good(m, f)
    BY <1>2
  <2> DEFINE g == [i \in 0..(m + 1) |-> IF i = m + 1 THEN next[m + 1][f[m]] ELSE f[i]]
  <2>2. g \in [0..(m + 1) -> T]
    BY <2>1
  <2>3. \A i \in 1..(m + 1) : g[i] = next[i][g[i - 1]]
    BY <2>1
  <2>4. g[0] = a
    BY <2>1
  <2> HIDE DEF g
  <2> QED BY <2>2, <2>3, <2>4
<1>3. n \in S
  <2> HIDE DEF S
  <2>1. 0..n \subseteq S
    BY <1>1, <1>2, Induction
  <2> QED BY <2>1
<1> QED BY <1>3 DEF Iterates

(***************************************************************************)
(* A part of a sequence.                                                   *)
(***************************************************************************)
LEMMA Slice ==
    ASSUME NEW T, NEW s \in Seq(T), NEW a \in Nat, NEW b \in Nat, a <= b, b <= Len(s)
    PROVE  /\ SubSeq(s, a + 1, b) \in Seq(T)
           /\ Len(SubSeq(s, a + 1, b)) = b - a
           /\ \A i \in 1..(b - a) : SubSeq(s, a + 1, b)[i] = s[a + i]
<1>1. \A i \in (a + 1)..b : s[i] \in T
  BY LenProperties
<1>2. a + 1 \in Int /\ b \in Int
  OBVIOUS
<1> DEFINE u == SubSeq(s, a + 1, b)
<1>3. /\ u \in Seq(T)
      /\ Len(u) = IF a + 1 <= b THEN b - (a + 1) + 1 ELSE 0
      /\ \A i \in 1..(b - (a + 1) + 1) : u[i] = s[(a + 1) + i - 1]
  BY <1>1, <1>2, SubSeqProperties
<1> HIDE DEF u
<1>4. Len(u) = b - a
  BY <1>3
<1>5. \A i \in 1..(b - a) : u[i] = s[a + i]
  <2> TAKE i \in 1..(b - a)
  <2>1. i \in 1..(b - (a + 1) + 1) /\ (a + 1) + i - 1 = a + i
    OBVIOUS
  <2> QED BY <1>3, <2>1
<1> QED BY <1>3, <1>4, <1>5 DEF u

LEMMA SliceOfSlice ==
    ASSUME NEW T, NEW s \in Seq(T), NEW a \in Nat, NEW b \in Nat, a <= b, b <= Len(s),
           NEW i \in Nat, NEW j \in Nat, i <= j, j <= b - a
    PROVE  SubSeq(SubSeq(s, a + 1, b), i + 1, j) = SubSeq(s, (a + i) + 1, a + j)
<1> DEFINE u == SubSeq(s, a + 1, b)
           v == SubSeq(u, i + 1, j)
           x == SubSeq(s, (a + i) + 1, a + j)
<1>1. u \in Seq(T) /\ Len(u) = b - a /\ \A k \in 1..(b - a) : u[k] = s[a + k]
  BY Slice
<1>2. x \in Seq(T) /\ Len(x) = j - i /\ \A k \in 1..(j - i) : x[k] = s[(a + i) + k]
  <2>1. a + i \in Nat /\ a + j \in Nat /\ a + i <= a + j /\ a + j <= Len(s)
        /\ (a + j) - (a + i) = j - i
    BY LenProperties
  <2> QED BY <2>1, Slice
<1> HIDE DEF u, x
<1>3. v \in Seq(T) /\ Len(v) = j - i /\ \A k \in 1..(j - i) : v[k] = u[i + k]
  BY <1>1, Slice
<1> HIDE DEF v
<1>4. \A k \in 1..(j - i) : v[k] = x[k]
  <2> TAKE k \in 1..(j - i)
  <2>1. i + k \in 1..(b - a) /\ a + (i + k) = (a + i) + k
    OBVIOUS
  <2> QED BY <1>1, <1>2, <1>3, <2>1
<1>5. v = x
  BY <1>2, <1>3, <1>4, SeqEqual
<1> QED BY <1>5 DEF u, v, x

LEMMA SlicesJoin ==
    ASSUME NEW T, NEW s \in Seq(T), NEW a \in Nat, NEW b \in Nat, NEW c \in Nat,
           a <= b, b <= c, c <= Len(s)
    PROVE  SubSeq(s, a + 1, b) \o SubSeq(s, b + 1, c) = SubSeq(s, a + 1, c)
<1>1. Len(s) \in Nat
  BY LenProperties
<1>2. a + 1 \in 1..(Len(s) + 1) /\ b \in ((a + 1) - 1)..Len(s) /\ c \in b..Len(s)
  BY <1>1
<1> QED BY <1>2, ConcatAdjacentSubSeq

(***************************************************************************)
(* The serialized stream of the envelopes C: the units `all` of one after  *)
(* the other; the i-th ends at ends[i].                                    *)
(***************************************************************************)
Unit(Es) == [env : Es, at : Nat]

Ends(C, ends) ==
    /\ ends \in [0..Len(C) -> Nat] /\ ends[0] = 0
    /\ \A i \in 1..Len(C) : ends[i] = ends[i - 1] + (SizeOf[C[i]] + 1)

Serial(Es, C, ends, all) ==
    /\ Ends(C, ends)
    /\ all \in Seq(Unit(Es)) /\ Len(all) = ends[Len(C)]
    /\ \A i \in 1..Len(C) : \A k \in 1..(SizeOf[C[i]] + 1) :
          all[ends[i - 1] + k] = [env |-> C[i], at |-> k - 1]

Sized(Es) == \A e \in Es : SizeOf[e] \in Nat

LEMMA EndsExist ==
    ASSUME NEW Es, Sized(Es), NEW C \in Seq(Es)
    PROVE  \E ends : Ends(C, ends)
<1> DEFINE next == [i \in 1..Len(C) |-> [p \in Nat |-> p + (SizeOf[C[i]] + 1)]]
<1>1. Len(C) \in Nat /\ \A i \in 1..Len(C) : SizeOf[C[i]] \in Nat
  BY LenProperties DEF Sized
<1>2. next \in [1..Len(C) -> [Nat -> Nat]] /\ 0 \in Nat
  BY <1>1
<1>3. PICK f : Iterates(f, Len(C), Nat, 0, next)
  <2> HIDE DEF next
  <2> QED BY <1>1, <1>2, Recursion
<1>4. f \in [0..Len(C) -> Nat] /\ f[0] = 0 /\ \A i \in 1..Len(C) : f[i] = next[i][f[i - 1]]
  BY <1>3 DEF Iterates
<1>5. ASSUME NEW i \in 1..Len(C) PROVE f[i] = f[i - 1] + (SizeOf[C[i]] + 1)
  <2>1. i - 1 \in 0..Len(C)
    BY <1>1
  <2>2. f[i - 1] \in Nat
    BY <1>4, <2>1
  <2> QED BY <1>4, <2>2
<1> QED BY <1>4, <1>5 DEF Ends

(* Each envelope has a unit at least. *)
LEMMA EndsGrow ==
    ASSUME NEW Es, Sized(Es), NEW C \in Seq(Es), NEW ends, Ends(C, ends),
           NEW j \in 0..Len(C), NEW i \in 0..j
    PROVE  ends[i] + (j - i) <= ends[j]
<1> DEFINE S == {d \in 0..(j - i) : ends[i] + d <= ends[i + d]}
<1>1. Len(C) \in Nat /\ \A k \in 1..Len(C) : SizeOf[C[k]] \in Nat
  BY LenProperties DEF Sized
<1>2. \A k \in 0..Len(C) : ends[k] \in Nat
  BY DEF Ends
<1>3. 0 \in S
  <2>1. i \in 0..Len(C) /\ i + 0 = i /\ 0 \in 0..(j - i)
    BY <1>1
  <2> QED BY <1>2, <2>1
<1>4. ASSUME NEW d \in 0..((j - i) - 1), d \in S PROVE d + 1 \in S
  <2>1. /\ i + d \in 0..Len(C) /\ i + (d + 1) \in 1..Len(C) /\ (i + (d + 1)) - 1 = i + d
        /\ d + 1 \in 0..(j - i)
    BY <1>1
  <2> DEFINE k == i + (d + 1)
  <2>2. k \in 1..Len(C) /\ k - 1 = i + d
    BY <2>1
  <2> HIDE DEF k
  <2>3. ends[k] = ends[k - 1] + (SizeOf[C[k]] + 1)
    BY <2>2 DEF Ends
  <2>4. ends[i + d] \in Nat /\ ends[i] \in Nat /\ SizeOf[C[k]] \in Nat
    BY <1>1, <1>2, <2>1, <2>2
  <2>5. ends[i] + d <= ends[i + d]
    BY <1>4
  <2>6. ends[i] + (d + 1) <= ends[k]
    <3> DEFINE x == ends[i]
               y == ends[i + d]
               z == ends[k]
               n == SizeOf[C[k]]
    <3>1. z = y + (n + 1) /\ x + d <= y /\ x \in Nat /\ y \in Nat /\ n \in Nat /\ d \in Nat
      BY <2>2, <2>3, <2>4, <2>5
    <3> HIDE DEF x, y, z, n
    <3>2. x + (d + 1) <= z
      BY <3>1
    <3> QED BY <3>2 DEF x, z
  <2> QED BY <2>1, <2>6 DEF k
<1>5. j - i \in Nat
  BY <1>1
<1>6. j - i \in S
  <2> HIDE DEF S
  <2>1. 0..(j - i) \subseteq S
    BY <1>3, <1>4, <1>5, Induction
  <2> QED BY <1>5, <2>1
<1>7. i + (j - i) = j
  BY <1>1
<1> QED BY <1>6, <1>7

(* Every unit of the stream is one of an envelope, and of one only. *)
LEMMA Covered ==
    ASSUME NEW Es, Sized(Es), NEW C \in Seq(Es), NEW ends, Ends(C, ends),
           NEW p \in 1..ends[Len(C)]
    PROVE  \E i \in 1..Len(C) : ends[i - 1] < p /\ p <= ends[i]
<1>1. Len(C) \in Nat
  BY LenProperties
<1> DEFINE S == {m \in 0..Len(C) : p <= ends[m] => \E i \in 1..m : ends[i - 1] < p /\ p <= ends[i]}
<1>2. \A k \in 0..Len(C) : ends[k] \in Nat
  BY DEF Ends
<1>3. 0 \in S
  BY <1>1, <1>2 DEF Ends
<1>4. ASSUME NEW m \in 0..(Len(C) - 1), m \in S PROVE m + 1 \in S
  <2>1. m + 1 \in 0..Len(C) /\ ends[m] \in Nat /\ ends[m + 1] \in Nat /\ (m + 1) - 1 = m
    BY <1>1, <1>2
  <2>2. CASE p <= ends[m]
    <3>1. PICK i \in 1..m : ends[i - 1] < p /\ p <= ends[i]
      BY <1>4, <2>2
    <3>2. i \in 1..(m + 1)
      BY <3>1
    <3> QED BY <2>1, <3>1, <3>2
  <2>3. CASE ~(p <= ends[m])
    <3>1. ends[m] < p /\ m + 1 \in 1..(m + 1)
      BY <1>2, <2>1, <2>3, <1>1
    <3> QED BY <2>1, <3>1
  <2> QED BY <2>2, <2>3
<1>5. Len(C) \in S
  <2> HIDE DEF S
  <2>1. 0..Len(C) \subseteq S
    BY <1>1, <1>3, <1>4, Induction
  <2> QED BY <1>1, <2>1
<1>6. p <= ends[Len(C)]
  BY <1>1, <1>2
<1> QED BY <1>5, <1>6

LEMMA SerialExists ==
    ASSUME NEW Es, Sized(Es), NEW C \in Seq(Es)
    PROVE  \E ends, all : Serial(Es, C, ends, all)
<1>1. PICK ends : Ends(C, ends)
  BY EndsExist
<1>2. Len(C) \in Nat /\ \A k \in 1..Len(C) : C[k] \in Es /\ SizeOf[C[k]] \in Nat
  BY LenProperties DEF Sized
<1>3. \A k \in 0..Len(C) : ends[k] \in Nat
  BY <1>1 DEF Ends
<1> DEFINE n     == ends[Len(C)]
           In(p, i) == ends[i - 1] < p /\ p <= ends[i]
           of(p) == CHOOSE i \in 1..Len(C) : In(p, i)
           all   == [p \in 1..n |-> [env |-> C[of(p)], at |-> (p - ends[of(p) - 1]) - 1]]
<1>4. ASSUME NEW p \in 1..n PROVE of(p) \in 1..Len(C) /\ In(p, of(p))
  <2>1. \E i \in 1..Len(C) : In(p, i)
    BY <1>1, Covered
  <2> QED BY <2>1
<1>5. n \in Nat
  BY <1>2, <1>3
<1>6. all \in [1..n -> Unit(Es)]
  <2> SUFFICES ASSUME NEW p \in 1..n
               PROVE  [env |-> C[of(p)], at |-> (p - ends[of(p) - 1]) - 1] \in Unit(Es)
    OBVIOUS
  <2> HIDE DEF of
  <2>1. of(p) \in 1..Len(C) /\ In(p, of(p)) /\ of(p) - 1 \in 0..Len(C)
    BY <1>2, <1>4
  <2>2. ends[of(p) - 1] \in Nat /\ ends[of(p) - 1] < p
    BY <1>3, <2>1
  <2>3. (p - ends[of(p) - 1]) - 1 \in Nat
    BY <1>5, <2>2
  <2> QED BY <1>2, <2>1, <2>3 DEF Unit
<1>7. all \in Seq(Unit(Es)) /\ Len(all) = n
  <2> HIDE DEF all, n
  <2>1. all \in Seq(Unit(Es))
    BY <1>5, <1>6, SeqDef
  <2> QED BY <1>5, <1>6, <2>1, LenProperties
<1>8. ASSUME NEW i \in 1..Len(C), NEW k \in 1..(SizeOf[C[i]] + 1)
      PROVE  all[ends[i - 1] + k] = [env |-> C[i], at |-> k - 1]
  <2> DEFINE p == ends[i - 1] + k
  <2>1. i - 1 \in 0..Len(C) /\ i \in 0..Len(C) /\ SizeOf[C[i]] \in Nat
    BY <1>2
  <2>2. ends[i - 1] \in Nat /\ ends[i] \in Nat /\ ends[i] = ends[i - 1] + (SizeOf[C[i]] + 1)
    BY <1>1, <1>3, <2>1 DEF Ends
  <2>3. ends[i] <= n
    <3>1. Len(C) \in 0..Len(C) /\ i \in 0..Len(C)
      BY <1>2, <2>1
    <3>2. ends[i] + (Len(C) - i) <= n
      BY <1>1, <3>1, EndsGrow
    <3>3. Len(C) - i \in Nat
      BY <1>2
    <3> HIDE DEF n
    <3> QED BY <1>5, <2>2, <3>2, <3>3
  <2>4. p \in 1..n /\ In(p, i)
    <3>1. k \in Nat /\ 1 <= k /\ k <= SizeOf[C[i]] + 1
      BY <2>1
    <3>2. p \in Nat /\ 1 <= p /\ ends[i - 1] < p /\ p <= ends[i]
      <4> DEFINE x == ends[i - 1]
                 y == ends[i]
                 z == SizeOf[C[i]]
      <4>1. /\ p = x + k /\ y = x + (z + 1) /\ x \in Nat /\ y \in Nat /\ z \in Nat
            /\ k \in Nat /\ 1 <= k /\ k <= z + 1
        BY <2>1, <2>2, <3>1
      <4> HIDE DEF p, x, y, z
      <4>2. p \in Nat /\ 1 <= p /\ x < p /\ p <= y
        BY <4>1
      <4> QED BY <4>2 DEF x, y
    <3>3. p <= n
      <4> DEFINE e == ends[i]
      <4>1. p <= e /\ e <= n /\ p \in Nat /\ e \in Nat /\ n \in Nat
        BY <1>5, <2>2, <2>3, <3>2
      <4> HIDE DEF n, p, e
      <4> QED BY <4>1
    <3> HIDE DEF n, p
    <3> QED BY <1>5, <3>2, <3>3
  <2>5. of(p) = i
    <3>1. of(p) \in 1..Len(C) /\ In(p, of(p))
      BY <1>4, <2>4
    <3> DEFINE j == of(p)
    <3> HIDE DEF of, p, j
    <3>2. ASSUME j < i PROVE FALSE
      <4>1. i - 1 \in 0..Len(C) /\ j \in 0..(i - 1)
        BY <1>2, <3>1, <3>2 DEF j
      <4>2. ends[j] + ((i - 1) - j) <= ends[i - 1]
        BY <1>1, <4>1, EndsGrow
      <4>3. ends[j] \in Nat /\ p <= ends[j] /\ ends[i - 1] < p
        BY <1>3, <4>1, <3>1, <2>4 DEF j
      <4>4. p \in Nat
        BY <2>4
      <4> QED BY <2>2, <4>1, <4>2, <4>3, <4>4
    <3>3. ASSUME i < j PROVE FALSE
      <4>1. j - 1 \in 0..Len(C) /\ i \in 0..(j - 1) /\ j \in Nat
        BY <1>2, <3>1, <3>3 DEF j
      <4>2. ends[i] + ((j - 1) - i) <= ends[j - 1]
        BY <1>1, <4>1, EndsGrow
      <4>3. ends[j - 1] \in Nat /\ p <= ends[i] /\ ends[j - 1] < p
        BY <1>3, <4>1, <3>1, <2>4 DEF j
      <4>4. p \in Nat
        BY <2>4
      <4> QED BY <2>2, <4>1, <4>2, <4>3, <4>4
    <3> QED BY <3>1, <3>2, <3>3 DEF j
  <2>6. (p - ends[of(p) - 1]) - 1 = k - 1
    <3>1. of(p) - 1 = i - 1
      BY <2>5
    <3> HIDE DEF of
    <3> QED BY <2>2, <3>1
  <2> HIDE DEF of, p
  <2> QED BY <2>4, <2>5, <2>6 DEF p
<1> HIDE DEF all
<1>9. Serial(Es, C, ends, all)
  BY <1>1, <1>7, <1>8 DEF Serial
<1> QED BY <1>9

LEMMA UnitsType ==
    ASSUME NEW Es, NEW e \in Es, SizeOf[e] \in Nat
    PROVE  /\ Units(e) \in Seq(Unit(Es)) /\ Len(Units(e)) = SizeOf[e] + 1
           /\ \A k \in 1..(SizeOf[e] + 1) : Units(e)[k] = [env |-> e, at |-> k - 1]
<1>1. Units(e) \in [1..(SizeOf[e] + 1) -> Unit(Es)]
  BY DEF Units, Unit
<1>2. SizeOf[e] + 1 \in Nat
  OBVIOUS
<1>3. Units(e) \in Seq(Unit(Es))
  BY <1>1, <1>2, SeqDef
<1> QED BY <1>1, <1>2, <1>3, LenProperties DEF Units

(***************************************************************************)
(* What the decoder does.                                                  *)
(***************************************************************************)
Decoding(Es) == [envelopes : Seq(Es), rest : Seq(Unit(Es)), failed : BOOLEAN]

(* The head of a buffer that holds a whole envelope, and what is left without it. *)
LEMMA HeadOff ==
    ASSUME NEW Es, Sized(Es), NEW u \in Seq(Unit(Es)), Whole(u)
    PROVE  /\ u[1] \in Unit(Es) /\ Size(u) \in 1..Len(u) /\ SizeOf[u[1].env] \in Nat
           /\ SubSeq(u, 1, Size(u)) \in Seq(Unit(Es)) /\ Len(SubSeq(u, 1, Size(u))) = Size(u)
           /\ \A k \in 1..Size(u) : SubSeq(u, 1, Size(u))[k] = u[k]
           /\ SubSeq(u, Size(u) + 1, Len(u)) \in Seq(Unit(Es))
           /\ SubSeq(u, 1, Size(u)) \o SubSeq(u, Size(u) + 1, Len(u)) = u
<1>1. Len(u) \in Nat /\ u[1] \in Unit(Es)
  BY EmptySeq, LenProperties DEF Whole
<1>2. SizeOf[u[1].env] \in Nat
  BY <1>1 DEF Sized, Unit
<1>3. Size(u) \in 1..Len(u)
  BY <1>1, <1>2 DEF Size, Whole
<1> DEFINE m == Size(u)
<1>4. m \in Nat /\ 0 <= m /\ m <= Len(u) /\ Len(u) <= Len(u)
  BY <1>1, <1>3
<1> HIDE DEF m
<1>5. /\ SubSeq(u, 0 + 1, m) \in Seq(Unit(Es)) /\ Len(SubSeq(u, 0 + 1, m)) = m - 0
      /\ \A k \in 1..(m - 0) : SubSeq(u, 0 + 1, m)[k] = u[0 + k]
  BY <1>4, Slice
<1>6. 0 + 1 = 1 /\ m - 0 = m /\ \A k \in 1..m : 0 + k = k
  BY <1>4
<1>7. SubSeq(u, m + 1, Len(u)) \in Seq(Unit(Es))
  BY <1>1, <1>4, Slice
<1>8. SubSeq(u, 0 + 1, m) \o SubSeq(u, m + 1, Len(u)) = SubSeq(u, 0 + 1, Len(u))
  BY <1>1, <1>4, SlicesJoin
<1>9. SubSeq(u, 1, Len(u)) = u
  BY SubSeqFull
<1> QED BY <1>1, <1>2, <1>3, <1>5, <1>6, <1>7, <1>8, <1>9 DEF m

LEMMA TakeFirstType ==
    ASSUME NEW Es, Sized(Es), NEW s \in Decoding(Es)
    PROVE  TakeFirst(s) \in Decoding(Es)
<1>1. s.rest \in Seq(Unit(Es)) /\ s.envelopes \in Seq(Es)
  BY DEF Decoding
<1>2. CASE s.failed \/ ~Whole(s.rest)
  BY <1>2 DEF TakeFirst
<1>3. CASE ~s.failed /\ Whole(s.rest)
  <2>1. s.rest[1].env \in Es /\ SubSeq(s.rest, Size(s.rest) + 1, Len(s.rest)) \in Seq(Unit(Es))
    BY <1>1, <1>3, HeadOff DEF Unit
  <2>2. Append(s.envelopes, s.rest[1].env) \in Seq(Es)
    BY <1>1, <2>1, AppendProperties
  <2> QED BY <1>3, <2>1, <2>2 DEF TakeFirst, Decoding
<1> QED BY <1>2, <1>3

LEMMA RoundsDef ==
    ASSUME NEW Es, Sized(Es), NEW u \in Seq(Unit(Es))
    PROVE  /\ Rounds(u) \in [0..Len(u) -> Decoding(Es)]
           /\ Rounds(u)[0] = [envelopes |-> <<>>, rest |-> u, failed |-> FALSE]
           /\ \A n \in 1..Len(u) : Rounds(u)[n] = TakeFirst(Rounds(u)[n - 1])
<1> DEFINE start == [envelopes |-> <<>>, rest |-> u, failed |-> FALSE]
           next  == [n \in 1..Len(u) |-> [s \in Decoding(Es) |-> TakeFirst(s)]]
           Eq(f) == f = [n \in 0..Len(u) |-> IF n = 0 THEN start ELSE TakeFirst(f[n - 1])]
<1>1. Len(u) \in Nat
  BY LenProperties
<1>2. start \in Decoding(Es)
  BY EmptySeq DEF Decoding
<1>3. next \in [1..Len(u) -> [Decoding(Es) -> Decoding(Es)]]
  BY TakeFirstType
<1>4. PICK f : Iterates(f, Len(u), Decoding(Es), start, next)
  <2> HIDE DEF next, start
  <2> QED BY <1>1, <1>2, <1>3, Recursion
<1>5. /\ f \in [0..Len(u) -> Decoding(Es)] /\ f[0] = start
      /\ \A n \in 1..Len(u) : f[n] = TakeFirst(f[n - 1])
  <2>1. f \in [0..Len(u) -> Decoding(Es)] /\ f[0] = start
        /\ \A n \in 1..Len(u) : f[n] = next[n][f[n - 1]]
    <3> HIDE DEF next, start
    <3> QED BY <1>4 DEF Iterates
  <2>2. ASSUME NEW n \in 1..Len(u) PROVE f[n] = TakeFirst(f[n - 1])
    <3>1. n - 1 \in 0..Len(u)
      BY <1>1
    <3>2. f[n - 1] \in Decoding(Es)
      BY <2>1, <3>1
    <3> HIDE DEF start
    <3> QED BY <2>1, <3>2
  <2> QED BY <2>1, <2>2
<1>6. Eq(f)
  <2>1. \A n \in 0..Len(u) : f[n] = IF n = 0 THEN start ELSE TakeFirst(f[n - 1])
    <3> TAKE n \in 0..Len(u)
    <3>1. n = 0 \/ n \in 1..Len(u)
      BY <1>1
    <3> HIDE DEF start
    <3> QED BY <1>5, <3>1
  <2> HIDE DEF start
  <2> QED BY <1>5, <2>1
<1>7. Rounds(u) = CHOOSE g : Eq(g)
  BY DEF Rounds
<1>8. Eq(Rounds(u))
  <2> HIDE DEF Eq
  <2> QED BY <1>6, <1>7
<1>9. /\ \A n \in 0..Len(u) : Rounds(u)[n] = IF n = 0 THEN start ELSE TakeFirst(Rounds(u)[n - 1])
      /\ Rounds(u) = [n \in 0..Len(u) |-> Rounds(u)[n]]
  <2> DEFINE g == Rounds(u)
  <2>1. g = [n \in 0..Len(u) |-> IF n = 0 THEN start ELSE TakeFirst(g[n - 1])]
    BY <1>8
  <2> HIDE DEF g, start
  <2> QED BY <2>1 DEF g
<1>10. Rounds(u)[0] = start /\ \A n \in 1..Len(u) : Rounds(u)[n] = TakeFirst(Rounds(u)[n - 1])
  <2>1. 0 \in 0..Len(u) /\ \A n \in 1..Len(u) : n \in 0..Len(u) /\ n # 0
    BY <1>1
  <2> HIDE DEF start
  <2> QED BY <1>9, <2>1
<1> DEFINE S == {n \in 0..Len(u) : Rounds(u)[n] \in Decoding(Es)}
<1>11. 0 \in S
  <2> HIDE DEF start
  <2> QED BY <1>1, <1>2, <1>10
<1>12. ASSUME NEW n \in 0..(Len(u) - 1), n \in S PROVE n + 1 \in S
  <2>1. n + 1 \in 1..Len(u) /\ n + 1 \in 0..Len(u) /\ (n + 1) - 1 = n
    BY <1>1
  <2>2. Rounds(u)[n + 1] = TakeFirst(Rounds(u)[n])
    <3> HIDE DEF start
    <3> QED BY <1>10, <2>1
  <2>3. TakeFirst(Rounds(u)[n]) \in Decoding(Es)
    BY <1>12, TakeFirstType
  <2> QED BY <2>1, <2>2, <2>3
<1>13. \A n \in 0..Len(u) : Rounds(u)[n] \in Decoding(Es)
  <2> HIDE DEF S
  <2>1. 0..Len(u) \subseteq S
    BY <1>1, <1>11, <1>12, Induction
  <2> QED BY <2>1 DEF S
<1>14. Rounds(u) \in [0..Len(u) -> Decoding(Es)]
  <2> HIDE DEF start
  <2> QED BY <1>9, <1>13
<1> QED BY <1>10, <1>14

(* The first units of the stream, as seen by a decoder that has taken the envelopes up to the
   j-th off, of those after the i-th. *)
Taken(C, ends, all, p, i, j) ==
    [envelopes |-> SubSeq(C, i + 1, j), rest |-> SubSeq(all, ends[j] + 1, p), failed |-> FALSE]

LEMMA EndsBound ==
    ASSUME NEW Es, Sized(Es), NEW C \in Seq(Es), NEW ends, NEW all, Serial(Es, C, ends, all),
           NEW j \in 0..Len(C)
    PROVE  /\ Len(C) \in Nat /\ ends[j] \in Nat /\ Len(all) \in Nat /\ ends[j] <= Len(all)
           /\ ends[j] = Len(all) <=> j = Len(C)
<1>1. Len(C) \in Nat /\ Len(all) \in Nat /\ Len(C) \in 0..Len(C)
  BY LenProperties DEF Serial
<1>2. Ends(C, ends) /\ Len(all) = ends[Len(C)]
  BY DEF Serial
<1>3. ends[j] \in Nat
  BY <1>2 DEF Ends
<1>4. ends[j] + (Len(C) - j) <= ends[Len(C)]
  BY <1>1, <1>2, EndsGrow
<1>5. Len(C) - j \in Nat
  BY <1>1
<1> QED BY <1>1, <1>2, <1>3, <1>4, <1>5

(* One round takes the next envelope off, if its units are all there. *)
LEMMA TakesNext ==
    ASSUME NEW Es, Sized(Es), NEW C \in Seq(Es), NEW ends, NEW all, Serial(Es, C, ends, all),
           NEW p \in Nat, p <= Len(all), NEW j \in 0..Len(C), NEW i \in 0..j, ends[j] <= p
    PROVE  \/ /\ TakeFirst(Taken(C, ends, all, p, i, j)) = Taken(C, ends, all, p, i, j)
              /\ p = Len(all) => j = Len(C)
           \/ /\ j + 1 \in 1..Len(C) /\ ends[j + 1] <= p
              /\ TakeFirst(Taken(C, ends, all, p, i, j)) = Taken(C, ends, all, p, i, j + 1)
<1> DEFINE s == Taken(C, ends, all, p, i, j)
           u == SubSeq(all, ends[j] + 1, p)
<1>1. Len(C) \in Nat /\ ends[j] \in Nat /\ Len(all) \in Nat /\ (ends[j] = Len(all) <=> j = Len(C))
  BY EndsBound
<1>2. all \in Seq(Unit(Es))
  BY DEF Serial
<1>3. u \in Seq(Unit(Es)) /\ Len(u) = p - ends[j] /\ \A k \in 1..(p - ends[j]) : u[k] = all[ends[j] + k]
  <2> DEFINE a == ends[j]
  <2>1. a \in Nat /\ a <= p
    BY <1>1
  <2> HIDE DEF a
  <2> QED BY <1>2, <2>1, Slice DEF a
<1>4. s.envelopes = SubSeq(C, i + 1, j) /\ s.rest = u /\ s.failed = FALSE
  BY DEF Taken
<1>10. s = [envelopes |-> SubSeq(C, i + 1, j), rest |-> u, failed |-> FALSE]
  BY DEF Taken
<1> HIDE DEF u, s
<1>5. CASE p = ends[j]
  <2>1. ~Whole(s.rest)
    <3>1. Len(u) = 0
      BY <1>1, <1>3, <1>5
    <3>2. u = <<>>
      BY <1>3, <3>1, EmptySeq
    <3> QED BY <1>4, <3>2 DEF Whole
  <2> QED BY <1>1, <1>5, <2>1 DEF TakeFirst, s
<1>6. CASE p # ends[j]
  <2>1. j < Len(C)
    <3>1. ends[j] < Len(all)
      BY <1>1, <1>6
    <3> QED BY <1>1, <3>1
  <2>2. j + 1 \in 1..Len(C) /\ j + 1 \in 0..Len(C) /\ (j + 1) - 1 = j
    BY <1>1, <2>1
  <2> DEFINE e == C[j + 1]
  <2>3. e \in Es /\ SizeOf[e] \in Nat /\ ends[j + 1] = ends[j] + (SizeOf[e] + 1)
        /\ \A k \in 1..(SizeOf[e] + 1) : all[ends[j] + k] = [env |-> e, at |-> k - 1]
    <3>1. e \in Es
      BY <2>2, LenProperties
    <3>2. ends[j + 1] = ends[(j + 1) - 1] + (SizeOf[C[j + 1]] + 1)
      BY <2>2 DEF Serial, Ends
    <3>3. \A k \in 1..(SizeOf[C[j + 1]] + 1) :
             all[ends[(j + 1) - 1] + k] = [env |-> C[j + 1], at |-> k - 1]
      BY <2>2 DEF Serial
    <3> QED BY <2>2, <3>1, <3>2, <3>3 DEF Sized
  <2> HIDE DEF e
  <2>4. Len(u) >= 1 /\ u[1] = [env |-> e, at |-> 0] /\ Size(u) = SizeOf[e] + 1 /\ u # <<>>
    <3>1. Len(u) >= 1
      BY <1>1, <1>3, <1>6
    <3>2. u[1] = all[ends[j] + 1] /\ 1 \in 1..(SizeOf[e] + 1)
      BY <1>1, <1>3, <2>3, <3>1
    <3>3. u[1] = [env |-> e, at |-> 1 - 1]
      BY <2>3, <3>2
    <3> QED BY <3>1, <3>3, EmptySeq DEF Size
  <2>5. CASE SizeOf[e] + 1 > Len(u)
    <3>1. ~Whole(s.rest)
      BY <1>3, <1>4, <2>3, <2>4, <2>5 DEF Whole
    <3>2. TakeFirst(s) = s
      BY <3>1 DEF TakeFirst
    <3>3. p < Len(all)
      <4>1. ends[j + 1] <= Len(all) /\ ends[j + 1] \in Nat
        BY <2>2, EndsBound
      <4> QED BY <1>1, <1>3, <2>3, <2>5, <4>1
    <3> QED BY <3>2, <3>3 DEF s
  <2>6. CASE SizeOf[e] + 1 <= Len(u)
    <3>1. Whole(u)
      BY <2>4, <2>6 DEF Whole
    <3>2. SubSeq(u, 1, Size(u)) = Units(u[1].env)
      <4>1. /\ SubSeq(u, 1, Size(u)) \in Seq(Unit(Es)) /\ Len(SubSeq(u, 1, Size(u))) = Size(u)
            /\ \A k \in 1..Size(u) : SubSeq(u, 1, Size(u))[k] = u[k]
        BY <1>3, <3>1, HeadOff
      <4>2. /\ Units(e) \in Seq(Unit(Es)) /\ Len(Units(e)) = SizeOf[e] + 1
            /\ \A k \in 1..(SizeOf[e] + 1) : Units(e)[k] = [env |-> e, at |-> k - 1]
        BY <2>3, UnitsType
      <4>3. \A k \in 1..Size(u) : SubSeq(u, 1, Size(u))[k] = Units(e)[k]
        <5> TAKE k \in 1..Size(u)
        <5>1. k \in 1..(SizeOf[e] + 1) /\ k \in 1..(p - ends[j])
          BY <1>1, <1>3, <2>3, <2>4, <2>6
        <5>2. u[k] = [env |-> e, at |-> k - 1]
          BY <1>3, <2>3, <5>1
        <5> QED BY <4>1, <4>2, <5>1, <5>2
      <4>4. SubSeq(u, 1, Size(u)) = Units(e)
        <5>1. Len(SubSeq(u, 1, Size(u))) = Len(Units(e))
          BY <2>4, <4>1, <4>2
        <5> QED BY <4>1, <4>2, <4>3, <5>1, SeqEqual
      <4> QED BY <2>4, <4>4
    <3>3. TakeFirst(s) = [s EXCEPT !.envelopes = Append(SubSeq(C, i + 1, j), e),
                                   !.rest = SubSeq(u, Size(u) + 1, Len(u))]
      BY <1>4, <2>4, <3>1, <3>2 DEF TakeFirst
    <3>4. SubSeq(u, Size(u) + 1, Len(u)) = SubSeq(all, ends[j + 1] + 1, p)
      <4> DEFINE a == ends[j]
                 m == SizeOf[e] + 1
                 l == p - a
      <4>1. /\ a \in Nat /\ a <= p /\ m \in Nat /\ l \in Nat /\ m <= l /\ l <= p - a
            /\ a + m = ends[j + 1] /\ a + l = p
        BY <1>1, <1>3, <2>3, <2>6
      <4>2. Size(u) = m /\ Len(u) = l /\ u = SubSeq(all, a + 1, p)
        BY <1>3, <2>4 DEF u
      <4> HIDE DEF a, m, l
      <4>3. SubSeq(SubSeq(all, a + 1, p), m + 1, l) = SubSeq(all, (a + m) + 1, a + l)
        BY <1>2, <4>1, SliceOfSlice
      <4> QED BY <4>1, <4>2, <4>3
    <3>5. Append(SubSeq(C, i + 1, j), e) = SubSeq(C, i + 1, j + 1)
      <4>1. i + 1 \in 1..Len(C) /\ j + 1 \in (i + 1)..Len(C) /\ (j + 1) - 1 = j
        BY <1>1, <2>2
      <4>2. SubSeq(C, i + 1, j + 1) = SubSeq(C, i + 1, (j + 1) - 1) \o <<C[j + 1]>>
        BY <4>1, SubSeqRecursiveSecond
      <4>3. SubSeq(C, i + 1, j) \in Seq(Es)
        BY <1>1, Slice
      <4>4. Append(SubSeq(C, i + 1, j), e) = SubSeq(C, i + 1, j) \o <<e>>
        BY <2>3, <4>3, AppendIsConcat
      <4> QED BY <4>1, <4>2, <4>4 DEF e
    <3>6. TakeFirst(s) = Taken(C, ends, all, p, i, j + 1)
      BY <1>10, <3>3, <3>4, <3>5 DEF Taken
    <3>7. ends[j + 1] <= p
      BY <1>1, <1>3, <2>3, <2>6
    <3> QED BY <2>2, <3>6, <3>7 DEF s
  <2>7. SizeOf[e] + 1 \in Nat /\ Len(u) \in Nat
    BY <1>1, <1>3, <2>3
  <2> QED BY <2>5, <2>6, <2>7
<1> QED BY <1>5, <1>6

(* Decoding what follows the i-th envelope, up to any place in the stream: the envelopes that
   are there whole, in order, and all that are left if the place is the end. *)
LEMMA DecodesInOrder ==
    ASSUME NEW Es, Sized(Es), NEW C \in Seq(Es), NEW ends, NEW all, Serial(Es, C, ends, all),
           NEW p \in Nat, p <= Len(all), NEW i \in 0..Len(C), ends[i] <= p
    PROVE  \E j \in i..Len(C) :
              /\ ends[j] <= p /\ (p = Len(all) => j = Len(C))
              /\ Decode(SubSeq(all, ends[i] + 1, p)) = Taken(C, ends, all, p, i, j)
<1> DEFINE u == SubSeq(all, ends[i] + 1, p)
           Good(r, j) == /\ ends[j] <= p /\ Rounds(u)[r] = Taken(C, ends, all, p, i, j)
                         /\ p = Len(all) => j = Len(C) \/ j - i >= r
           S == {r \in 0..Len(u) : \E j \in i..Len(C) : Good(r, j)}
<1>1. Len(C) \in Nat /\ ends[i] \in Nat /\ Len(all) \in Nat
  BY EndsBound
<1>2. all \in Seq(Unit(Es)) /\ Ends(C, ends) /\ Len(all) = ends[Len(C)]
  BY DEF Serial
<1>3. u \in Seq(Unit(Es)) /\ Len(u) = p - ends[i]
  BY <1>1, <1>2, Slice
<1>4. /\ Rounds(u)[0] = [envelopes |-> <<>>, rest |-> u, failed |-> FALSE]
      /\ \A n \in 1..Len(u) : Rounds(u)[n] = TakeFirst(Rounds(u)[n - 1])
  BY <1>3, RoundsDef
<1> HIDE DEF u
<1>5. 0 \in S
  <2>1. Taken(C, ends, all, p, i, i) = [envelopes |-> <<>>, rest |-> u, failed |-> FALSE]
    <3>1. SubSeq(C, i + 1, i) = <<>>
      BY <1>1, SubSeqEmpty
    <3> QED BY <3>1 DEF Taken, u
  <2>2. Good(0, i)
    BY <1>1, <1>4, <2>1
  <2>3. i \in i..Len(C) /\ 0 \in 0..Len(u)
    BY <1>1, <1>3
  <2> QED BY <2>2, <2>3
<1>6. ASSUME NEW r \in 0..(Len(u) - 1), r \in S PROVE r + 1 \in S
  <2>1. r + 1 \in 0..Len(u) /\ r + 1 \in 1..Len(u) /\ (r + 1) - 1 = r
    BY <1>1, <1>3
  <2>2. PICK j \in i..Len(C) : Good(r, j)
    BY <1>6
  <2>3. j \in 0..Len(C) /\ i \in 0..j
    BY <1>1
  <2>4. Rounds(u)[r + 1] = TakeFirst(Taken(C, ends, all, p, i, j))
    BY <1>4, <2>1, <2>2
  <2>5. CASE /\ TakeFirst(Taken(C, ends, all, p, i, j)) = Taken(C, ends, all, p, i, j)
             /\ p = Len(all) => j = Len(C)
    <3>1. Good(r + 1, j)
      BY <2>2, <2>4, <2>5
    <3> QED BY <2>1, <3>1
  <2>6. CASE /\ j + 1 \in 1..Len(C) /\ ends[j + 1] <= p
             /\ TakeFirst(Taken(C, ends, all, p, i, j)) = Taken(C, ends, all, p, i, j + 1)
    <3>1. j + 1 \in i..Len(C)
      BY <1>1, <2>3, <2>6
    <3>2. p = Len(all) => j + 1 = Len(C) \/ (j + 1) - i >= r + 1
      BY <1>1, <2>2, <2>3, <2>6, <2>1
    <3>3. Good(r + 1, j + 1)
      BY <2>4, <2>6, <3>2
    <3> QED BY <2>1, <3>1, <3>3
  <2> QED BY <2>2, <2>3, <2>5, <2>6, TakesNext
<1>7. Len(u) \in S
  <2> HIDE DEF S
  <2>1. Len(u) \in Nat
    BY <1>1, <1>3
  <2>2. 0..Len(u) \subseteq S
    BY <1>5, <1>6, <2>1, Induction
  <2> QED BY <2>1, <2>2
<1>8. PICK j \in i..Len(C) : Good(Len(u), j)
  BY <1>7
<1>9. p = Len(all) => j = Len(C)
  <2> SUFFICES ASSUME p = Len(all), j - i >= Len(u) PROVE j = Len(C)
    BY <1>8
  <2>1. j \in 0..Len(C) /\ i \in 0..j
    BY <1>1
  <2>2. ends[i] + (j - i) <= ends[j] /\ ends[j] \in Nat /\ ends[j] <= Len(all)
        /\ (ends[j] = Len(all) <=> j = Len(C))
    BY <1>2, <2>1, EndsGrow, EndsBound
  <2> QED BY <1>1, <1>3, <2>1, <2>2
<1>10. Decode(u) = Taken(C, ends, all, p, i, j)
  BY <1>8 DEF Decode
<1> QED BY <1>8, <1>9, <1>10 DEF u

(***************************************************************************)
(* What the encoder does.                                                  *)
(***************************************************************************)
Element(Es) == [data : Seq(Unit(Es)), final : BOOLEAN]
Coding(Es)  == [elements : Seq(Element(Es)), buffer : Seq(Unit(Es))]

(* The elements are the parts of s that end at the places cut[1], cut[2] and so on. *)
Cuts(cut, elements, s) ==
    /\ cut \in [0..Len(elements) -> Nat] /\ cut[0] = 0
    /\ \A k \in 1..Len(elements) :
          cut[k - 1] <= cut[k] /\ elements[k].data = SubSeq(s, cut[k - 1] + 1, cut[k])

LEMMA Division ==
    ASSUME NEW c \in Nat \ {0}, NEW l \in Nat \ {0}
    PROVE  LET q == (l + c - 1) \div c
           IN  q \in Nat \ {0} /\ l <= q * c /\ (q - 1) * c < l
<1> DEFINE q == (l + c - 1) \div c
<1>1. q \in Int /\ c * q <= l + c - 1 /\ l + c - 1 < c * (q + 1)
  OBVIOUS
<1>2. q \in Nat
  BY <1>1
<1>3. c * (q + 1) = q * c + c /\ (q - 1) * c = q * c - c /\ c * q = q * c
  BY <1>1
<1> HIDE DEF q
<1>4. l <= q * c /\ (q - 1) * c < l
  BY <1>1, <1>2, <1>3
<1>5. q # 0
  BY <1>4
<1> QED BY <1>2, <1>4, <1>5 DEF q

LEMMA Multiples ==
    ASSUME NEW c \in Nat, NEW k \in Nat, NEW m \in Nat, k <= m
    PROVE  k * c <= m * c /\ k * c \in Nat
OBVIOUS

(* One call, on units that are not nothing: full pieces one after the other, and the rest of
   them in the last element or in the buffer. *)
Divided(u, isLast, r) ==
    /\ \E cut : /\ Cuts(cut, r.elements, u) /\ cut[Len(r.elements)] <= Len(u)
                /\ r.buffer = SubSeq(u, cut[Len(r.elements)] + 1, Len(u))
                /\ isLast => cut[Len(r.elements)] = Len(u) /\ Len(r.elements) > 0
    /\ \A k \in 1..Len(r.elements) :
          r.elements[k].final = (isLast /\ k = Len(r.elements))

LEMMA CallCuts ==
    ASSUME NEW Es, NEW buffer, NEW units, NEW isLast \in BOOLEAN,
           buffer \o units \in Seq(Unit(Es)), buffer \o units # <<>>
    PROVE  /\ EncodeCall(buffer, units, isLast) \in Coding(Es)
           /\ Divided(buffer \o units, isLast, EncodeCall(buffer, units, isLast))
<1> DEFINE u == buffer \o units
           n == Pieces(u)
           m == IF isLast THEN n ELSE n - 1
           c == ChunkSize
           q(k) == IF k * c < Len(u) THEN k * c ELSE Len(u)
           elements == [k \in 1..m |-> [data |-> Piece(u, k), final |-> isLast /\ k = n]]
           r == EncodeCall(buffer, units, isLast)
<1>1. u \in Seq(Unit(Es)) /\ u # <<>>
  OBVIOUS
<1>2. r = [elements |-> elements, buffer |-> IF isLast \/ n = 0 THEN <<>> ELSE Piece(u, n)]
  BY DEF EncodeCall
<1>3. \A k : Piece(u, k) = SubSeq(u, (k - 1) * c + 1, q(k))
  BY DEF Piece
<1>4. n = (Len(u) + c - 1) \div c
  BY <1>1 DEF Pieces
<1> HIDE DEF u, n, r, elements
<1>5. c \in Nat \ {0} /\ Len(u) \in Nat \ {0}
  BY <1>1, EmptySeq, StreamAssumption
<1> HIDE DEF c
<1>6. n \in Nat \ {0} /\ Len(u) <= n * c /\ (n - 1) * c < Len(u)
  BY <1>4, <1>5, Division
<1>7. m \in Nat /\ m <= n
  BY <1>6
<1>8. \A k \in 0..n : q(k) \in Nat /\ q(k) <= Len(u)
  <2> TAKE k \in 0..n
  <2>1. k \in Nat /\ k * c \in Nat
    BY <1>5, <1>6
  <2> QED BY <1>5, <2>1
<1>9. ASSUME NEW k \in 1..n PROVE q(k - 1) = (k - 1) * c /\ q(k - 1) <= q(k)
  <2>1. k \in Nat /\ k - 1 \in Nat /\ n - 1 \in Nat /\ k - 1 <= n - 1
    BY <1>6
  <2>2. (k - 1) * c <= (n - 1) * c /\ (k - 1) * c \in Nat /\ (n - 1) * c \in Nat
    BY <1>5, <2>1, Multiples
  <2>3. (k - 1) * c <= k * c /\ k * c \in Nat
    <3>1. k - 1 <= k
      BY <2>1
    <3> QED BY <1>5, <2>1, <3>1, Multiples
  <2>4. (k - 1) * c < Len(u)
    BY <1>5, <1>6, <2>2
  <2> QED BY <1>5, <2>2, <2>3, <2>4
<1>10. q(0) = 0 /\ q(n) = Len(u)
  <2>1. 0 * c = 0 /\ n * c \in Nat
    BY <1>5, <1>6
  <2> QED BY <1>5, <1>6, <2>1
<1>11. ASSUME NEW k \in 1..n
       PROVE  Piece(u, k) = SubSeq(u, q(k - 1) + 1, q(k)) /\ Piece(u, k) \in Seq(Unit(Es))
  <2>1. Piece(u, k) = SubSeq(u, q(k - 1) + 1, q(k))
    BY <1>3, <1>9
  <2> DEFINE a == q(k - 1)
             b == q(k)
  <2>2. a \in Nat /\ b \in Nat /\ a <= b /\ b <= Len(u)
    <3>1. k \in 0..n /\ k - 1 \in 0..n
      BY <1>6
    <3> HIDE DEF q
    <3> QED BY <1>8, <1>9, <3>1
  <2> HIDE DEF a, b
  <2>3. SubSeq(u, a + 1, b) \in Seq(Unit(Es))
    BY <1>1, <2>2, Slice
  <2> QED BY <2>1, <2>3 DEF a, b
<1> HIDE DEF q
<1>12. elements \in Seq(Element(Es)) /\ Len(elements) = m
  <2>1. elements \in [1..m -> Element(Es)]
    <3>1. \A k \in 1..m : k \in 1..n
      BY <1>6, <1>7
    <3> HIDE DEF m
    <3> QED BY <1>11, <3>1 DEF elements, Element
  <2> HIDE DEF m
  <2>2. elements \in Seq(Element(Es))
    BY <1>7, <2>1, SeqDef
  <2> QED BY <1>7, <2>1, <2>2, LenProperties
<1>13. r.elements = elements /\ r \in Coding(Es)
  <2>1. Piece(u, n) \in Seq(Unit(Es)) /\ <<>> \in Seq(Unit(Es))
    BY <1>6, <1>11, EmptySeq
  <2> QED BY <1>2, <1>12, <2>1 DEF Coding
<1> DEFINE cut == [k \in 0..m |-> q(k)]
<1>14. Cuts(cut, r.elements, u)
  <2>1. cut \in [0..m -> Nat] /\ cut[0] = 0
    BY <1>6, <1>7, <1>8, <1>10
  <2>2. ASSUME NEW k \in 1..m
        PROVE  cut[k - 1] <= cut[k] /\ elements[k].data = SubSeq(u, cut[k - 1] + 1, cut[k])
    <3>1. k \in 1..n /\ k - 1 \in 0..m /\ k \in 0..m
      BY <1>6, <1>7
    <3>2. elements[k].data = Piece(u, k)
      BY <2>2 DEF elements
    <3> HIDE DEF m
    <3> QED BY <1>9, <1>11, <3>1, <3>2
  <2> HIDE DEF cut, m
  <2> QED BY <1>12, <1>13, <2>1, <2>2 DEF Cuts
<1>15. cut[m] = q(m) /\ q(m) <= Len(u)
  BY <1>6, <1>7, <1>8
<1>16. r.buffer = SubSeq(u, cut[m] + 1, Len(u)) /\ (isLast => cut[m] = Len(u) /\ m > 0)
  <2>1. CASE isLast
    <3>1. cut[m] = Len(u) /\ m > 0
      BY <1>6, <1>10, <1>15, <2>1
    <3>2. SubSeq(u, Len(u) + 1, Len(u)) = <<>>
      BY <1>5, SubSeqEmpty
    <3> HIDE DEF cut, m
    <3> QED BY <1>2, <2>1, <3>1, <3>2
  <2>2. CASE ~isLast
    <3>1. m = n - 1 /\ n \in 1..n
      BY <1>6, <2>2
    <3>2. Piece(u, n) = SubSeq(u, q(m) + 1, q(n))
      BY <1>11, <3>1
    <3> HIDE DEF cut, m
    <3> QED BY <1>2, <1>6, <1>10, <1>15, <2>2, <3>2
  <2> QED BY <2>1, <2>2
<1>17. \A k \in 1..m : elements[k].final = (isLast /\ k = m)
  <2> TAKE k \in 1..m
  <2>1. elements[k].final = (isLast /\ k = n)
    BY DEF elements
  <2> QED BY <2>1
<1> HIDE DEF cut, m
<1>18. Len(r.elements) = m
  BY <1>12, <1>13
<1>19. Divided(u, isLast, r)
  BY <1>13, <1>14, <1>15, <1>16, <1>17, <1>18 DEF Divided
<1> QED BY <1>13, <1>19 DEF u, r

LEMMA CallsDef ==
    ASSUME NEW Es, Sized(Es), NEW C \in Seq(Es)
    PROVE  /\ Calls(C)[0] = [elements |-> <<>>, buffer |-> <<>>]
           /\ \A i \in 1..Len(C) :
                 LET next == EncodeCall(Calls(C)[i - 1].buffer, Units(C[i]), i = Len(C))
                 IN  Calls(C)[i] = [elements |-> Calls(C)[i - 1].elements \o next.elements,
                                    buffer   |-> next.buffer]
           /\ \A i \in 0..Len(C) : Calls(C)[i] \in Coding(Es)
<1> DEFINE start == [elements |-> <<>>, buffer |-> <<>>]
           Step(i, s) == [elements |-> s.elements \o EncodeCall(s.buffer, Units(C[i]), i = Len(C)).elements,
                          buffer   |-> EncodeCall(s.buffer, Units(C[i]), i = Len(C)).buffer]
           next  == [i \in 1..Len(C) |-> [s \in Coding(Es) |-> Step(i, s)]]
           Eq(f) == f = [i \in 0..Len(C) |-> IF i = 0 THEN start ELSE Step(i, f[i - 1])]
<1>1. Len(C) \in Nat /\ \A i \in 1..Len(C) : C[i] \in Es /\ SizeOf[C[i]] \in Nat
  BY LenProperties DEF Sized
<1>2. start \in Coding(Es)
  BY EmptySeq DEF Coding
<1>3. ASSUME NEW i \in 1..Len(C), NEW s \in Coding(Es) PROVE Step(i, s) \in Coding(Es)
  <2> DEFINE r == EncodeCall(s.buffer, Units(C[i]), i = Len(C))
  <2>1. s.buffer \in Seq(Unit(Es)) /\ s.elements \in Seq(Element(Es))
    BY DEF Coding
  <2>2. Units(C[i]) \in Seq(Unit(Es)) /\ Len(Units(C[i])) = SizeOf[C[i]] + 1
    BY <1>1, UnitsType
  <2>3. s.buffer \o Units(C[i]) \in Seq(Unit(Es)) /\ s.buffer \o Units(C[i]) # <<>>
    <3>1. Units(C[i]) # <<>>
      BY <1>1, <2>2, EmptySeq
    <3> QED BY <2>1, <2>2, <3>1, ConcatProperties, ConcatEqualIffEmpty
  <2>4. r \in Coding(Es)
    BY <2>3, CallCuts
  <2> HIDE DEF r
  <2>5. r.buffer \in Seq(Unit(Es)) /\ r.elements \in Seq(Element(Es))
    BY <2>4 DEF Coding
  <2>6. s.elements \o r.elements \in Seq(Element(Es))
    BY <2>1, <2>5, ConcatProperties
  <2>7. Step(i, s) = [elements |-> s.elements \o r.elements, buffer |-> r.buffer]
    BY DEF r
  <2> QED BY <2>5, <2>6, <2>7 DEF Coding
<1>4. PICK f : Iterates(f, Len(C), Coding(Es), start, next)
  <2>1. next \in [1..Len(C) -> [Coding(Es) -> Coding(Es)]]
    <3> HIDE DEF Step
    <3> QED BY <1>3
  <2> HIDE DEF next, start
  <2> QED BY <1>1, <1>2, <2>1, Recursion
<1>5. /\ f \in [0..Len(C) -> Coding(Es)] /\ f[0] = start
      /\ \A i \in 1..Len(C) : f[i] = Step(i, f[i - 1])
  <2>1. f \in [0..Len(C) -> Coding(Es)] /\ f[0] = start
        /\ \A i \in 1..Len(C) : f[i] = next[i][f[i - 1]]
    <3> HIDE DEF next, start
    <3> QED BY <1>4 DEF Iterates
  <2>2. ASSUME NEW i \in 1..Len(C) PROVE f[i] = Step(i, f[i - 1])
    <3>1. i - 1 \in 0..Len(C)
      BY <1>1
    <3>2. f[i - 1] \in Coding(Es)
      BY <2>1, <3>1
    <3> HIDE DEF start, Step
    <3> QED BY <2>1, <3>2
  <2> QED BY <2>1, <2>2
<1>6. Eq(f)
  <2>1. \A i \in 0..Len(C) : f[i] = IF i = 0 THEN start ELSE Step(i, f[i - 1])
    <3> TAKE i \in 0..Len(C)
    <3>1. i = 0 \/ i \in 1..Len(C)
      BY <1>1
    <3> HIDE DEF start, Step
    <3> QED BY <1>5, <3>1
  <2> HIDE DEF start, Step
  <2> QED BY <1>5, <2>1
<1>7. Calls(C) = CHOOSE g : Eq(g)
  BY DEF Calls
<1>8. Eq(Calls(C))
  <2> HIDE DEF Eq
  <2> QED BY <1>6, <1>7
<1>9. \A i \in 0..Len(C) : Calls(C)[i] = IF i = 0 THEN start ELSE Step(i, Calls(C)[i - 1])
  <2> DEFINE g == Calls(C)
  <2>1. g = [i \in 0..Len(C) |-> IF i = 0 THEN start ELSE Step(i, g[i - 1])]
    BY <1>8
  <2> HIDE DEF g, start, Step
  <2> QED BY <2>1 DEF g
<1>10. Calls(C)[0] = start /\ \A i \in 1..Len(C) : Calls(C)[i] = Step(i, Calls(C)[i - 1])
  <2>1. 0 \in 0..Len(C) /\ \A i \in 1..Len(C) : i \in 0..Len(C) /\ i # 0
    BY <1>1
  <2> HIDE DEF start, Step
  <2> QED BY <1>9, <2>1
<1> DEFINE S == {i \in 0..Len(C) : Calls(C)[i] \in Coding(Es)}
<1>11. 0 \in S
  <2> HIDE DEF start, Step
  <2> QED BY <1>1, <1>2, <1>10
<1>12. ASSUME NEW i \in 0..(Len(C) - 1), i \in S PROVE i + 1 \in S
  <2>1. i + 1 \in 1..Len(C) /\ i + 1 \in 0..Len(C) /\ (i + 1) - 1 = i
    BY <1>1
  <2>2. Calls(C)[i + 1] = Step(i + 1, Calls(C)[i])
    <3> HIDE DEF start, Step
    <3> QED BY <1>10, <2>1
  <2>3. Step(i + 1, Calls(C)[i]) \in Coding(Es)
    <3> HIDE DEF Step
    <3> QED BY <1>3, <1>12, <2>1
  <2> HIDE DEF Step
  <2> QED BY <2>1, <2>2, <2>3
<1>13. \A i \in 0..Len(C) : Calls(C)[i] \in Coding(Es)
  <2> HIDE DEF S
  <2>1. 0..Len(C) \subseteq S
    BY <1>1, <1>11, <1>12, Induction
  <2> QED BY <2>1 DEF S
<1> QED BY <1>10, <1>13

(* After i calls: the elements, and then the buffer, hold the stream of the first i envelopes. *)
Written(C, ends, all, i, x) ==
    /\ \E cut : /\ Cuts(cut, x.elements, all) /\ cut[Len(x.elements)] <= ends[i]
                /\ x.buffer = SubSeq(all, cut[Len(x.elements)] + 1, ends[i])
                /\ i = Len(C) => cut[Len(x.elements)] = ends[i]
                                 /\ (i > 0 => Len(x.elements) > 0)
    /\ \A k \in 1..Len(x.elements) : x.elements[k].final = (i = Len(C) /\ k = Len(x.elements))

CutTo(elements, s, p) == \E cut : Cuts(cut, elements, s) /\ cut[Len(elements)] = p

(* Cuts of a part of s that begins at a, after cuts of s up to there. *)
LEMMA CutsJoin ==
    ASSUME NEW Es, NEW s \in Seq(Unit(Es)), NEW a \in Nat, NEW b \in Nat, a <= b, b <= Len(s),
           NEW x \in Seq(Element(Es)), NEW y \in Seq(Element(Es)), NEW d \in Nat, d <= b - a,
           CutTo(x, s, a), CutTo(y, SubSeq(s, a + 1, b), d)
    PROVE  CutTo(x \o y, s, a + d)
<1>21. PICK cut : Cuts(cut, x, s) /\ cut[Len(x)] = a
  BY DEF CutTo
<1>22. PICK new : Cuts(new, y, SubSeq(s, a + 1, b)) /\ new[Len(y)] = d
  BY DEF CutTo
<1> DEFINE n == Len(x)
           m == Len(y)
           both == [k \in 0..(n + m) |-> IF k <= n THEN cut[k] ELSE a + new[k - n]]
<1>1. n \in Nat /\ m \in Nat
  BY LenProperties
<1>2. x \o y \in Seq(Element(Es)) /\ Len(x \o y) = n + m
      /\ \A k \in 1..(n + m) : (x \o y)[k] = IF k <= n THEN x[k] ELSE y[k - n]
  BY ConcatProperties
<1>3. /\ cut \in [0..n -> Nat] /\ cut[0] = 0
      /\ \A k \in 1..n : cut[k - 1] <= cut[k] /\ x[k].data = SubSeq(s, cut[k - 1] + 1, cut[k])
  BY <1>21 DEF Cuts
<1>4. /\ new \in [0..m -> Nat] /\ new[0] = 0
      /\ \A k \in 1..m : /\ new[k - 1] <= new[k]
                         /\ y[k].data = SubSeq(SubSeq(s, a + 1, b), new[k - 1] + 1, new[k])
  BY <1>22 DEF Cuts
<1>5. new[m] <= b - a
  BY <1>22
<1> HIDE DEF n, m
<1>6. cut[n] = a
  BY <1>21 DEF n
<1>7. \A k \in 0..m : new[k] \in Nat /\ new[k] <= b - a
  <2> DEFINE S == {g \in 0..m : new[m - g] <= b - a}
  <2>1. 0 \in S
    BY <1>1, <1>5
  <2>2. ASSUME NEW g \in 0..(m - 1), g \in S PROVE g + 1 \in S
    <3>1. m - g \in 1..m /\ (m - g) - 1 = m - (g + 1) /\ g + 1 \in 0..m /\ m - (g + 1) \in 0..m /\ m - g \in 0..m
      BY <1>1
    <3>2. new[(m - g) - 1] <= new[m - g] /\ new[m - g] \in Nat /\ new[m - (g + 1)] \in Nat
      BY <1>4, <3>1
    <3>3. new[m - g] <= b - a
      BY <2>2
    <3>4. new[m - (g + 1)] <= b - a
      BY <3>1, <3>2, <3>3
    <3> QED BY <3>1, <3>4
  <2>3. 0..m \subseteq S
    <3> HIDE DEF S
    <3> QED BY <1>1, <2>1, <2>2, Induction
  <2> TAKE k \in 0..m
  <2>4. m - k \in 0..m /\ m - (m - k) = k
    BY <1>1
  <2>5. m - k \in S
    <3> HIDE DEF S
    <3> QED BY <2>3, <2>4
  <2>6. new[m - (m - k)] <= b - a
    BY <2>5
  <2> QED BY <1>4, <2>4, <2>6
<1>8. both \in [0..(n + m) -> Nat] /\ both[0] = 0
  <2>1. ASSUME NEW k \in 0..(n + m)
        PROVE  (IF k <= n THEN cut[k] ELSE a + new[k - n]) \in Nat
    <3>1. CASE k <= n
      <4>1. k \in 0..n
        BY <1>1, <3>1
      <4> QED BY <1>3, <3>1, <4>1
    <3>2. CASE ~(k <= n)
      <4>1. k - n \in 0..m
        BY <1>1, <3>2
      <4>2. new[k - n] \in Nat
        BY <1>4, <4>1
      <4> QED BY <3>2, <4>2
    <3> QED BY <3>1, <3>2
  <2>2. 0 \in 0..(n + m) /\ 0 <= n
    BY <1>1
  <2> QED BY <1>3, <2>1, <2>2
<1>9. ASSUME NEW k \in 1..(n + m)
      PROVE  /\ both[k - 1] <= both[k]
             /\ (x \o y)[k].data = SubSeq(s, both[k - 1] + 1, both[k])
  <2>1. k - 1 \in 0..(n + m) /\ k \in 0..(n + m)
    BY <1>1
  <2>2. CASE k <= n
    <3>1. k \in 1..n /\ both[k - 1] = cut[k - 1] /\ both[k] = cut[k] /\ (x \o y)[k] = x[k]
      BY <1>1, <1>2, <2>1, <2>2
    <3> HIDE DEF both
    <3> QED BY <1>3, <3>1
  <2>3. CASE ~(k <= n)
    <3> DEFINE j == k - n
    <3>1. j \in 1..m /\ j - 1 \in 0..m /\ j \in 0..m
      BY <1>1, <2>3
    <3>2. both[k] = a + new[j] /\ (x \o y)[k] = y[j]
      BY <1>2, <2>1, <2>3
    <3>3. both[k - 1] = a + new[j - 1]
      <4>1. CASE k - 1 = n
        <5>1. both[k - 1] = cut[n] /\ j - 1 = 0
          BY <1>1, <2>1, <4>1
        <5> HIDE DEF both, j
        <5> QED BY <1>4, <1>6, <5>1
      <4>2. CASE k - 1 # n
        <5>1. ~(k - 1 <= n) /\ (k - 1) - n = j - 1
          BY <1>1, <2>3, <4>2
        <5> QED BY <2>1, <5>1
      <4> QED BY <4>1, <4>2
    <3> HIDE DEF both, j
    <3> DEFINE c == new[j - 1]
               f == new[j]
    <3>4. c \in Nat /\ f \in Nat /\ c <= f /\ f <= b - a
          /\ y[j].data = SubSeq(SubSeq(s, a + 1, b), c + 1, f)
      BY <1>4, <1>7, <3>1
    <3> HIDE DEF c, f
    <3>5. SubSeq(SubSeq(s, a + 1, b), c + 1, f) = SubSeq(s, (a + c) + 1, a + f)
      BY <3>4, SliceOfSlice
    <3>6. both[k] = a + f /\ both[k - 1] = a + c
      BY <3>2, <3>3 DEF c, f
    <3>7. both[k - 1] <= both[k]
      BY <3>4, <3>6
    <3>8. (x \o y)[k].data = SubSeq(s, both[k - 1] + 1, both[k])
      BY <3>2, <3>4, <3>5, <3>6, Zenon
    <3> QED BY <3>7, <3>8
  <2> QED BY <2>2, <2>3
<1>10. both[n + m] = a + new[m]
  <2>1. n + m \in 0..(n + m)
    BY <1>1
  <2>2. CASE m = 0
    BY <1>1, <1>4, <1>6, <2>1, <2>2
  <2>3. CASE m # 0
    <3>1. ~(n + m <= n) /\ (n + m) - n = m
      BY <1>1, <2>3
    <3> QED BY <2>1, <3>1
  <2> QED BY <2>2, <2>3
<1> HIDE DEF both
<1>11. Cuts(both, x \o y, s)
  BY <1>2, <1>8, <1>9 DEF Cuts
<1> QED BY <1>2, <1>10, <1>11, <1>22 DEF n, m, CutTo

LEMMA CallWrites ==
    ASSUME NEW Es, Sized(Es), NEW C \in Seq(Es), NEW ends, NEW all, Serial(Es, C, ends, all),
           NEW i \in 0..(Len(C) - 1), NEW x \in Coding(Es), Written(C, ends, all, i, x)
    PROVE  LET r == EncodeCall(x.buffer, Units(C[i + 1]), i + 1 = Len(C))
           IN  Written(C, ends, all, i + 1,
                       [elements |-> x.elements \o r.elements, buffer |-> r.buffer])
<1> DEFINE last == (i + 1 = Len(C))
           e == C[i + 1]
           r == EncodeCall(x.buffer, Units(e), last)
           u == x.buffer \o Units(e)
           b == ends[i]
           c == ends[i + 1]
<1>1. Len(C) \in Nat /\ i \in 0..Len(C) /\ i + 1 \in 0..Len(C) /\ i + 1 \in 1..Len(C) /\ (i + 1) - 1 = i
      /\ i # Len(C)
  BY LenProperties
<1>2. b \in Nat /\ c \in Nat /\ c <= Len(all) /\ Len(all) \in Nat /\ all \in Seq(Unit(Es))
  BY <1>1, EndsBound DEF Serial
<1>3. /\ e \in Es /\ SizeOf[e] \in Nat /\ c = b + (SizeOf[e] + 1)
      /\ \A k \in 1..(SizeOf[e] + 1) : all[b + k] = [env |-> e, at |-> k - 1]
  <2>1. e \in Es
    BY <1>1, LenProperties
  <2>2. ends[i + 1] = ends[(i + 1) - 1] + (SizeOf[C[i + 1]] + 1)
    BY <1>1 DEF Serial, Ends
  <2>3. \A k \in 1..(SizeOf[C[i + 1]] + 1) :
           all[ends[(i + 1) - 1] + k] = [env |-> C[i + 1], at |-> k - 1]
    BY <1>1 DEF Serial
  <2> QED BY <1>1, <2>1, <2>2, <2>3 DEF Sized
<1>4. PICK cut : /\ Cuts(cut, x.elements, all) /\ cut[Len(x.elements)] <= ends[i]
                 /\ x.buffer = SubSeq(all, cut[Len(x.elements)] + 1, ends[i])
  BY DEF Written
<1>5. \A k \in 1..Len(x.elements) : x.elements[k].final = FALSE
  BY <1>1 DEF Written
<1> DEFINE a == cut[Len(x.elements)]
<1>6. x.elements \in Seq(Element(Es)) /\ x.buffer \in Seq(Unit(Es)) /\ Len(x.elements) \in Nat
  BY LenProperties DEF Coding
<1>7. a \in Nat /\ a <= b /\ x.buffer = SubSeq(all, a + 1, b)
  <2>1. Len(x.elements) \in 0..Len(x.elements)
    BY <1>6
  <2> QED BY <1>4, <2>1 DEF Cuts
<1> HIDE DEF a, b, c, e, last
<1>8. SubSeq(all, b + 1, c) = Units(e)
  <2>1. b <= c
    BY <1>2, <1>3
  <2>2. /\ SubSeq(all, b + 1, c) \in Seq(Unit(Es)) /\ Len(SubSeq(all, b + 1, c)) = c - b
        /\ \A k \in 1..(c - b) : SubSeq(all, b + 1, c)[k] = all[b + k]
    BY <1>2, <2>1, Slice
  <2>3. /\ Units(e) \in Seq(Unit(Es)) /\ Len(Units(e)) = SizeOf[e] + 1
        /\ \A k \in 1..(SizeOf[e] + 1) : Units(e)[k] = [env |-> e, at |-> k - 1]
    BY <1>3, UnitsType
  <2>4. c - b = SizeOf[e] + 1
    BY <1>2, <1>3
  <2>5. \A k \in 1..(c - b) : SubSeq(all, b + 1, c)[k] = Units(e)[k]
    BY <1>3, <2>2, <2>3, <2>4
  <2>6. Len(SubSeq(all, b + 1, c)) = Len(Units(e))
    BY <2>2, <2>3, <2>4
  <2> QED BY <2>2, <2>3, <2>5, <2>6, SeqEqual
<1>9. u = SubSeq(all, a + 1, c) /\ Len(u) = c - a /\ u \in Seq(Unit(Es)) /\ u # <<>> /\ a <= c
  <2>1. b <= c /\ a <= c /\ c - a # 0 /\ c <= Len(all)
    BY <1>2, <1>3, <1>7
  <2>2. SubSeq(all, a + 1, b) \o SubSeq(all, b + 1, c) = SubSeq(all, a + 1, c)
    BY <1>2, <1>7, <2>1, SlicesJoin
  <2>3. u = SubSeq(all, a + 1, c)
    BY <1>7, <1>8, <2>2
  <2>4. SubSeq(all, a + 1, c) \in Seq(Unit(Es)) /\ Len(SubSeq(all, a + 1, c)) = c - a
    BY <1>2, <1>7, <2>1, Slice
  <2>5. Len(<<>>) = 0
    BY EmptySeq
  <2> HIDE DEF u
  <2> QED BY <2>1, <2>3, <2>4, <2>5
<1>10. r \in Coding(Es) /\ Divided(u, last, r)
  <2>1. last \in BOOLEAN
    BY DEF last
  <2> QED BY <1>9, <2>1, CallCuts
<1> HIDE DEF r, u
<1>22. PICK new : /\ Cuts(new, r.elements, u) /\ new[Len(r.elements)] <= Len(u)
                  /\ r.buffer = SubSeq(u, new[Len(r.elements)] + 1, Len(u))
                  /\ last => new[Len(r.elements)] = Len(u) /\ Len(r.elements) > 0
  BY <1>10 DEF Divided
<1>11. \A k \in 1..Len(r.elements) : r.elements[k].final = (last /\ k = Len(r.elements))
  BY <1>10 DEF Divided
<1>12. r.elements \in Seq(Element(Es)) /\ r.buffer \in Seq(Unit(Es)) /\ Len(r.elements) \in Nat
  BY <1>10, LenProperties DEF Coding
<1> DEFINE d == new[Len(r.elements)]
<1>13. d \in Nat /\ d <= c - a
  <2>1. Len(r.elements) \in 0..Len(r.elements)
    BY <1>12
  <2> QED BY <1>9, <1>22, <2>1 DEF Cuts
<1>14. CutTo(x.elements \o r.elements, all, a + d)
  <2>1. CutTo(x.elements, all, a)
    BY <1>4 DEF a, CutTo
  <2>2. CutTo(r.elements, SubSeq(all, a + 1, c), d)
    BY <1>9, <1>22 DEF CutTo
  <2> HIDE DEF d
  <2> QED BY <1>2, <1>6, <1>7, <1>9, <1>12, <1>13, <2>1, <2>2, CutsJoin
<1> HIDE DEF d
<1>15. r.buffer = SubSeq(all, (a + d) + 1, c)
  <2>1. r.buffer = SubSeq(SubSeq(all, a + 1, c), d + 1, c - a)
    BY <1>9, <1>22 DEF d
  <2>2. c - a \in Nat /\ c - a <= c - a /\ a + (c - a) = c
    BY <1>2, <1>7, <1>9
  <2>3. SubSeq(SubSeq(all, a + 1, c), d + 1, c - a) = SubSeq(all, (a + d) + 1, a + (c - a))
    BY <1>2, <1>7, <1>9, <1>13, <2>2, SliceOfSlice
  <2> QED BY <2>1, <2>2, <2>3
<1>16. a + d <= c /\ (last => a + d = c)
  BY <1>2, <1>7, <1>9, <1>22, <1>13 DEF d
<1>17. /\ Len(x.elements \o r.elements) = Len(x.elements) + Len(r.elements)
       /\ \A k \in 1..(Len(x.elements) + Len(r.elements)) : (x.elements \o r.elements)[k] =
             IF k <= Len(x.elements) THEN x.elements[k] ELSE r.elements[k - Len(x.elements)]
  BY <1>6, <1>12, ConcatProperties
<1> DEFINE n == Len(x.elements)
           m == Len(r.elements)
           z == x.elements \o r.elements
<1>23. /\ n \in Nat /\ m \in Nat /\ Len(z) = n + m
       /\ \A k \in 1..(n + m) : z[k] = IF k <= n THEN x.elements[k] ELSE r.elements[k - n]
       /\ \A k \in 1..n : x.elements[k].final = FALSE
       /\ \A k \in 1..m : r.elements[k].final = (last /\ k = m)
  BY <1>5, <1>6, <1>11, <1>12, <1>17
<1>24. last => m > 0
  BY <1>22
<1> HIDE DEF n, m, z
<1>18. \A k \in 1..Len(z) : z[k].final = (last /\ k = Len(z))
  <2> TAKE k \in 1..Len(z)
  <2>1. k \in 1..(n + m)
    BY <1>23
  <2>2. CASE k <= n
    <3>1. z[k].final = FALSE
      <4>1. k \in 1..n
        BY <1>23, <2>1, <2>2
      <4> QED BY <1>23, <2>1, <2>2, <4>1
    <3>2. m > 0 => k # Len(z)
      BY <1>23, <2>1, <2>2
    <3> QED BY <1>24, <3>1, <3>2
  <2>3. CASE ~(k <= n)
    <3>1. k - n \in 1..m /\ (k - n = m <=> k = Len(z))
      BY <1>23, <2>1, <2>3
    <3>2. z[k] = r.elements[k - n]
      BY <1>23, <2>1, <2>3
    <3>3. r.elements[k - n].final = (last /\ k - n = m)
      BY <1>23, <3>1
    <3> QED BY <3>1, <3>2, <3>3
  <2> QED BY <2>2, <2>3
<1>19. last => Len(z) > 0
  <2>1. m > 0 => Len(z) > 0
    BY <1>23
  <2> QED BY <1>24, <2>1
<1> HIDE DEF z
<1> DEFINE y == [elements |-> x.elements \o r.elements, buffer |-> r.buffer]
<1>20. y.elements = x.elements \o r.elements /\ y.buffer = r.buffer
  OBVIOUS
<1> HIDE DEF y
<1>21. Written(C, ends, all, i + 1, y)
  BY <1>14, <1>15, <1>16, <1>18, <1>19, <1>20 DEF Written, CutTo, last, c, z
<1> QED BY <1>21 DEF y, r, e, last

(* The elements of a whole stream hold all of it, in order, although many calls make it;
   the last one is final and no other. *)
LEMMA EncodesAll ==
    ASSUME NEW Es, Sized(Es), NEW C \in Seq(Es), NEW ends, NEW all, Serial(Es, C, ends, all)
    PROVE  /\ Encode(C) \in Seq(Element(Es))
           /\ \E cut : Cuts(cut, Encode(C), all) /\ cut[Len(Encode(C))] = Len(all)
           /\ \A k \in 1..Len(Encode(C)) : Encode(C)[k].final = (k = Len(Encode(C)))
<1> DEFINE S == {i \in 0..Len(C) : Written(C, ends, all, i, Calls(C)[i])}
           x == Calls(C)[Len(C)]
<1>1. Len(C) \in Nat /\ Len(all) = ends[Len(C)] /\ ends[0] = 0 /\ ends[0] \in Nat
  BY LenProperties DEF Serial, Ends
<1>2. 0 \in S
  <2> DEFINE cut == [k \in 0..0 |-> 0]
             start == [elements |-> <<>>, buffer |-> <<>>]
  <2>1. Calls(C)[0] = start /\ start.elements = <<>> /\ start.buffer = <<>>
    BY CallsDef
  <2>2. Len(<<>>) = 0 /\ SubSeq(all, 0 + 1, 0) = <<>>
    BY EmptySeq, SubSeqEmpty
  <2>3. cut \in [0..0 -> Nat] /\ cut[0] = 0
    OBVIOUS
  <2> HIDE DEF cut, start
  <2>4. Cuts(cut, <<>>, all)
    BY <2>2, <2>3 DEF Cuts
  <2>5. Written(C, ends, all, 0, start)
    BY <1>1, <2>1, <2>2, <2>3, <2>4 DEF Written
  <2> QED BY <1>1, <2>1, <2>5
<1>3. ASSUME NEW i \in 0..(Len(C) - 1), i \in S PROVE i + 1 \in S
  <2> DEFINE y == Calls(C)[i]
             r == EncodeCall(y.buffer, Units(C[i + 1]), i + 1 = Len(C))
  <2>1. i + 1 \in 0..Len(C) /\ i + 1 \in 1..Len(C) /\ (i + 1) - 1 = i /\ i \in 0..Len(C)
    BY <1>1
  <2>2. y \in Coding(Es)
    BY <2>1, CallsDef
  <2>3. Calls(C)[i + 1] = [elements |-> y.elements \o r.elements, buffer |-> r.buffer]
    <3>1. LET next == EncodeCall(Calls(C)[(i + 1) - 1].buffer, Units(C[i + 1]), i + 1 = Len(C))
          IN  Calls(C)[i + 1] = [elements |-> Calls(C)[(i + 1) - 1].elements \o next.elements,
                                 buffer   |-> next.buffer]
      BY <2>1, CallsDef, Zenon
    <3> QED BY <2>1, <3>1
  <2>4. Written(C, ends, all, i, y)
    BY <1>3
  <2>5. Written(C, ends, all, i + 1, [elements |-> y.elements \o r.elements, buffer |-> r.buffer])
    <3> HIDE DEF y
    <3> QED BY <2>2, <2>4, CallWrites
  <2> HIDE DEF r, y
  <2> QED BY <2>1, <2>3, <2>5
<1>4. Written(C, ends, all, Len(C), x)
  <2>1. Len(C) \in S
    <3> HIDE DEF S
    <3>1. 0..Len(C) \subseteq S
      BY <1>1, <1>2, <1>3, Induction
    <3> QED BY <1>1, <3>1
  <2> QED BY <2>1
<1>5. Encode(C) = x.elements /\ x \in Coding(Es)
  <2>1. Len(C) \in 0..Len(C)
    BY <1>1
  <2>2. x \in Coding(Es)
    BY <2>1, CallsDef, Zenon
  <2> QED BY <2>2, Zenon DEF Encode
<1> HIDE DEF x
<1>6. Encode(C) \in Seq(Element(Es))
  BY <1>5 DEF Coding
<1>7. \E cut : Cuts(cut, x.elements, all) /\ cut[Len(x.elements)] = Len(all)
  BY <1>1, <1>4 DEF Written
<1>8. \A k \in 1..Len(x.elements) : x.elements[k].final = (k = Len(x.elements))
  BY <1>4 DEF Written
<1> QED BY <1>5, <1>6, <1>7, <1>8

(***************************************************************************)
(* How many envelopes begin in a sequence of units.                        *)
(***************************************************************************)
Heads(u) == {k \in 1..Len(u) : u[k].at = 0}
Begin0(u) == Cardinality(Heads(u))

LEMMA HeadsFinite ==
    ASSUME NEW T, NEW u \in Seq(T)
    PROVE  IsFiniteSet(Heads(u)) /\ Begin0(u) \in Nat
<1>1. Len(u) \in Nat
  BY LenProperties
<1>2. IsFiniteSet(1..Len(u)) /\ Heads(u) \subseteq 1..Len(u)
  BY <1>1, FS_Interval DEF Heads
<1> QED BY <1>2, FS_Subset, FS_CardinalityType DEF Begin0

LEMMA HeadsConcat ==
    ASSUME NEW T, NEW u \in Seq(T), NEW v \in Seq(T)
    PROVE  Begin0(u \o v) = Begin0(u) + Begin0(v)
<1> DEFINE n == Len(u)
           m == Len(v)
           w == u \o v
           A == Heads(u)
           B == {k + n : k \in Heads(v)}
           f == [k \in Heads(v) |-> k + n]
<1>1. /\ n \in Nat /\ m \in Nat /\ Len(w) = n + m
      /\ \A k \in 1..(n + m) : w[k] = IF k <= n THEN u[k] ELSE v[k - n]
  BY LenProperties, ConcatProperties
<1> HIDE DEF n, m, w
<1>2. \A k \in 1..n : w[k] = u[k] /\ k \in 1..(n + m)
  BY <1>1
<1>3. \A k \in 1..m : w[k + n] = v[k] /\ k + n \in 1..(n + m)
  <2> TAKE k \in 1..m
  <2>1. k + n \in 1..(n + m) /\ ~(k + n <= n) /\ (k + n) - n = k
    BY <1>1
  <2> QED BY <1>1, <2>1
<1>4. ASSUME NEW k PROVE k \in Heads(w) <=> k \in A \cup B
  <2>1. CASE k \in Heads(w)
    <3>1. k \in 1..(n + m) /\ w[k].at = 0
      BY <1>1, <2>1 DEF Heads
    <3>2. CASE k <= n
      <4>1. k \in 1..n
        BY <1>1, <3>1, <3>2
      <4>2. k \in A
        BY <1>2, <3>1, <4>1 DEF Heads, n
      <4> QED BY <2>1, <4>2
    <3>3. CASE ~(k <= n)
      <4>1. k - n \in 1..m /\ (k - n) + n = k
        BY <1>1, <3>1, <3>3
      <4>2. v[k - n].at = 0
        BY <1>1, <3>1, <3>3
      <4>3. k - n \in Heads(v)
        BY <4>1, <4>2 DEF Heads, m
      <4> QED BY <2>1, <4>1, <4>3
    <3> QED BY <3>2, <3>3
  <2>2. CASE k \in A
    <3>1. k \in 1..n /\ u[k].at = 0
      BY <2>2 DEF Heads, n
    <3> QED BY <1>1, <1>2, <2>2, <3>1 DEF Heads
  <2>3. CASE k \in B
    <3>1. PICK i \in Heads(v) : k = i + n
      BY <2>3
    <3>2. i \in 1..m /\ v[i].at = 0
      BY <3>1 DEF Heads, m
    <3> QED BY <1>1, <1>3, <2>3, <3>1, <3>2 DEF Heads
  <2> QED BY <2>1, <2>2, <2>3
<1>5. Heads(w) = A \cup B
  BY <1>4
<1>6. IsFiniteSet(A) /\ IsFiniteSet(Heads(v)) /\ Cardinality(A) \in Nat /\ Cardinality(Heads(v)) \in Nat
  BY HeadsFinite DEF Begin0
<1>7. IsFiniteSet(B) /\ Cardinality(B) = Cardinality(Heads(v))
  <2>1. f \in Bijection(Heads(v), B)
    <3>1. \A k \in Heads(v) : k \in Nat
      BY <1>1 DEF Heads, m
    <3>2. f \in [Heads(v) -> B]
      OBVIOUS
    <3>3. \A i, j \in Heads(v) : f[i] = f[j] => i = j
      BY <1>1, <3>1
    <3>4. \A b \in B : \E k \in Heads(v) : f[k] = b
      OBVIOUS
    <3> HIDE DEF f, B
    <3>5. f \in Injection(Heads(v), B)
      BY <3>2, <3>3, Fun_IsInj, Zenon
    <3>6. f \in Surjection(Heads(v), B)
      BY <3>2, <3>4, Fun_IsSurj, Zenon
    <3> QED BY <3>5, <3>6 DEF Bijection
  <2> HIDE DEF f, B
  <2> QED BY <1>6, <2>1, FS_Bijection DEF ExistsBijection
<1>8. A \cap B = {}
  <2> SUFFICES ASSUME NEW k \in A, k \in B PROVE FALSE
    OBVIOUS
  <2>1. k \in Nat /\ k <= n
    BY <1>1 DEF Heads, n
  <2>2. PICK i \in Heads(v) : k = i + n
    OBVIOUS
  <2>3. i \in Nat /\ i >= 1
    BY <1>1, <2>2 DEF Heads, m
  <2> QED BY <1>1, <2>1, <2>2, <2>3
<1> HIDE DEF A, B
<1>9. Cardinality(A \cup B) = Cardinality(A) + Cardinality(B)
  <2>1. Cardinality(A \cup B) = Cardinality(A) + Cardinality(B) - Cardinality(A \cap B)
    BY <1>6, <1>7, FS_Union
  <2>2. Cardinality(A \cap B) = 0
    BY <1>8, FS_EmptySet
  <2> QED BY <1>6, <1>7, <2>1, <2>2
<1> QED BY <1>5, <1>7, <1>9 DEF Begin0, A, w

LEMMA HeadsOfUnits ==
    ASSUME NEW Es, NEW e \in Es, SizeOf[e] \in Nat
    PROVE  Begin0(Units(e)) = 1
<1>1. /\ Len(Units(e)) = SizeOf[e] + 1
      /\ \A k \in 1..(SizeOf[e] + 1) : Units(e)[k] = [env |-> e, at |-> k - 1]
  BY UnitsType
<1>2. Heads(Units(e)) = {1}
  <2>1. ASSUME NEW k \in 1..(SizeOf[e] + 1) PROVE Units(e)[k].at = 0 <=> k = 1
    <3>1. Units(e)[k] = [env |-> e, at |-> k - 1]
      BY <1>1
    <3> HIDE DEF Units
    <3>2. \A x : x = [env |-> e, at |-> k - 1] => x.at = k - 1
      OBVIOUS
    <3>3. Units(e)[k].at = k - 1
      BY <3>1, <3>2, Zenon
    <3> QED BY <3>3
  <2>2. 1 \in 1..(SizeOf[e] + 1)
    OBVIOUS
  <2> QED BY <1>1, <2>1, <2>2 DEF Heads
<1> QED BY <1>2, FS_Singleton DEF Begin0

LEMMA HeadsOfNothing == Begin0(<<>>) = 0
<1>1. Heads(<<>>) = {}
  BY EmptySeq DEF Heads
<1> QED BY <1>1, FS_EmptySet DEF Begin0

(* What decoding takes off, and what it leaves: as many envelopes as begin in the buffer, or
   fewer, and each of them one that has a unit there. *)
LEMMA DecodeTakes ==
    ASSUME NEW Es, Sized(Es), NEW u \in Seq(Unit(Es))
    PROVE  /\ Decode(u) \in Decoding(Es)
           /\ Len(Decode(u).envelopes) + Begin0(Decode(u).rest) <= Begin0(u)
<1> DEFINE Good(s) == s \in Decoding(Es) /\ Len(s.envelopes) + Begin0(s.rest) <= Begin0(u)
           S == {n \in 0..Len(u) : Good(Rounds(u)[n])}
<1>1. Len(u) \in Nat /\ Begin0(u) \in Nat
  BY LenProperties, HeadsFinite
<1>2. 0 \in S
  <2>1. Rounds(u)[0] = [envelopes |-> <<>>, rest |-> u, failed |-> FALSE]
    BY RoundsDef
  <2>2. Good(Rounds(u)[0])
    BY <1>1, <2>1, EmptySeq DEF Decoding
  <2> QED BY <1>1, <2>2
<1>3. ASSUME NEW s \in Decoding(Es), Good(s) PROVE Good(TakeFirst(s))
  <2>1. s.rest \in Seq(Unit(Es)) /\ s.envelopes \in Seq(Es) /\ TakeFirst(s) \in Decoding(Es)
    BY TakeFirstType DEF Decoding
  <2> DEFINE v == s.rest
             h == SubSeq(v, 1, Size(v))
             t == SubSeq(v, Size(v) + 1, Len(v))
  <2>2. CASE s.failed \/ ~Whole(v)
    BY <1>3, <2>2 DEF TakeFirst
  <2>3. CASE ~s.failed /\ Whole(v) /\ h # Units(v[1].env)
    <3>1. TakeFirst(s) = [s EXCEPT !.failed = TRUE]
      BY <2>3 DEF TakeFirst
    <3>2. TakeFirst(s).envelopes = s.envelopes /\ TakeFirst(s).rest = s.rest
      BY <3>1 DEF Decoding
    <3> QED BY <1>3, <2>1, <3>2
  <2>4. CASE ~s.failed /\ Whole(v) /\ h = Units(v[1].env)
    <3>1. TakeFirst(s) = [s EXCEPT !.envelopes = Append(s.envelopes, v[1].env), !.rest = t]
      BY <2>4 DEF TakeFirst
    <3>2. TakeFirst(s).envelopes = Append(s.envelopes, v[1].env) /\ TakeFirst(s).rest = t
      BY <3>1 DEF Decoding
    <3>3. /\ v[1] \in Unit(Es) /\ SizeOf[v[1].env] \in Nat
          /\ h \in Seq(Unit(Es)) /\ t \in Seq(Unit(Es)) /\ h \o t = v
      BY <2>1, <2>4, HeadOff
    <3>4. v[1].env \in Es
      BY <3>3 DEF Unit
    <3> HIDE DEF v, h, t
    <3>5. Begin0(h) = 1
      BY <2>4, <3>3, <3>4, HeadsOfUnits
    <3>6. Begin0(v) = Begin0(h) + Begin0(t) /\ Begin0(t) \in Nat
      BY <3>3, HeadsConcat, HeadsFinite
    <3>7. Len(Append(s.envelopes, v[1].env)) = Len(s.envelopes) + 1 /\ Len(s.envelopes) \in Nat
      BY <2>1, <3>4, AppendProperties, LenProperties
    <3>8. Len(s.envelopes) + Begin0(v) <= Begin0(u)
      BY <1>3 DEF v
    <3>9. Len(TakeFirst(s).envelopes) + Begin0(TakeFirst(s).rest) <= Begin0(u)
      BY <1>1, <3>2, <3>5, <3>6, <3>7, <3>8
    <3> QED BY <2>1, <3>9
  <2> QED BY <2>2, <2>3, <2>4
<1>4. ASSUME NEW n \in 0..(Len(u) - 1), n \in S PROVE n + 1 \in S
  <2>1. n + 1 \in 0..Len(u) /\ n + 1 \in 1..Len(u) /\ (n + 1) - 1 = n
    BY <1>1
  <2>2. Rounds(u)[n + 1] = TakeFirst(Rounds(u)[n])
    BY <2>1, RoundsDef
  <2>3. Good(Rounds(u)[n])
    BY <1>4
  <2>4. Good(TakeFirst(Rounds(u)[n]))
    BY <1>3, <2>3
  <2> HIDE DEF Good
  <2> QED BY <2>1, <2>2, <2>4
<1>5. Len(u) \in S
  <2> HIDE DEF S
  <2>1. 0..Len(u) \subseteq S
    BY <1>1, <1>2, <1>4, Induction
  <2> QED BY <1>1, <2>1
<1> QED BY <1>5 DEF Decode

(* In a stream, as many as there are envelopes. *)
LEMMA HeadsOfStream ==
    ASSUME NEW Es, Sized(Es), NEW C \in Seq(Es), NEW ends, NEW all, Serial(Es, C, ends, all),
           NEW i \in 0..Len(C)
    PROVE  Begin0(SubSeq(all, ends[i] + 1, Len(all))) = Len(C) - i
<1> DEFINE Rest(j) == SubSeq(all, ends[j] + 1, Len(all))
           S == {d \in 0..Len(C) : Begin0(Rest(Len(C) - d)) = d}
<1>1. Len(C) \in Nat /\ Len(all) \in Nat /\ all \in Seq(Unit(Es))
  BY LenProperties DEF Serial
<1>2. 0 \in S
  <2>1. ends[Len(C)] = Len(all) /\ Len(C) - 0 = Len(C) /\ 0 \in 0..Len(C)
    BY <1>1 DEF Serial
  <2>2. SubSeq(all, Len(all) + 1, Len(all)) = <<>>
    BY <1>1, SubSeqEmpty
  <2> QED BY <2>1, <2>2, HeadsOfNothing
<1>3. ASSUME NEW d \in 0..(Len(C) - 1), d \in S PROVE d + 1 \in S
  <2> DEFINE j == Len(C) - (d + 1)
             a == ends[j]
             b == ends[j + 1]
             e == C[j + 1]
  <2>1. /\ d + 1 \in 0..Len(C) /\ j \in 0..Len(C) /\ j + 1 \in 1..Len(C) /\ j + 1 \in 0..Len(C)
        /\ j + 1 = Len(C) - d /\ (j + 1) - 1 = j
    BY <1>1
  <2>2. a \in Nat /\ b \in Nat /\ b <= Len(all)
    <3> HIDE DEF j
    <3> QED BY <2>1, EndsBound
  <2>3. /\ e \in Es /\ SizeOf[e] \in Nat /\ b = a + (SizeOf[e] + 1)
        /\ \A k \in 1..(SizeOf[e] + 1) : all[a + k] = [env |-> e, at |-> k - 1]
    <3> HIDE DEF j
    <3>1. e \in Es
      BY <2>1, LenProperties
    <3>2. ends[j + 1] = ends[(j + 1) - 1] + (SizeOf[C[j + 1]] + 1)
      BY <2>1 DEF Serial, Ends
    <3>3. \A k \in 1..(SizeOf[C[j + 1]] + 1) :
             all[ends[(j + 1) - 1] + k] = [env |-> C[j + 1], at |-> k - 1]
      BY <2>1 DEF Serial
    <3> QED BY <2>1, <3>1, <3>2, <3>3 DEF Sized
  <2>4. Begin0(SubSeq(all, b + 1, Len(all))) = d
    <3>1. Begin0(Rest(Len(C) - d)) = d
      BY <1>3
    <3> QED BY <2>1, <3>1
  <2> HIDE DEF j, a, b, e
  <2>5. SubSeq(all, a + 1, b) = Units(e)
    <3>1. a <= b
      BY <2>2, <2>3
    <3>2. /\ SubSeq(all, a + 1, b) \in Seq(Unit(Es)) /\ Len(SubSeq(all, a + 1, b)) = b - a
          /\ \A k \in 1..(b - a) : SubSeq(all, a + 1, b)[k] = all[a + k]
      BY <1>1, <2>2, <3>1, Slice
    <3>3. /\ Units(e) \in Seq(Unit(Es)) /\ Len(Units(e)) = SizeOf[e] + 1
          /\ \A k \in 1..(SizeOf[e] + 1) : Units(e)[k] = [env |-> e, at |-> k - 1]
      BY <2>3, UnitsType
    <3>4. b - a = SizeOf[e] + 1
      BY <2>2, <2>3
    <3>5. \A k \in 1..(b - a) : SubSeq(all, a + 1, b)[k] = Units(e)[k]
      BY <2>3, <3>2, <3>3, <3>4
    <3> QED BY <3>2, <3>3, <3>4, <3>5, SeqEqual
  <2>6. Begin0(SubSeq(all, a + 1, Len(all))) = d + 1
    <3>1. a <= b /\ Len(all) <= Len(all)
      BY <1>1, <2>2, <2>3
    <3>2. SubSeq(all, a + 1, b) \o SubSeq(all, b + 1, Len(all)) = SubSeq(all, a + 1, Len(all))
      BY <1>1, <2>2, <3>1, SlicesJoin
    <3>3. SubSeq(all, a + 1, b) \in Seq(Unit(Es)) /\ SubSeq(all, b + 1, Len(all)) \in Seq(Unit(Es))
      BY <1>1, <2>2, <3>1, Slice
    <3> DEFINE x == SubSeq(all, a + 1, b)
               y == SubSeq(all, b + 1, Len(all))
    <3>4. Begin0(x) = 1 /\ Begin0(y) = d
      BY <2>3, <2>4, <2>5, HeadsOfUnits
    <3>5. x \in Seq(Unit(Es)) /\ y \in Seq(Unit(Es))
      BY <3>3
    <3>6. Begin0(x \o y) = Begin0(x) + Begin0(y)
      <4> HIDE DEF x, y
      <4> QED BY <3>5, HeadsConcat
    <3> HIDE DEF x, y
    <3>7. Begin0(x \o y) = d + 1
      BY <3>4, <3>6
    <3> QED BY <3>2, <3>7 DEF x, y
  <2> QED BY <2>1, <2>6 DEF a, j
<1>4. Len(C) - i \in S
  <2> HIDE DEF S
  <2>1. 0..Len(C) \subseteq S
    BY <1>1, <1>2, <1>3, Induction
  <2> QED BY <1>1, <2>1
<1>5. Len(C) - (Len(C) - i) = i
  BY <1>1
<1> QED BY <1>4, <1>5

(***************************************************************************)
(* The stream of a cap: where its envelopes end, all its units, and where  *)
(* the boxes cut them.                                                     *)
(***************************************************************************)
Of(c) == {Contents[c][i] : i \in 1..Len(Contents[c])}

IsLayout(c, l) ==
    /\ Serial(Of(c), Contents[c], l.ends, l.all)
    /\ Cuts(l.cut, Stream(c), l.all) /\ l.cut[Len(Stream(c))] = Len(l.all)

Layout(c) == CHOOSE l : IsLayout(c, l)

(* What the boxes after the b-th hold. *)
After(c, b) ==
    LET l == Layout(c)
    IN  SubSeq(l.all, l.cut[IF b <= Len(Stream(c)) THEN b ELSE Len(Stream(c))] + 1, Len(l.all))

(***************************************************************************)
(* Where a Copy is in its stream.                                          *)
(***************************************************************************)
Held(st, e)    == \E r \in Replicas : e \in st[r]
AllHeld(st, c) == \A i \in 1..Len(Contents[c]) : Held(st, Contents[c][i])

InStep(st, c, w, b) ==
    LET C == Contents[c]
        l == Layout(c)
        m == w.done + Len(w.ready)
    IN  /\ b \in 0..Len(Stream(c)) /\ m <= Len(C)
        /\ w.ready = SubSeq(C, w.done + 1, m)
        /\ l.ends[m] <= l.cut[b] /\ w.buffer = SubSeq(l.all, l.ends[m] + 1, l.cut[b])
        /\ b = Len(Stream(c)) => m = Len(C)
        /\ \A i \in 1..w.done : Held(st, C[i])

OutOfStep(st, c, w, b) ==
    /\ b \in Nat /\ AllHeld(st, c)
    /\ w.ready \in Seq(Of(c)) /\ w.buffer \in Seq(Unit(Of(c)))
    /\ w.done + Len(w.ready) + Begin0(w.buffer) + Begin0(After(c, b)) <= Len(Contents[c])

Place(st, c, w, b) == InStep(st, c, w, b) \/ OutOfStep(st, c, w, b)

BoxesRead(w) == IF w.ready = <<>> THEN w.box - 1 ELSE w.box

Places  == {"idle", "queued", "pause", "send", "stuck", "wedged", "wait", "failed", "succeeded"}
Busy    == {"send", "stuck", "wedged", "wait"}
Replies == {"ok", "exists", "busy", "refused", "absent", "data", "blank"}

Task == [at : Places, todo : Seq(Replicas), chan : Seq(Replies), want : Nat, attempt : Nat,
         shard : {1, 2}, box : Nat \ {0}, buffer : Seq(Unit(Envelopes)), ready : Seq(Envelopes),
         done : Nat, code : Replies \cup {"none"}]

OnTrack(st, c, w) ==
    /\ w \in Task /\ w.box <= MaxBoxes /\ w.code # "exists"
    /\ Place(st, c, w, BoxesRead(w))

(* What the replies of one attempt say is true. *)
Hears(st, taken, c, w, code) ==
    IF w.ready # <<>>
    THEN /\ code = "ok" => Held(st, Head(w.ready))
         /\ code = "exists" => Head(w.ready) \in taken
    ELSE /\ code = "data" => w.box \in Boxes(c)
         /\ code = "blank" => AllHeld(st, c)
         /\ code # "exists"

CopyTrue(st, taken, c, w) ==
    w.at # "idle" =>
        /\ w.at \in Busy \cup {"pause"} /\ OnTrack(st, c, w)
        /\ w.at \in Busy => \A i \in 1..Len(w.chan) : Hears(st, taken, c, w, w.chan[i])

(***************************************************************************)
(* The invariant.                                                          *)
(***************************************************************************)
Messages == ({"query"} \X Envelopes) \cup ({"erase"} \X Caps \X Nat)
            \cup ({"read"} \X Caps \X (1..MaxBoxes) \X Nat \X Nat)

TrueMessages(st) == {h \in Messages : h[1] = "erase" => AllHeld(st, h[2])}

Conn(st) == [up : BOOLEAN, queue : Seq(TrueMessages(st)), wire : Seq(TrueMessages(st)),
             waiting : BOOLEAN, hold : Replies \cup {None}]

Verdict == [status : {"InProgress", "Succeeded", "Failed"}, code : Replies \cup {"none"},
            index : Nat, old : BOOLEAN]

Cells == {<<c, k>> : c \in Caps, k \in 1..MaxBoxes}

ReplicasTrue ==
    /\ "taken" \in DOMAIN left
    /\ stored \in [Replicas -> SUBSET Envelopes]
    /\ \A r \in Replicas : stored[r] \cap left.taken = {}
    /\ temp \in [Replicas -> [Cells -> {"data", "none", "blank"}]]
    /\ \A r \in Replicas, c \in Caps : \A k \in 1..MaxBoxes :
          /\ temp[r][<<c, k>>] = "data" => k \in Boxes(c)
          /\ temp[r][<<c, k>>] = "blank" => AllHeld(stored, c)

ConnsTrue ==
    conns \in [Replicas -> Conn(stored) \cup {None}]

TasksTrue ==
    /\ tasks \in [Tasks -> Task]
    /\ \A t \in Tasks : tasks[t].at \in {"queued", "send", "stuck"} => tasks[t].todo # <<>>
    /\ \A e \in Envelopes : tasks[<<"query", e>>].at \in {"idle", "queued", "send", "stuck", "wedged"}
    /\ \A c \in Caps : /\ CopyTrue(stored, left.taken, c, tasks[<<"copy", c>>])
                       /\ tasks[<<"erase", c>>].at # "idle" => AllHeld(stored, c)

CollectorsTrue ==
    \A h \in DOMAIN copyCache :
        LET t == copyCache[h]
        IN  t \in Tasks /\ t[1] # "query" /\ tasks[t].at \in Busy /\ h = Hash(t, tasks[t])

VerdictTrue(st, taken, c, v) ==
    v # None =>
        /\ v.status = "Succeeded" => AllHeld(st, c)
        /\ v.status = "Failed" =>
              /\ v.index \in Nat \ {0} /\ v.index - 1 <= Len(Contents[c])
              /\ \A i \in 1..v.index - 1 : Held(st, Contents[c][i])
              /\ v.code = "exists" => Contents[c][v.index] \in taken

VerdictsTrue ==
    /\ copyDedupCache \in [Caps -> Verdict \cup {None}]
    /\ \A c \in Caps : VerdictTrue(stored, left.taken, c, copyDedupCache[c])

TruthInv == ReplicasTrue /\ ConnsTrue /\ TasksTrue /\ CollectorsTrue /\ VerdictsTrue

(***************************************************************************)
(* The layout of a cap's stream, and what follows of it.                   *)
(***************************************************************************)
LEMMA LayoutIs ==
    ASSUME NEW c \in Caps
    PROVE  /\ Contents[c] \in Seq(Of(c)) /\ Sized(Of(c)) /\ Of(c) \subseteq Envelopes
           /\ Stream(c) \in Seq(Element(Of(c)))
           /\ \A k \in 1..Len(Stream(c)) : Stream(c)[k].final = (k = Len(Stream(c)))
           /\ IsLayout(c, Layout(c))
<1> DEFINE C == Contents[c]
<1>1. C \in Seq(Envelopes) /\ \A e \in Envelopes : SizeOf[e] \in Nat
  BY CourierAssumption
<1>2. Len(C) \in Nat /\ DOMAIN C = 1..Len(C) /\ \A i \in 1..Len(C) : C[i] \in Envelopes
  BY <1>1, LenProperties
<1>3. Of(c) \subseteq Envelopes
  BY <1>2 DEF Of
<1>4. C \in Seq(Of(c))
  <2>1. C \in [1..Len(C) -> Of(c)]
    <3>1. C = [i \in 1..Len(C) |-> C[i]]
      BY <1>1, <1>2
    <3> QED BY <3>1, <1>2 DEF Of
  <2> QED BY <1>2, <2>1, SeqDef
<1>5. Sized(Of(c))
  BY <1>1, <1>3 DEF Sized
<1>6. Stream(c) = Encode(C)
  BY DEF Stream, Streams
<1>7. PICK ends, all : Serial(Of(c), C, ends, all)
  BY <1>4, <1>5, SerialExists
<1>8. /\ Encode(C) \in Seq(Element(Of(c)))
      /\ \E cut : Cuts(cut, Encode(C), all) /\ cut[Len(Encode(C))] = Len(all)
      /\ \A k \in 1..Len(Encode(C)) : Encode(C)[k].final = (k = Len(Encode(C)))
  <2> HIDE DEF C
  <2> QED BY <1>4, <1>5, <1>7, EncodesAll
<1>9. PICK cut : Cuts(cut, Encode(C), all) /\ cut[Len(Encode(C))] = Len(all)
  BY <1>8
<1>10. IsLayout(c, Layout(c))
  <2> DEFINE l == [ends |-> ends, all |-> all, cut |-> cut]
  <2>1. IsLayout(c, l)
    <3>1. l.ends = ends /\ l.all = all /\ l.cut = cut
      OBVIOUS
    <3> HIDE DEF l
    <3> QED BY <1>6, <1>7, <1>9, <3>1 DEF IsLayout
  <2> HIDE DEF l
  <2> QED BY <2>1 DEF Layout
<1> HIDE DEF C
<1> QED BY <1>3, <1>4, <1>5, <1>6, <1>8, <1>10 DEF C

LEMMA LayoutFacts ==
    ASSUME NEW c \in Caps
    PROVE  LET C == Contents[c]
               N == Len(Stream(c))
               l == Layout(c)
           IN  /\ Len(C) \in Nat /\ N \in Nat /\ Len(l.all) \in Nat
               /\ l.all \in Seq(Unit(Of(c)))
               /\ \A k \in 0..N : l.cut[k] \in Nat /\ l.cut[k] <= Len(l.all)
               /\ l.cut[0] = 0 /\ l.cut[N] = Len(l.all)
               /\ \A k \in 1..N : /\ l.cut[k - 1] <= l.cut[k]
                                  /\ Stream(c)[k].data = SubSeq(l.all, l.cut[k - 1] + 1, l.cut[k])
               /\ \A i \in 0..Len(C) : l.ends[i] \in Nat
               /\ l.ends[0] = 0
<1> DEFINE C == Contents[c]
           N == Len(Stream(c))
           l == Layout(c)
<1>1. /\ Serial(Of(c), C, l.ends, l.all) /\ Cuts(l.cut, Stream(c), l.all) /\ l.cut[N] = Len(l.all)
      /\ C \in Seq(Of(c)) /\ Stream(c) \in Seq(Element(Of(c)))
  BY LayoutIs DEF IsLayout
<1> HIDE DEF C, l
<1>2. Len(C) \in Nat /\ N \in Nat /\ l.all \in Seq(Unit(Of(c))) /\ Len(l.all) \in Nat
  BY <1>1, LenProperties DEF Serial
<1>3. (\A i \in 0..Len(C) : l.ends[i] \in Nat) /\ l.ends[0] = 0
  BY <1>1 DEF Serial, Ends
<1> HIDE DEF N
<1>4. /\ \A k \in 0..N : l.cut[k] \in Nat
      /\ l.cut[0] = 0
      /\ \A k \in 1..N : /\ l.cut[k - 1] <= l.cut[k]
                         /\ Stream(c)[k].data = SubSeq(l.all, l.cut[k - 1] + 1, l.cut[k])
  BY <1>1 DEF Cuts, N
<1> DEFINE S == {g \in 0..N : l.cut[N - g] <= Len(l.all)}
<1>5. 0 \in S
  <2>1. N - 0 = N /\ l.cut[N] <= Len(l.all)
    BY <1>1, <1>2
  <2> QED BY <1>2, <2>1
<1>6. ASSUME NEW g \in 0..(N - 1), g \in S PROVE g + 1 \in S
  <2>1. N - g \in 1..N /\ (N - g) - 1 = N - (g + 1) /\ g + 1 \in 0..N /\ N - (g + 1) \in 0..N /\ N - g \in 0..N
    BY <1>2
  <2>2. l.cut[(N - g) - 1] <= l.cut[N - g] /\ l.cut[N - g] \in Nat /\ l.cut[N - (g + 1)] \in Nat
    BY <1>4, <2>1
  <2>3. l.cut[N - g] <= Len(l.all)
    BY <1>6
  <2>4. l.cut[N - (g + 1)] <= Len(l.all)
    BY <1>2, <2>1, <2>2, <2>3
  <2> QED BY <2>1, <2>4
<1>7. 0..N \subseteq S
  <2> HIDE DEF S
  <2> QED BY <1>2, <1>5, <1>6, Induction
<1>8. ASSUME NEW k \in 0..N PROVE l.cut[k] <= Len(l.all)
  <2>1. N - k \in S /\ N - (N - k) = k
    <3>1. N - k \in 0..N /\ N - (N - k) = k
      BY <1>2
    <3> HIDE DEF S
    <3> QED BY <1>7, <3>1
  <2>2. l.cut[N - (N - k)] <= Len(l.all)
    BY <2>1
  <2> QED BY <2>1, <2>2
<1> QED BY <1>1, <1>2, <1>3, <1>4, <1>8 DEF C, N, l

(* The part of the stream that a place splits in two. *)
LEMMA HeadsSplit ==
    ASSUME NEW Es, NEW s \in Seq(Unit(Es)), NEW a \in Nat, NEW b \in Nat, NEW d \in Nat,
           a <= b, b <= d, d <= Len(s)
    PROVE  /\ Begin0(SubSeq(s, a + 1, b)) \in Nat /\ Begin0(SubSeq(s, b + 1, d)) \in Nat
           /\ Begin0(SubSeq(s, a + 1, d)) = Begin0(SubSeq(s, a + 1, b)) + Begin0(SubSeq(s, b + 1, d))
<1> DEFINE x == SubSeq(s, a + 1, b)
           y == SubSeq(s, b + 1, d)
<1>1. x \in Seq(Unit(Es)) /\ y \in Seq(Unit(Es))
  <2>1. Len(s) \in Nat
    BY LenProperties
  <2>2. b <= Len(s)
    BY <2>1
  <2> QED BY <2>2, Slice
<1>2. x \o y = SubSeq(s, a + 1, d)
  BY SlicesJoin
<1> HIDE DEF x, y
<1>3. Begin0(x) \in Nat /\ Begin0(y) \in Nat /\ Begin0(x \o y) = Begin0(x) + Begin0(y)
  BY <1>1, HeadsFinite, HeadsConcat
<1> QED BY <1>2, <1>3 DEF x, y

LEMMA AfterNext ==
    ASSUME NEW c \in Caps, NEW b \in Nat
    PROVE  /\ Begin0(After(c, b)) \in Nat /\ Begin0(After(c, b + 1)) \in Nat
           /\ Begin0(After(c, b + 1)) <= Begin0(After(c, b))
           /\ b + 1 \in 1..Len(Stream(c)) =>
                 /\ Stream(c)[b + 1].data \in Seq(Unit(Of(c)))
                 /\ Begin0(Stream(c)[b + 1].data) + Begin0(After(c, b + 1)) = Begin0(After(c, b))
<1> DEFINE N == Len(Stream(c))
           l == Layout(c)
           L == Len(l.all)
<1>1. /\ N \in Nat /\ L \in Nat /\ l.all \in Seq(Unit(Of(c)))
      /\ \A k \in 0..N : l.cut[k] \in Nat /\ l.cut[k] <= L
      /\ \A k \in 1..N : /\ l.cut[k - 1] <= l.cut[k]
                         /\ Stream(c)[k].data = SubSeq(l.all, l.cut[k - 1] + 1, l.cut[k])
  BY LayoutFacts
<1>2. \A k \in Nat : After(c, k) = SubSeq(l.all, l.cut[IF k <= N THEN k ELSE N] + 1, L)
  BY DEF After
<1> HIDE DEF N, l, L
<1>3. ASSUME NEW k \in Nat PROVE Begin0(After(c, k)) \in Nat
  <2> DEFINE m == IF k <= N THEN k ELSE N
  <2>1. m \in 0..N
    BY <1>1
  <2> HIDE DEF m
  <2>2. SubSeq(l.all, l.cut[m] + 1, L) \in Seq(Unit(Of(c)))
    <3>1. l.cut[m] \in Nat /\ l.cut[m] <= L /\ L <= Len(l.all)
      BY <1>1, <2>1 DEF L
    <3> QED BY <1>1, <3>1, Slice
  <2> QED BY <1>2, <2>2, HeadsFinite DEF m
<1>4. CASE b + 1 <= N
  <2>1. b + 1 \in 1..N /\ b \in 0..N /\ b + 1 \in 0..N /\ (b + 1) - 1 = b /\ b <= N
    BY <1>1, <1>4
  <2>2. After(c, b) = SubSeq(l.all, l.cut[b] + 1, L) /\ After(c, b + 1) = SubSeq(l.all, l.cut[b + 1] + 1, L)
    BY <1>2, <1>4, <2>1
  <2>3. /\ l.cut[b] \in Nat /\ l.cut[b + 1] \in Nat /\ L \in Nat
        /\ l.cut[b] <= l.cut[b + 1] /\ l.cut[b + 1] <= L /\ L <= Len(l.all)
    BY <1>1, <2>1 DEF L
  <2>4. Stream(c)[b + 1].data = SubSeq(l.all, l.cut[b] + 1, l.cut[b + 1])
    BY <1>1, <2>1
  <2> DEFINE s == l.all
             p == l.cut[b]
             q == l.cut[b + 1]
  <2>5. /\ s \in Seq(Unit(Of(c))) /\ p \in Nat /\ q \in Nat /\ p <= q /\ q <= L /\ L <= Len(s)
        /\ q <= Len(s)
    <3>1. s \in Seq(Unit(Of(c)))
      BY <1>1
    <3>2. q <= Len(s)
      BY <2>3 DEF L
    <3> QED BY <2>3, <3>1, <3>2
  <2>6. /\ SubSeq(s, p + 1, q) \in Seq(Unit(Of(c)))
        /\ Begin0(SubSeq(s, p + 1, q)) \in Nat
        /\ Begin0(SubSeq(s, p + 1, L)) = Begin0(SubSeq(s, p + 1, q)) + Begin0(SubSeq(s, q + 1, L))
    <3> HIDE DEF s, p, q
    <3>1. SubSeq(s, p + 1, q) \in Seq(Unit(Of(c)))
      BY <2>5, Slice
    <3> QED BY <2>3, <2>5, <3>1, HeadsSplit
  <2>7. Begin0(After(c, b)) \in Nat /\ Begin0(After(c, b + 1)) \in Nat
    BY <1>3, <2>1
  <2>8. Begin0(Stream(c)[b + 1].data) + Begin0(After(c, b + 1)) = Begin0(After(c, b))
        /\ Begin0(Stream(c)[b + 1].data) \in Nat
    BY <2>2, <2>4, <2>6
  <2>9. Begin0(After(c, b + 1)) <= Begin0(After(c, b))
    BY <2>7, <2>8
  <2>10. Stream(c)[b + 1].data \in Seq(Unit(Of(c)))
    BY <2>4, <2>6
  <2> QED BY <2>7, <2>8, <2>9, <2>10
<1>5. CASE ~(b + 1 <= N)
  <2>1. (IF b <= N THEN b ELSE N) = N /\ (IF b + 1 <= N THEN b + 1 ELSE N) = N /\ b + 1 \in Nat
    BY <1>1, <1>5
  <2>2. After(c, b + 1) = After(c, b)
    BY <1>2, <2>1
  <2>3. Begin0(After(c, b)) \in Nat /\ ~(b + 1 \in 1..N)
    BY <1>3, <1>5
  <2> QED BY <2>2, <2>3 DEF N
<1> QED BY <1>4, <1>5

(* All envelopes are stored: it is no longer needed to know which is next. *)
LEMMA LosesStep ==
    ASSUME NEW st, NEW c \in Caps, NEW w \in Task, NEW b, InStep(st, c, w, b), AllHeld(st, c)
    PROVE  OutOfStep(st, c, w, b)
<1> DEFINE C == Contents[c]
           N == Len(Stream(c))
           l == Layout(c)
           m == w.done + Len(w.ready)
<1>1. /\ b \in 0..N /\ m <= Len(C) /\ w.ready = SubSeq(C, w.done + 1, m)
      /\ l.ends[m] <= l.cut[b] /\ w.buffer = SubSeq(l.all, l.ends[m] + 1, l.cut[b])
  BY DEF InStep
<1>2. w.done \in Nat /\ w.ready \in Seq(Envelopes) /\ Len(w.ready) \in Nat
  BY LenProperties DEF Task
<1>3. /\ Len(C) \in Nat /\ N \in Nat /\ Len(l.all) \in Nat /\ l.all \in Seq(Unit(Of(c)))
      /\ l.cut[b] \in Nat /\ l.cut[b] <= Len(l.all)
      /\ \A i \in 0..Len(C) : l.ends[i] \in Nat
  BY <1>1, LayoutFacts
<1>4. C \in Seq(Of(c)) /\ Sized(Of(c)) /\ Serial(Of(c), C, l.ends, l.all)
  BY LayoutIs DEF IsLayout
<1> HIDE DEF C, N, l
<1>5. m \in Nat /\ w.done <= m /\ m \in 0..Len(C) /\ l.ends[m] \in Nat
  BY <1>1, <1>2, <1>3
<1> HIDE DEF m
<1>6. w.ready \in Seq(Of(c))
  BY <1>1, <1>2, <1>4, <1>5, Slice
<1>7. w.buffer \in Seq(Unit(Of(c)))
  <2> DEFINE x == l.ends[m]
             y == l.cut[b]
  <2>1. x \in Nat /\ y \in Nat /\ x <= y /\ y <= Len(l.all) /\ w.buffer = SubSeq(l.all, x + 1, y)
    BY <1>1, <1>3, <1>5
  <2> HIDE DEF x, y
  <2> QED BY <1>3, <2>1, Slice
<1>8. After(c, b) = SubSeq(l.all, l.cut[b] + 1, Len(l.all))
  <2>1. b <= N
    BY <1>1, <1>3
  <2>2. After(c, b) = SubSeq(Layout(c).all,
              Layout(c).cut[IF b <= Len(Stream(c)) THEN b ELSE Len(Stream(c))] + 1, Len(Layout(c).all))
    BY DEF After
  <2> QED BY <2>1, <2>2 DEF N, l
<1>9. Begin0(w.buffer) + Begin0(After(c, b)) = Begin0(SubSeq(l.all, l.ends[m] + 1, Len(l.all)))
      /\ Begin0(w.buffer) \in Nat /\ Begin0(After(c, b)) \in Nat
  <2> DEFINE x == l.ends[m]
             y == l.cut[b]
             z == Len(l.all)
  <2>1. /\ x \in Nat /\ y \in Nat /\ z \in Nat /\ x <= y /\ y <= z /\ z <= Len(l.all)
        /\ w.buffer = SubSeq(l.all, x + 1, y) /\ After(c, b) = SubSeq(l.all, y + 1, z)
    BY <1>1, <1>3, <1>5, <1>8
  <2> HIDE DEF x, y, z
  <2>2. /\ Begin0(SubSeq(l.all, x + 1, y)) \in Nat /\ Begin0(SubSeq(l.all, y + 1, z)) \in Nat
        /\ Begin0(SubSeq(l.all, x + 1, z))
              = Begin0(SubSeq(l.all, x + 1, y)) + Begin0(SubSeq(l.all, y + 1, z))
    BY <1>3, <2>1, HeadsSplit
  <2>3. Begin0(SubSeq(l.all, x + 1, z)) = Begin0(w.buffer) + Begin0(After(c, b))
        /\ Begin0(w.buffer) \in Nat /\ Begin0(After(c, b)) \in Nat
    BY <2>1, <2>2
  <2> QED BY <2>3 DEF x, z
<1>10. Begin0(SubSeq(l.all, l.ends[m] + 1, Len(l.all))) = Len(C) - m
  BY <1>4, <1>5, HeadsOfStream
<1>11. w.done + Len(w.ready) + Begin0(w.buffer) + Begin0(After(c, b)) <= Len(C)
  BY <1>2, <1>3, <1>5, <1>9, <1>10 DEF m
<1>12. b \in Nat
  BY <1>1, <1>3
<1> QED BY <1>6, <1>7, <1>11, <1>12 DEF OutOfStep, C

(***************************************************************************)
(* What an attempt comes to: the Copy goes on in its stream, or it ends    *)
(* and what it says of itself is true.                                     *)
(***************************************************************************)
FailsTruly(st, taken, c, v) ==
    /\ v.done <= Len(Contents[c]) /\ \A i \in 1..v.done : Held(st, Contents[c][i])
    /\ v.code = "exists" => Contents[c][v.done + 1] \in taken

GoesRight(st, taken, c, v) ==
    /\ v \in Task /\ v.at \in {"pause", "failed", "succeeded"}
    /\ v.at = "pause" => OnTrack(st, c, v)
    /\ v.at = "failed" => FailsTruly(st, taken, c, v)
    /\ v.at = "succeeded" => AllHeld(st, c)

LEMMA TaskType ==
    ASSUME NEW w \in Task
    PROVE  /\ w.at \in Places /\ w.todo \in Seq(Replicas) /\ w.chan \in Seq(Replies) /\ w.want \in Nat
           /\ w.attempt \in Nat /\ w.shard \in {1, 2} /\ w.box \in Nat \ {0}
           /\ w.buffer \in Seq(Unit(Envelopes)) /\ w.ready \in Seq(Envelopes) /\ w.done \in Nat
           /\ w.code \in Replies \cup {"none"} /\ Len(w.ready) \in Nat
BY LenProperties DEF Task

LEMMA SamePlace ==
    ASSUME NEW st, NEW c, NEW b, NEW w, NEW v, Place(st, c, w, b),
           v.ready = w.ready, v.buffer = w.buffer, v.done = w.done
    PROVE  Place(st, c, v, b)
BY DEF Place, InStep, OutOfStep

(* What precedes the place of a Copy is stored. *)
LEMMA PlaceIsHeld ==
    ASSUME NEW st, NEW c \in Caps, NEW w \in Task, NEW b, Place(st, c, w, b)
    PROVE  w.done + Len(w.ready) <= Len(Contents[c]) /\ w.done <= Len(Contents[c])
           /\ \A i \in 1..w.done : Held(st, Contents[c][i])
<1>1. Len(Contents[c]) \in Nat /\ w.done \in Nat /\ Len(w.ready) \in Nat
  BY LayoutFacts, TaskType
<1>2. CASE InStep(st, c, w, b)
  BY <1>1, <1>2 DEF InStep
<1>3. CASE OutOfStep(st, c, w, b)
  <2>1. w.done + Len(w.ready) + Begin0(w.buffer) + Begin0(After(c, b)) <= Len(Contents[c])
        /\ \A i \in 1..Len(Contents[c]) : Held(st, Contents[c][i])
    BY <1>3 DEF OutOfStep, AllHeld
  <2>2. Begin0(w.buffer) \in Nat
    BY <1>3, HeadsFinite DEF OutOfStep
  <2>3. Begin0(After(c, b)) \in Nat
    BY <1>3, AfterNext DEF OutOfStep
  <2> QED BY <1>1, <2>1, <2>2, <2>3
<1> QED BY <1>2, <1>3 DEF Place

LEMMA NextShardRight ==
    ASSUME NEW st, NEW taken, NEW c \in Caps, NEW w, OnTrack(st, c, w)
    PROVE  GoesRight(st, taken, c, NextShard(w))
<1>1. w \in Task /\ w.box <= MaxBoxes /\ w.code # "exists" /\ Place(st, c, w, BoxesRead(w))
  BY DEF OnTrack
<1>2. CASE w.shard < 2
  <2> DEFINE v == [w EXCEPT !.at = "pause", !.shard = 2, !.attempt = 0]
  <2>1. /\ v \in Task /\ v.at = "pause" /\ v.box = w.box /\ v.code = w.code
        /\ v.ready = w.ready /\ v.buffer = w.buffer /\ v.done = w.done
    BY <1>1 DEF Task, Places
  <2>2. NextShard(w) = v
    BY <1>2 DEF NextShard
  <2> HIDE DEF v
  <2>3. BoxesRead(v) = BoxesRead(w)
    BY <2>1 DEF BoxesRead
  <2>4. OnTrack(st, c, v)
    BY <1>1, <2>1, <2>3, SamePlace DEF OnTrack
  <2> QED BY <2>1, <2>2, <2>4 DEF GoesRight
<1>3. CASE ~(w.shard < 2)
  <2> DEFINE v == [w EXCEPT !.at = "failed"]
  <2>1. v \in Task /\ v.at = "failed" /\ v.done = w.done /\ v.code = w.code
    BY <1>1 DEF Task, Places
  <2>2. NextShard(w) = v
    BY <1>3 DEF NextShard
  <2> HIDE DEF v
  <2>3. FailsTruly(st, taken, c, v)
    BY <1>1, <2>1, PlaceIsHeld DEF FailsTruly
  <2> QED BY <2>1, <2>2, <2>3 DEF GoesRight
<1> QED BY <1>2, <1>3

(* A Copy that fails where it is, without a code. *)
LEMMA FailRight ==
    ASSUME NEW st, NEW taken, NEW c \in Caps, NEW w \in Task, NEW b, Place(st, c, w, b)
    PROVE  GoesRight(st, taken, c, [w EXCEPT !.at = "failed", !.code = "none"])
<1> DEFINE v == [w EXCEPT !.at = "failed", !.code = "none"]
<1>1. v \in Task /\ v.at = "failed" /\ v.done = w.done /\ v.code = "none"
  BY DEF Task, Places
<1> HIDE DEF v
<1>2. FailsTruly(st, taken, c, v)
  BY <1>1, PlaceIsHeld DEF FailsTruly
<1>3. GoesRight(st, taken, c, v)
  BY <1>1, <1>2 DEF GoesRight
<1> QED BY <1>3 DEF v

LEMMA CopyAgainRight ==
    ASSUME NEW st, NEW taken, NEW c \in Caps, NEW w, OnTrack(st, c, w)
    PROVE  GoesRight(st, taken, c, CopyAgain(w))
<1>1. w \in Task /\ w.box <= MaxBoxes /\ w.code # "exists" /\ Place(st, c, w, BoxesRead(w))
  BY DEF OnTrack
<1> DEFINE v == [w EXCEPT !.at = "pause", !.attempt = w.attempt + 1]
<1>2. /\ v \in Task /\ v.at = "pause" /\ v.box = w.box /\ v.code = w.code
      /\ v.ready = w.ready /\ v.buffer = w.buffer /\ v.done = w.done
  <2>1. w.attempt + 1 \in Nat
    BY <1>1, TaskType
  <2> HIDE DEF CopyAgain
  <2> QED BY <1>1, <2>1 DEF Task, Places
<1>3. CopyAgain(w) \in {v, NextShard(w), [w EXCEPT !.at = "failed", !.code = "none"]}
  BY DEF CopyAgain
<1> HIDE DEF v
<1>4. BoxesRead(v) = BoxesRead(w)
  BY <1>2 DEF BoxesRead
<1>5. OnTrack(st, c, v)
  BY <1>1, <1>2, <1>4, SamePlace DEF OnTrack
<1>6. GoesRight(st, taken, c, v)
  BY <1>2, <1>5 DEF GoesRight
<1>7. GoesRight(st, taken, c, NextShard(w))
  BY NextShardRight
<1>8. GoesRight(st, taken, c, [w EXCEPT !.at = "failed", !.code = "none"])
  BY <1>1, FailRight
<1> QED BY <1>3, <1>6, <1>7, <1>8

(* A box is done with: what it held is taken off, all of it dispatched. *)
LEMMA NextBoxRight ==
    ASSUME NEW st, NEW taken, NEW c \in Caps, NEW w \in Task, w.ready = <<>>, w.box <= MaxBoxes,
           w.code # "exists", Place(st, c, w, w.box)
    PROVE  GoesRight(st, taken, c, NextBox(c, w))
<1> DEFINE N == Len(Stream(c))
<1>1. /\ Boxes(c) = 1..N /\ N \in Nat /\ Len(Contents[c]) \in Nat
      /\ \A k \in 1..N : Stream(c)[k].final = (k = N)
  BY LayoutIs, LenProperties DEF Boxes
<1>2. CASE w.box \in Boxes(c) /\ Stream(c)[w.box].final
  <2> DEFINE v == [w EXCEPT !.at = "succeeded"]
  <2>1. v \in Task /\ v.at = "succeeded"
    BY DEF Task, Places
  <2>2. NextBox(c, w) = v
    BY <1>2 DEF NextBox
  <2> HIDE DEF v
  <2>3. w.box = N
    BY <1>1, <1>2
  <2>4. CASE InStep(st, c, w, w.box)
    <3>1. w.done + Len(w.ready) = Len(Contents[c]) /\ \A i \in 1..w.done : Held(st, Contents[c][i])
      BY <2>3, <2>4 DEF InStep
    <3>2. w.done = Len(Contents[c])
      <4>1. Len(w.ready) = 0 /\ w.done \in Nat
        BY TaskType, EmptySeq
      <4> QED BY <1>1, <3>1, <4>1
    <3> QED BY <2>1, <2>2, <3>1, <3>2 DEF GoesRight, AllHeld
  <2>5. CASE OutOfStep(st, c, w, w.box)
    BY <2>1, <2>2, <2>5 DEF GoesRight, OutOfStep
  <2> QED BY <2>4, <2>5 DEF Place
<1>3. CASE ~(w.box \in Boxes(c) /\ Stream(c)[w.box].final) /\ w.box = MaxBoxes
  BY <1>3, FailRight DEF NextBox
<1>4. CASE ~(w.box \in Boxes(c) /\ Stream(c)[w.box].final) /\ w.box # MaxBoxes
  <2> DEFINE v == [w EXCEPT !.at = "pause", !.box = w.box + 1, !.shard = 1, !.attempt = 0]
  <2>1. /\ v \in Task /\ v.at = "pause" /\ v.box = w.box + 1 /\ v.code = w.code
        /\ v.ready = w.ready /\ v.buffer = w.buffer /\ v.done = w.done
    <3>1. w.box + 1 \in Nat \ {0}
      BY TaskType
    <3> QED BY <3>1 DEF Task, Places
  <2>2. NextBox(c, w) = v
    BY <1>4 DEF NextBox
  <2> HIDE DEF v
  <2>3. w.box \in Nat /\ MaxBoxes \in Nat
    BY TaskType, CourierAssumption
  <2>4. BoxesRead(v) = w.box /\ v.box <= MaxBoxes
    BY <1>4, <2>1, <2>3 DEF BoxesRead
  <2>5. OnTrack(st, c, v)
    BY <2>1, <2>4, SamePlace DEF OnTrack
  <2> QED BY <2>1, <2>2, <2>5 DEF GoesRight
<1> QED BY <1>2, <1>3, <1>4

(***************************************************************************)
(* An envelope has been dispatched, and a box has been read.               *)
(***************************************************************************)
LEMMA SeqGrows ==
    ASSUME NEW S, NEW T, S \subseteq T
    PROVE  Seq(S) \subseteq Seq(T)
<1> SUFFICES ASSUME NEW s \in Seq(S) PROVE s \in Seq(T)
  OBVIOUS
<1>1. Len(s) \in Nat /\ DOMAIN s = 1..Len(s) /\ \A i \in 1..Len(s) : s[i] \in T
  BY LenProperties
<1>2. s = [i \in 1..Len(s) |-> s[i]]
  BY <1>1
<1>3. s \in [1..Len(s) -> T]
  BY <1>1, <1>2
<1> QED BY <1>1, <1>3, SeqDef

LEMMA OfEnvelopes ==
    ASSUME NEW c \in Caps
    PROVE  Seq(Of(c)) \subseteq Seq(Envelopes) /\ Seq(Unit(Of(c))) \subseteq Seq(Unit(Envelopes))
<1>1. Of(c) \subseteq Envelopes
  BY LayoutIs
<1>2. Unit(Of(c)) \subseteq Unit(Envelopes)
  BY <1>1 DEF Unit
<1> QED BY <1>1, <1>2, SeqGrows

(* An envelope has been accepted. *)
LEMMA EnvelopeCopiedRight ==
    ASSUME NEW st, NEW taken, NEW c \in Caps, NEW w, OnTrack(st, c, w), w.ready # <<>>,
           Held(st, Head(w.ready))
    PROVE  GoesRight(st, taken, c, EnvelopeCopied(c, w))
<1> DEFINE x == [w EXCEPT !.ready = Tail(w.ready), !.done = w.done + 1, !.attempt = 0]
<1>1. w \in Task /\ w.box <= MaxBoxes /\ w.code # "exists" /\ Place(st, c, w, w.box)
  BY DEF OnTrack, BoxesRead
<1>2. /\ w.ready \in Seq(Envelopes) /\ Len(w.ready) \in Nat /\ Len(w.ready) > 0
      /\ Tail(w.ready) \in Seq(Envelopes) /\ Len(Tail(w.ready)) = Len(w.ready) - 1
      /\ Head(w.ready) = w.ready[1] /\ w.done \in Nat /\ w.box \in Nat
      /\ Tail(w.ready) = SubSeq(w.ready, 2, Len(w.ready))
  BY <1>1, TaskType, HeadTailProperties, EmptySeq
<1>3. /\ x \in Task /\ x.ready = Tail(w.ready) /\ x.done = w.done + 1 /\ x.box = w.box
      /\ x.code = w.code /\ x.buffer = w.buffer
  <2>1. w.done + 1 \in Nat
    BY <1>2
  <2> QED BY <1>1, <1>2, <2>1 DEF Task
<1>4. EnvelopeCopied(c, w) = IF x.ready = <<>> THEN NextBox(c, x) ELSE [x EXCEPT !.at = "pause"]
  BY DEF EnvelopeCopied
<1> HIDE DEF x
<1>5. Place(st, c, x, w.box)
  <2> DEFINE C == Contents[c]
             m == w.done + Len(w.ready)
  <2>1. x.done + Len(x.ready) = m /\ m \in Nat /\ w.done + 1 <= m
    <3> DEFINE a == Len(w.ready)
               g == Len(x.ready)
               d == w.done
               k == x.done
    <3>1. a \in Nat /\ a > 0 /\ g = a - 1 /\ d \in Nat /\ k = d + 1
      BY <1>2, <1>3
    <3> HIDE DEF a, g, d, k
    <3>2. k + g = d + a /\ d + a \in Nat /\ d + 1 <= d + a
      BY <3>1
    <3> QED BY <3>2 DEF a, g, d, k
  <2>0. w.done <= m /\ m - w.done \in Nat /\ 1 <= m - w.done /\ w.done + (m - w.done) = m
        /\ m - w.done = Len(w.ready)
    <3> DEFINE a == Len(w.ready)
               d == w.done
    <3>1. a \in Nat /\ a > 0 /\ d \in Nat /\ m = d + a
      BY <1>2
    <3> HIDE DEF a, d, m
    <3>2. d <= m /\ m - d \in Nat /\ 1 <= m - d /\ d + (m - d) = m /\ m - d = a
      BY <3>1
    <3> QED BY <3>2 DEF a, d
  <2>2. CASE InStep(st, c, w, w.box)
    <3>1. /\ m <= Len(C) /\ w.ready = SubSeq(C, w.done + 1, m)
          /\ \A i \in 1..w.done : Held(st, C[i])
      BY <2>2 DEF InStep
    <3>2. C \in Seq(Of(c)) /\ Len(C) \in Nat
      BY LayoutIs, LayoutFacts
    <3>3. x.ready = SubSeq(C, x.done + 1, m)
      <4>1. SubSeq(SubSeq(C, w.done + 1, m), 1 + 1, m - w.done)
               = SubSeq(C, (w.done + 1) + 1, w.done + (m - w.done))
        <5> DEFINE d == w.done
                   g == m - w.done
        <5>1. 1 <= g /\ g \in Nat /\ g <= g /\ d \in Nat /\ d <= m /\ m \in Nat /\ g = m - d
          BY <1>2, <2>0, <2>1
        <5> HIDE DEF C, m, d, g
        <5>2. SubSeq(SubSeq(C, d + 1, m), 1 + 1, g) = SubSeq(C, (d + 1) + 1, d + g)
          BY <3>1, <3>2, <5>1, SliceOfSlice
        <5> QED BY <5>2 DEF d, g
      <4> HIDE DEF C, m
      <4>2. x.ready = SubSeq(w.ready, 2, m - w.done) /\ 1 + 1 = 2
        BY <1>2, <1>3, <2>0
      <4> QED BY <1>3, <2>0, <3>1, <4>1, <4>2
    <3>4. Head(w.ready) = C[w.done + 1]
      <4> HIDE DEF C, m
      <4>1. 1 \in 1..(m - w.done)
        BY <2>0
      <4>2. \A i \in 1..(m - w.done) : SubSeq(C, w.done + 1, m)[i] = C[w.done + i]
        <5> DEFINE d == w.done
        <5>1. d \in Nat /\ d <= m /\ m \in Nat
          BY <1>2, <2>0, <2>1
        <5> HIDE DEF d
        <5>2. \A i \in 1..(m - d) : SubSeq(C, d + 1, m)[i] = C[d + i]
          BY <3>1, <3>2, <5>1, Slice
        <5> QED BY <5>2 DEF d
      <4> QED BY <1>2, <3>1, <4>1, <4>2
    <3>5. \A i \in 1..x.done : Held(st, C[i])
      <4> TAKE i \in 1..x.done
      <4>1. i \in 1..w.done \/ i = w.done + 1
        BY <1>2, <1>3
      <4> QED BY <3>1, <3>4, <4>1
    <3> QED BY <1>3, <2>1, <2>2, <3>3, <3>5 DEF InStep, Place
  <2>3. CASE OutOfStep(st, c, w, w.box)
    <3>1. x.ready \in Seq(Of(c))
      <4>1. w.ready \in Seq(Of(c))
        BY <2>3 DEF OutOfStep
      <4> QED BY <1>3, <4>1, HeadTailProperties
    <3>2. Begin0(w.buffer) \in Nat /\ Begin0(After(c, w.box)) \in Nat
      BY <1>2, <2>3, HeadsFinite, AfterNext DEF OutOfStep
    <3> QED BY <1>3, <2>1, <2>3, <3>1, <3>2 DEF OutOfStep, Place
  <2> QED BY <1>1, <2>2, <2>3 DEF Place
<1>6. CASE x.ready = <<>>
  BY <1>1, <1>3, <1>4, <1>5, <1>6, NextBoxRight
<1>7. CASE x.ready # <<>>
  <2> DEFINE v == [x EXCEPT !.at = "pause"]
  <2>1. /\ v \in Task /\ v.at = "pause" /\ v.box = x.box /\ v.code = x.code
        /\ v.ready = x.ready /\ v.buffer = x.buffer /\ v.done = x.done
    BY <1>3 DEF Task, Places
  <2>2. EnvelopeCopied(c, w) = v
    BY <1>4, <1>7
  <2> HIDE DEF v
  <2>3. BoxesRead(v) = w.box
    BY <1>3, <1>7, <2>1 DEF BoxesRead
  <2>4. OnTrack(st, c, v)
    BY <1>1, <1>3, <1>5, <2>1, <2>3, SamePlace DEF OnTrack
  <2> QED BY <2>1, <2>2, <2>4 DEF GoesRight
<1> QED BY <1>6, <1>7

(* A box is read in its turn: what is complete now comes next in the stream. *)
LEMMA ReadInStep ==
    ASSUME NEW st, NEW c \in Caps, NEW w \in Task, w.ready = <<>>, w.box \in Boxes(c),
           InStep(st, c, w, w.box - 1), NEW x,
           x.buffer = Decode(w.buffer \o Stream(c)[w.box].data).rest,
           x.ready = Decode(w.buffer \o Stream(c)[w.box].data).envelopes, x.done = w.done
    PROVE  /\ Decode(w.buffer \o Stream(c)[w.box].data) \in Decoding(Of(c))
           /\ ~Decode(w.buffer \o Stream(c)[w.box].data).failed
           /\ InStep(st, c, x, w.box)
<1> DEFINE C == Contents[c]
           N == Len(Stream(c))
           l == Layout(c)
           i == w.done
           b == w.box
           p == l.cut[b]
           D == Decode(w.buffer \o Stream(c)[w.box].data)
<1>1. /\ C \in Seq(Of(c)) /\ Sized(Of(c)) /\ Serial(Of(c), C, l.ends, l.all)
      /\ Len(C) \in Nat /\ N \in Nat /\ Len(l.all) \in Nat /\ l.all \in Seq(Unit(Of(c)))
      /\ \A k \in 0..N : l.cut[k] \in Nat /\ l.cut[k] <= Len(l.all)
      /\ l.cut[N] = Len(l.all)
      /\ \A k \in 1..N : /\ l.cut[k - 1] <= l.cut[k]
                         /\ Stream(c)[k].data = SubSeq(l.all, l.cut[k - 1] + 1, l.cut[k])
      /\ \A k \in 0..Len(C) : l.ends[k] \in Nat
      /\ Stream(c) \in Seq(Element(Of(c)))
  BY LayoutIs, LayoutFacts DEF IsLayout
<1>2. b \in 1..N /\ b \in 0..N /\ b - 1 \in 0..N
  <2>1. DOMAIN Stream(c) = 1..N
    BY <1>1, LenProperties
  <2> HIDE DEF N
  <2> QED BY <1>1, <2>1 DEF Boxes
<1>3. Len(w.ready) = 0 /\ i \in Nat /\ i + 0 = i
  BY TaskType, EmptySeq
<1>4. /\ i <= Len(C) /\ l.ends[i] <= l.cut[b - 1]
      /\ w.buffer = SubSeq(l.all, l.ends[i] + 1, l.cut[b - 1])
      /\ \A k \in 1..i : Held(st, C[k])
  BY <1>3 DEF InStep
<1>5. i \in 0..Len(C)
  BY <1>1, <1>3, <1>4
<1> HIDE DEF C, N, l, D
<1>15. l.all \in Seq(Unit(Of(c))) /\ Len(l.all) \in Nat /\ C \in Seq(Of(c)) /\ Len(C) \in Nat /\ b \in Nat
  BY <1>1, TaskType
<1>16. /\ l.cut[b] \in Nat /\ l.cut[b] <= Len(l.all) /\ l.cut[b - 1] \in Nat
       /\ l.cut[b - 1] <= l.cut[b] /\ Stream(c)[b].data = SubSeq(l.all, l.cut[b - 1] + 1, l.cut[b])
  BY <1>1, <1>2
<1>17. l.ends[i] \in Nat
  BY <1>1, <1>5
<1>6. /\ p \in Nat /\ p <= Len(l.all) /\ l.cut[b - 1] \in Nat /\ l.cut[b - 1] <= p
      /\ l.ends[i] \in Nat /\ l.ends[i] <= p
      /\ Stream(c)[b].data = SubSeq(l.all, l.cut[b - 1] + 1, p)
  BY <1>4, <1>15, <1>16, <1>17
<1> HIDE DEF p
<1>7. w.buffer \o Stream(c)[b].data = SubSeq(l.all, l.ends[i] + 1, p)
  <2> DEFINE a == l.ends[i]
             d == l.cut[b - 1]
  <2>1. a \in Nat /\ d \in Nat /\ a <= d /\ d <= p
    BY <1>4, <1>6
  <2>3. p \in Nat /\ p <= Len(l.all)
    BY <1>6
  <2> DEFINE s == l.all
  <2>4. s \in Seq(Unit(Of(c))) /\ p <= Len(s)
    BY <1>15, <2>3
  <2> HIDE DEF a, d, s, i, b
  <2>2. SubSeq(s, a + 1, d) \o SubSeq(s, d + 1, p) = SubSeq(s, a + 1, p)
    BY <2>1, <2>3, <2>4, SlicesJoin
  <2> QED BY <1>4, <1>6, <2>2 DEF a, d, s
<1>8. PICK j \in i..Len(C) : /\ l.ends[j] <= p /\ (p = Len(l.all) => j = Len(C))
                             /\ Decode(SubSeq(l.all, l.ends[i] + 1, p)) = Taken(C, l.ends, l.all, p, i, j)
  <2> DEFINE ends == l.ends
             all  == l.all
  <2>1. Sized(Of(c)) /\ Serial(Of(c), C, ends, all)
    BY <1>1
  <2>2. p \in Nat /\ p <= Len(all) /\ ends[i] <= p
    BY <1>6
  <2> HIDE DEF i, b, ends, all
  <2>3. \E j \in i..Len(C) : /\ ends[j] <= p /\ (p = Len(all) => j = Len(C))
                              /\ Decode(SubSeq(all, ends[i] + 1, p)) = Taken(C, ends, all, p, i, j)
    BY <1>5, <1>15, <2>1, <2>2, DecodesInOrder
  <2> QED BY <2>3 DEF ends, all
<1>9. D.envelopes = SubSeq(C, i + 1, j) /\ D.rest = SubSeq(l.all, l.ends[j] + 1, p) /\ D.failed = FALSE
      /\ D = [envelopes |-> SubSeq(C, i + 1, j), rest |-> SubSeq(l.all, l.ends[j] + 1, p), failed |-> FALSE]
  BY <1>7, <1>8 DEF Taken, D
<1>10. j \in Nat /\ j \in 0..Len(C) /\ i <= j /\ j <= Len(C) /\ l.ends[j] \in Nat
  BY <1>1, <1>3
<1>11. SubSeq(C, i + 1, j) \in Seq(Of(c)) /\ Len(SubSeq(C, i + 1, j)) = j - i
  <2> HIDE DEF i
  <2> QED BY <1>3, <1>10, <1>15, Slice
<1>12. SubSeq(l.all, l.ends[j] + 1, p) \in Seq(Unit(Of(c)))
  <2> DEFINE a == l.ends[j]
  <2>1. a \in Nat /\ a <= p
    BY <1>8, <1>10
  <2> HIDE DEF a
  <2>2. SubSeq(l.all, a + 1, p) \in Seq(Unit(Of(c)))
    BY <1>1, <1>6, <2>1, Slice
  <2> QED BY <2>2 DEF a
<1>13. D \in Decoding(Of(c))
  BY <1>9, <1>11, <1>12 DEF Decoding
<1>14. InStep(st, c, x, w.box)
  <2>1. x.ready = SubSeq(C, i + 1, j) /\ x.buffer = SubSeq(l.all, l.ends[j] + 1, p) /\ x.done = i
        /\ Len(x.ready) = j - i
    BY <1>9, <1>11 DEF D
  <2>2. x.done + Len(x.ready) = j
    BY <1>3, <1>10, <2>1
  <2>3. b = N => j = Len(C)
    BY <1>1, <1>8 DEF p
  <2> QED BY <1>2, <1>4, <1>8, <1>10, <2>1, <2>2, <2>3 DEF InStep, C, N, l, p
<1> QED BY <1>9, <1>13, <1>14 DEF D

(* A box is read, or the empty box that is left of one, when all is stored anyway. *)
LEMMA ReadOutOfStep ==
    ASSUME NEW st, NEW c \in Caps, NEW w \in Task, w.ready = <<>>, NEW got,
           OutOfStep(st, c, w, w.box - 1), NEW x,
           got = <<>> \/ (w.box \in Boxes(c) /\ got = Stream(c)[w.box].data),
           x.buffer = Decode(w.buffer \o got).rest,
           x.ready = Decode(w.buffer \o got).envelopes, x.done = w.done
    PROVE  /\ Decode(w.buffer \o got) \in Decoding(Of(c))
           /\ OutOfStep(st, c, x, w.box)
<1> DEFINE b == w.box - 1
           u == w.buffer \o got
           n == Len(Contents[c])
<1>1. /\ b \in Nat /\ b + 1 = w.box /\ w.box \in Nat /\ n \in Nat /\ w.done \in Nat
      /\ Sized(Of(c)) /\ Stream(c) \in Seq(Element(Of(c)))
  <2>1. w.box \in Nat \ {0} /\ w.done \in Nat
    BY TaskType
  <2>2. b \in Nat /\ b + 1 = w.box
    BY <2>1
  <2>3. n \in Nat
    BY LayoutFacts
  <2> HIDE DEF b, n
  <2> QED BY <2>1, <2>2, <2>3, LayoutIs
<1>2. /\ AllHeld(st, c) /\ w.buffer \in Seq(Unit(Of(c)))
      /\ w.done + Len(w.ready) + Begin0(w.buffer) + Begin0(After(c, b)) <= n
  BY DEF OutOfStep
<1>3. Len(w.ready) = 0
  BY EmptySeq
<1>4. /\ Begin0(After(c, b)) \in Nat /\ Begin0(After(c, w.box)) \in Nat
      /\ Begin0(After(c, w.box)) <= Begin0(After(c, b))
      /\ w.box \in 1..Len(Stream(c)) =>
            /\ Stream(c)[w.box].data \in Seq(Unit(Of(c)))
            /\ Begin0(Stream(c)[w.box].data) + Begin0(After(c, w.box)) = Begin0(After(c, b))
  <2> HIDE DEF b
  <2> QED BY <1>1, AfterNext
<1> HIDE DEF b, n
<1>5. /\ u \in Seq(Unit(Of(c)))
      /\ Begin0(u) + Begin0(After(c, w.box)) <= Begin0(w.buffer) + Begin0(After(c, b))
  <2>1. Begin0(w.buffer) \in Nat
    BY <1>2, HeadsFinite
  <2>2. CASE got = <<>>
    <3>1. u = w.buffer
      BY <1>2, <2>2, ConcatEmptySeq
    <3> HIDE DEF u
    <3> QED BY <1>2, <1>4, <2>1, <3>1
  <2>3. CASE w.box \in Boxes(c) /\ got = Stream(c)[w.box].data
    <3>1. w.box \in 1..Len(Stream(c))
      BY <1>1, <2>3, LenProperties DEF Boxes
    <3>2. got \in Seq(Unit(Of(c))) /\ Begin0(got) + Begin0(After(c, w.box)) = Begin0(After(c, b))
      BY <1>4, <2>3, <3>1
    <3>3. u \in Seq(Unit(Of(c)))
      BY <1>2, <3>2, ConcatProperties
    <3>4. Begin0(u) = Begin0(w.buffer) + Begin0(got) /\ Begin0(got) \in Nat
      BY <1>2, <3>2, HeadsConcat, HeadsFinite
    <3> HIDE DEF u
    <3> QED BY <1>4, <2>1, <3>2, <3>3, <3>4
  <2> QED BY <2>2, <2>3
<1> HIDE DEF u
<1>6. Decode(u) \in Decoding(Of(c)) /\ Len(Decode(u).envelopes) + Begin0(Decode(u).rest) <= Begin0(u)
  BY <1>1, <1>5, DecodeTakes
<1>7. x.ready = Decode(u).envelopes /\ x.buffer = Decode(u).rest
  BY DEF u
<1>8. x.ready \in Seq(Of(c)) /\ x.buffer \in Seq(Unit(Of(c)))
  BY <1>6, <1>7 DEF Decoding
<1>9. Len(x.ready) \in Nat /\ Begin0(x.buffer) \in Nat /\ Begin0(w.buffer) \in Nat /\ Begin0(u) \in Nat
  BY <1>2, <1>5, <1>8, LenProperties, HeadsFinite
<1>10. x.done + Len(x.ready) + Begin0(x.buffer) + Begin0(After(c, w.box)) <= n
  <2>1. Len(x.ready) + Begin0(x.buffer) <= Begin0(u)
    BY <1>6, <1>7
  <2> DEFINE r  == Len(x.ready)
             e1 == Begin0(x.buffer)
             e0 == Begin0(w.buffer)
             eu == Begin0(u)
             g1 == Begin0(After(c, w.box))
             g0 == Begin0(After(c, b))
             d  == w.done
  <2>2. /\ r \in Nat /\ e1 \in Nat /\ e0 \in Nat /\ eu \in Nat /\ g1 \in Nat /\ g0 \in Nat
        /\ d \in Nat /\ n \in Nat /\ r + e1 <= eu /\ eu + g1 <= e0 + g0 /\ x.done = d
    BY <1>1, <1>4, <1>5, <1>9, <2>1
  <2>3. d + 0 + e0 + g0 <= n
    BY <1>2, <1>3
  <2> HIDE DEF r, e1, e0, eu, g1, g0, d
  <2>4. d + r + e1 + g1 <= n
    BY <2>2, <2>3
  <2> QED BY <2>2, <2>4 DEF r, e1, g1
<1>11. OutOfStep(st, c, x, w.box)
  BY <1>1, <1>2, <1>8, <1>10 DEF OutOfStep, n
<1> QED BY <1>6, <1>11 DEF u

LEMMA BoxReadRight ==
    ASSUME NEW st, NEW taken, NEW c \in Caps, NEW w, OnTrack(st, c, w), w.ready = <<>>,
           NEW code \in {"data", "blank"}, Hears(st, taken, c, w, code)
    PROVE  GoesRight(st, taken, c, BoxRead(c, w, code))
<1> DEFINE got == IF code = "data" THEN Stream(c)[w.box].data ELSE <<>>
           D   == Decode(w.buffer \o got)
           x   == [w EXCEPT !.buffer = D.rest, !.ready = D.envelopes, !.attempt = 0, !.code = "none"]
<1>1. /\ w \in Task /\ w.box <= MaxBoxes /\ w.code # "exists"
      /\ Place(st, c, w, w.box - 1)
  BY DEF OnTrack, BoxesRead
<1>2. BoxRead(c, w, code) =
         IF D.failed THEN [w EXCEPT !.at = "failed", !.code = "none"]
         ELSE IF D.envelopes = <<>> THEN NextBox(c, x)
         ELSE [x EXCEPT !.at = "pause"]
  BY DEF BoxRead
<1>3. /\ code = "data" => w.box \in Boxes(c) /\ got = Stream(c)[w.box].data
      /\ code = "blank" => AllHeld(st, c) /\ got = <<>>
  BY DEF Hears
<1> HIDE DEF got
<1>4. "buffer" \in DOMAIN w /\ "ready" \in DOMAIN w /\ "done" \in DOMAIN w
  BY <1>1 DEF Task
<1>5. x.buffer = D.rest /\ x.ready = D.envelopes /\ x.done = w.done
  <2> HIDE DEF D
  <2> QED BY <1>1 DEF Task
<1>6. D \in Decoding(Of(c)) /\ (D.failed \/ Place(st, c, x, w.box))
  <2>1. CASE InStep(st, c, w, w.box - 1) /\ code = "data"
    <3> HIDE DEF x
    <3>1. D = Decode(w.buffer \o Stream(c)[w.box].data)
      BY <1>3, <2>1
    <3> HIDE DEF D
    <3> QED BY <1>1, <1>3, <1>5, <2>1, <3>1, ReadInStep DEF Place
  <2>2. CASE ~(InStep(st, c, w, w.box - 1) /\ code = "data")
    <3>1. OutOfStep(st, c, w, w.box - 1)
      <4>1. CASE InStep(st, c, w, w.box - 1) /\ code = "blank"
        BY <1>1, <1>3, <4>1, LosesStep
      <4> QED BY <1>1, <2>2, <4>1 DEF Place
    <3>2. got = <<>> \/ (w.box \in Boxes(c) /\ got = Stream(c)[w.box].data)
      <4> HIDE DEF x, D
      <4>1. code = "data" \/ code = "blank"
        OBVIOUS
      <4> QED BY <1>3, <4>1, Zenon
    <3> HIDE DEF x
    <3>3. Decode(w.buffer \o got) \in Decoding(Of(c)) /\ OutOfStep(st, c, x, w.box)
      BY <1>1, <1>5, <3>1, <3>2, ReadOutOfStep
    <3> QED BY <3>3 DEF Place
  <2> QED BY <2>1, <2>2
<1> HIDE DEF D
<1>7. D.rest \in Seq(Unit(Envelopes)) /\ D.envelopes \in Seq(Envelopes)
  BY <1>6, OfEnvelopes DEF Decoding
<1>8. x \in Task /\ x.box = w.box /\ x.code = "none"
  BY <1>1, <1>7 DEF Task
<1> HIDE DEF x
<1>9. CASE D.failed
  <2>1. GoesRight(st, taken, c, [w EXCEPT !.at = "failed", !.code = "none"])
    BY <1>1, FailRight
  <2> QED BY <1>2, <1>9, <2>1
<1>10. CASE ~D.failed /\ D.envelopes = <<>>
  <2>1. BoxRead(c, w, code) = NextBox(c, x)
    BY <1>2, <1>10
  <2>2. /\ x \in Task /\ x.ready = <<>> /\ x.box <= MaxBoxes /\ x.code # "exists"
        /\ Place(st, c, x, x.box)
    BY <1>1, <1>5, <1>6, <1>8, <1>10
  <2>3. GoesRight(st, taken, c, NextBox(c, x))
    BY <2>2, NextBoxRight
  <2> QED BY <2>1, <2>3
<1>11. CASE ~D.failed /\ D.envelopes # <<>>
  <2> DEFINE v == [x EXCEPT !.at = "pause"]
  <2>1. /\ v \in Task /\ v.at = "pause" /\ v.box = x.box /\ v.code = x.code
        /\ v.ready = x.ready /\ v.buffer = x.buffer /\ v.done = x.done
    BY <1>8 DEF Task, Places
  <2>2. BoxRead(c, w, code) = v
    BY <1>2, <1>11
  <2> HIDE DEF v
  <2>3. BoxesRead(v) = w.box
    BY <1>5, <1>8, <1>11, <2>1 DEF BoxesRead
  <2>4. Place(st, c, v, w.box)
    BY <1>6, <1>11, <2>1, SamePlace
  <2>5. OnTrack(st, c, v)
    BY <1>1, <1>8, <2>1, <2>3, <2>4 DEF OnTrack
  <2> QED BY <2>1, <2>2, <2>5 DEF GoesRight
<1> QED BY <1>9, <1>10, <1>11

(* The replies of one attempt, each of them true. *)
LEMMA CopyRepliesRight ==
    ASSUME NEW st, NEW taken, NEW c \in Caps, NEW w, OnTrack(st, c, w), NEW replies \in Seq(Replies),
           \A r \in Replicas : st[r] \cap taken = {},
           \A i \in 1..Len(replies) : Hears(st, taken, c, w, replies[i])
    PROVE  GoesRight(st, taken, c, CopyReplies(c, w, replies))
<1>1. /\ w \in Task /\ w.box <= MaxBoxes /\ w.code # "exists"
      /\ Place(st, c, w, BoxesRead(w))
  BY DEF OnTrack
<1>2. Len(replies) \in Nat /\ \A i \in 1..Len(replies) : replies[i] \in Replies
  BY LenProperties
<1>3. replies # <<>> => 1 \in 1..Len(replies)
  BY <1>2, EmptySeq
<1>4. CASE replies = <<>>
  BY <1>4, CopyAgainRight DEF CopyReplies
<1>5. CASE replies # <<>> /\ w.ready # <<>>
  <2>1. CASE Contains(replies, "ok")
    <3>1. PICK i \in 1..Len(replies) : replies[i] = "ok"
      BY <2>1 DEF Contains
    <3>2. Held(st, Head(w.ready))
      BY <1>5, <3>1 DEF Hears
    <3> QED BY <1>5, <2>1, <3>2, EnvelopeCopiedRight DEF CopyReplies
  <2>2. CASE ~Contains(replies, "ok")
    <3> DEFINE code == IF Contains(replies, "exists") THEN "exists" ELSE replies[1]
               v    == [w EXCEPT !.at = "failed", !.code = code]
    <3>1. CopyReplies(c, w, replies) = v
      BY <1>5, <2>2 DEF CopyReplies
    <3>2. code \in Replies
      BY <1>2, <1>3, <1>5 DEF Replies
    <3>3. code = "exists" => Head(w.ready) \in taken
      <4>1. ASSUME code = "exists" PROVE \E i \in 1..Len(replies) : replies[i] = "exists"
        BY <1>3, <1>5, <4>1 DEF Contains
      <4> HIDE DEF code
      <4> QED BY <1>5, <4>1 DEF Hears
    <3> HIDE DEF code
    <3>4. v \in Task /\ v.at = "failed" /\ v.code = code /\ v.done = w.done
      BY <1>1, <3>2 DEF Task, Places
    <3> HIDE DEF v
    <3>5. ASSUME code = "exists" PROVE Contents[c][w.done + 1] \in taken
      <4> DEFINE C == Contents[c]
                 m == w.done + Len(w.ready)
      <4>1. w.ready \in Seq(Envelopes) /\ Len(w.ready) \in Nat /\ Len(w.ready) > 0 /\ w.done \in Nat
            /\ Head(w.ready) = w.ready[1]
        BY <1>1, <1>5, TaskType, EmptySeq, HeadTailProperties
      <4>2. CASE InStep(st, c, w, BoxesRead(w))
        <5>1. m <= Len(C) /\ w.ready = SubSeq(C, w.done + 1, m)
          BY <4>2 DEF InStep
        <5>2. C \in Seq(Of(c)) /\ Len(C) \in Nat
          BY LayoutIs, LayoutFacts
        <5> DEFINE d == w.done
        <5>3. d \in Nat /\ m \in Nat /\ d <= m /\ 1 \in 1..(m - d)
          <6> DEFINE a == Len(w.ready)
          <6>1. a \in Nat /\ a > 0 /\ d \in Nat /\ m = d + a
            BY <4>1
          <6> HIDE DEF a, d, m
          <6> QED BY <6>1
        <5> HIDE DEF d, m, C
        <5>4. \A i \in 1..(m - d) : SubSeq(C, d + 1, m)[i] = C[d + i]
          BY <5>1, <5>2, <5>3, Slice
        <5>5. w.ready[1] = C[d + 1]
          BY <5>1, <5>3, <5>4 DEF d
        <5> QED BY <3>3, <3>5, <4>1, <5>5 DEF d, C
      <4>3. CASE OutOfStep(st, c, w, BoxesRead(w))
        <5>1. AllHeld(st, c) /\ w.ready \in Seq(Of(c))
          BY <4>3 DEF OutOfStep
        <5>2. w.ready[1] \in Of(c)
          BY <4>1, <5>1, LenProperties
        <5>3. Held(st, w.ready[1])
          BY <5>1, <5>2 DEF AllHeld, Of
        <5>4. FALSE
          BY <3>3, <3>5, <4>1, <5>3 DEF Held
        <5> QED BY <5>4
      <4> QED BY <1>1, <4>2, <4>3 DEF Place
    <3>6. FailsTruly(st, taken, c, v)
      BY <1>1, <3>4, <3>5, PlaceIsHeld DEF FailsTruly
    <3> QED BY <3>1, <3>4, <3>6 DEF GoesRight
  <2> QED BY <2>1, <2>2
<1>6. CASE replies # <<>> /\ w.ready = <<>>
  <2> DEFINE code == replies[1]
             v    == [w EXCEPT !.code = code]
  <2>1. code \in Replies /\ Hears(st, taken, c, w, code)
    BY <1>2, <1>3, <1>6
  <2>2. CopyReplies(c, w, replies) =
           IF code \in {"data", "blank"} THEN BoxRead(c, w, code)
           ELSE IF Temporary(code) THEN CopyAgain(v) ELSE NextShard(v)
    BY <1>6 DEF CopyReplies
  <2>3. code # "exists"
    BY <1>6, <2>1 DEF Hears
  <2> HIDE DEF code
  <2>4. CASE code \in {"data", "blank"}
    BY <1>6, <2>1, <2>2, <2>4, BoxReadRight
  <2>5. CASE code \notin {"data", "blank"}
    <3>1. /\ v \in Task /\ v.at = w.at /\ v.box = w.box /\ v.code = code
          /\ v.ready = w.ready /\ v.buffer = w.buffer /\ v.done = w.done
      BY <1>1, <2>1 DEF Task
    <3> HIDE DEF v
    <3>2. OnTrack(st, c, v)
      <4>1. BoxesRead(v) = BoxesRead(w)
        BY <3>1 DEF BoxesRead
      <4> QED BY <1>1, <2>3, <3>1, <4>1, SamePlace DEF OnTrack
    <3> QED BY <2>2, <2>5, <3>2, CopyAgainRight, NextShardRight
  <2> QED BY <2>4, <2>5
<1> QED BY <1>4, <1>5, <1>6

(***************************************************************************)
(* What is stored stays so, and what was true of it.                       *)
(***************************************************************************)
Grows(st, new) == \A r \in Replicas : st[r] \subseteq new[r]

LEMMA AllHeldGrows ==
    ASSUME NEW st, NEW new, Grows(st, new)
    PROVE  /\ \A e : Held(st, e) => Held(new, e)
           /\ \A c : AllHeld(st, c) => AllHeld(new, c)
<1>1. \A e : Held(st, e) => Held(new, e)
  BY DEF Grows, Held
<1> QED BY <1>1 DEF AllHeld

LEMMA PlaceGrows ==
    ASSUME NEW st, NEW new, Grows(st, new), NEW c, NEW w, NEW b, Place(st, c, w, b)
    PROVE  Place(new, c, w, b)
<1>1. \A e : Held(st, e) => Held(new, e)
  BY AllHeldGrows
<1>2. CASE InStep(st, c, w, b)
  BY <1>1, <1>2 DEF InStep, Place
<1>3. CASE OutOfStep(st, c, w, b)
  BY <1>3, AllHeldGrows DEF OutOfStep, Place
<1> QED BY <1>2, <1>3 DEF Place

LEMMA CopyTrueGrows ==
    ASSUME NEW st, NEW new, Grows(st, new), NEW taken, NEW c, NEW w, CopyTrue(st, taken, c, w)
    PROVE  CopyTrue(new, taken, c, w)
<1> SUFFICES ASSUME w.at # "idle"
             PROVE  /\ w.at \in Busy \cup {"pause"} /\ OnTrack(new, c, w)
                    /\ w.at \in Busy => \A i \in 1..Len(w.chan) : Hears(new, taken, c, w, w.chan[i])
  BY DEF CopyTrue
<1>1. OnTrack(new, c, w)
  BY PlaceGrows DEF CopyTrue, OnTrack
<1>2. ASSUME NEW code, Hears(st, taken, c, w, code) PROVE Hears(new, taken, c, w, code)
  BY <1>2, AllHeldGrows DEF Hears
<1> QED BY <1>1, <1>2 DEF CopyTrue

LEMMA ConnGrows ==
    ASSUME NEW st, NEW new, Grows(st, new)
    PROVE  TrueMessages(st) \subseteq TrueMessages(new) /\ Conn(st) \subseteq Conn(new)
<1>1. TrueMessages(st) \subseteq TrueMessages(new)
  BY AllHeldGrows DEF TrueMessages
<1>2. Seq(TrueMessages(st)) \subseteq Seq(TrueMessages(new))
  BY <1>1, SeqGrows
<1> QED BY <1>1, <1>2 DEF Conn

LEMMA VerdictTrueGrows ==
    ASSUME NEW st, NEW new, Grows(st, new), NEW taken, NEW c, NEW v, VerdictTrue(st, taken, c, v)
    PROVE  VerdictTrue(new, taken, c, v)
BY AllHeldGrows DEF VerdictTrue

LEMMA VerdictsAreSaid == ASSUME VerdictsTrue PROVE VerdictIsTrue
<1> SUFFICES ASSUME NEW c \in Caps, copyDedupCache[c] # None
             PROVE  LET verdict   == copyDedupCache[c]
                        Copied(n) == \E r \in Replicas : Contents[c][n] \in stored[r]
                    IN  /\ verdict.status = "Succeeded" => \A n \in DOMAIN Contents[c] : Copied(n)
                        /\ verdict.status = "Failed" =>
                              /\ \A n \in 1..verdict.index - 1 : Copied(n)
                              /\ verdict.code = "exists" => Contents[c][verdict.index] \in left.taken
  BY DEF VerdictIsTrue
<1>1. VerdictTrue(stored, left.taken, c, copyDedupCache[c])
  BY DEF VerdictsTrue
<1>2. DOMAIN Contents[c] = 1..Len(Contents[c])
  BY LayoutIs, LenProperties
<1> QED BY <1>1, <1>2 DEF VerdictTrue, AllHeld, Held

(***************************************************************************)
(* Steps that leave the tasks alone.                                       *)
(***************************************************************************)
Still == UNCHANGED <<tasks, copyCache, copyDedupCache>>

LEMMA StillTrue ==
    ASSUME TasksTrue, CollectorsTrue, VerdictsTrue, Still, Grows(stored, stored'),
           left'.taken = left.taken
    PROVE  TasksTrue' /\ CollectorsTrue' /\ VerdictsTrue'
<1>1. tasks' = tasks /\ copyCache' = copyCache /\ copyDedupCache' = copyDedupCache
  BY DEF Still
<1>2. TasksTrue'
  <2>1. ASSUME NEW c \in Caps
        PROVE  /\ CopyTrue(stored', left'.taken, c, tasks'[<<"copy", c>>])
               /\ tasks'[<<"erase", c>>].at # "idle" => AllHeld(stored', c)
    BY <1>1, CopyTrueGrows, AllHeldGrows DEF TasksTrue
  <2> QED BY <1>1, <2>1 DEF TasksTrue
<1>3. CollectorsTrue'
  BY <1>1 DEF CollectorsTrue
<1>4. VerdictsTrue'
  <2>1. ASSUME NEW c \in Caps PROVE VerdictTrue(stored', left'.taken, c, copyDedupCache'[c])
    BY <1>1, VerdictTrueGrows DEF VerdictsTrue
  <2> QED BY <1>1, <2>1 DEF VerdictsTrue
<1> QED BY <1>2, <1>3, <1>4

LEMMA SameReplicas ==
    ASSUME TruthInv, stored' = stored, temp' = temp, left'.taken = left.taken,
           "taken" \in DOMAIN left'
    PROVE  ReplicasTrue' /\ Grows(stored, stored') /\ (conns' = conns => ConnsTrue')
<1>1. ReplicasTrue /\ ConnsTrue
  BY DEF TruthInv
<1>2. ReplicasTrue'
  BY <1>1 DEF ReplicasTrue
<1>3. conns' = conns => ConnsTrue'
  BY <1>1 DEF ConnsTrue
<1> QED BY <1>2, <1>3 DEF Grows

(* One connection changes. *)
LEMMA ConnChanges ==
    ASSUME ConnsTrue, Grows(stored, stored'), NEW r \in Replicas, NEW v \in Conn(stored') \cup {None},
           conns' = [conns EXCEPT ![r] = v]
    PROVE  ConnsTrue'
<1>1. Conn(stored) \subseteq Conn(stored')
  BY ConnGrows
<1>2. conns \in [Replicas -> Conn(stored) \cup {None}]
  BY DEF ConnsTrue
<1>3. conns' \in [Replicas -> Conn(stored') \cup {None}]
  BY <1>1, <1>2
<1> QED BY <1>3 DEF ConnsTrue

(***************************************************************************)
(* The connections and the replicas.                                       *)
(***************************************************************************)
LEMMA MessageForms ==
    ASSUME NEW st, NEW h \in TrueMessages(st)
    PROVE  /\ h[1] \in {"query", "read", "erase"}
           /\ h[1] = "query" => h[2] \in Envelopes
           /\ h[1] = "erase" => AllHeld(st, h[2])
BY DEF TrueMessages, Messages

(* What a replica does keeps the replicas as they should be, and forgets nothing. *)
LEMMA ReplicaApplies ==
    ASSUME ReplicasTrue, NEW r \in Replicas, NEW h \in TrueMessages(stored), NEW code \in Codes(r, h),
           Applies(r, h, code), left'.taken = left.taken, "taken" \in DOMAIN left'
    PROVE  ReplicasTrue' /\ Grows(stored, stored')
<1>1. /\ h[1] \in {"query", "read", "erase"}
      /\ h[1] = "query" => h[2] \in Envelopes
      /\ h[1] = "erase" => AllHeld(stored, h[2])
  BY MessageForms
<1>2. /\ stored \in [Replicas -> SUBSET Envelopes]
      /\ \A q \in Replicas : stored[q] \cap left.taken = {}
      /\ temp \in [Replicas -> [Cells -> {"data", "none", "blank"}]]
      /\ \A q \in Replicas, c \in Caps : \A k \in 1..MaxBoxes :
          /\ temp[q][<<c, k>>] = "data" => k \in Boxes(c)
          /\ temp[q][<<c, k>>] = "blank" => AllHeld(stored, c)
  BY DEF ReplicasTrue
<1>3. /\ stored' \in [Replicas -> SUBSET Envelopes]
      /\ \A q \in Replicas : stored'[q] \cap left'.taken = {}
      /\ Grows(stored, stored')
  <2>1. CASE h[1] = "query" /\ code = "ok"
    <3>1. h[2] \notin left.taken
      BY <2>1 DEF Codes
    <3>2. stored' = [stored EXCEPT ![r] = @ \cup {h[2]}]
      BY <2>1 DEF Applies
    <3>3. \A q \in Replicas : stored'[q] = IF q = r THEN stored[r] \cup {h[2]} ELSE stored[q]
      BY <1>2, <3>2
    <3>4. stored' \in [Replicas -> SUBSET Envelopes]
      BY <1>1, <1>2, <2>1, <3>2
    <3> QED BY <1>2, <3>1, <3>3, <3>4 DEF Grows
  <2>2. CASE ~(h[1] = "query" /\ code = "ok")
    <3>1. stored' = stored
      BY <2>2 DEF Applies
    <3> QED BY <1>2, <3>1 DEF Grows
  <2> QED BY <2>1, <2>2
<1>4. /\ temp' \in [Replicas -> [Cells -> {"data", "none", "blank"}]]
      /\ \A q \in Replicas, c \in Caps : \A k \in 1..MaxBoxes :
          /\ temp'[q][<<c, k>>] = "data" => k \in Boxes(c)
          /\ temp'[q][<<c, k>>] = "blank" => AllHeld(stored, c)
  <2>1. CASE h[1] = "erase" /\ code = "ok"
    <3> DEFINE x == <<h[2], h[3]>>
    <3>1. temp' = [temp EXCEPT ![r][x] = "blank"]
      BY <2>1 DEF Applies
    <3>2. temp' = [temp EXCEPT ![r] = [temp[r] EXCEPT ![x] = "blank"]]
      <4> HIDE DEF x
      <4> QED BY <3>1
    <3>3. [temp[r] EXCEPT ![x] = "blank"] \in [Cells -> {"data", "none", "blank"}]
      <4> HIDE DEF x
      <4> QED BY <1>2
    <3>4. temp' \in [Replicas -> [Cells -> {"data", "none", "blank"}]]
      <4> HIDE DEF x
      <4> QED BY <1>2, <3>2, <3>3
    <3>5. ASSUME NEW q \in Replicas, NEW c \in Caps, NEW k \in 1..MaxBoxes
          PROVE  /\ temp'[q][<<c, k>>] = "data" => k \in Boxes(c)
                 /\ temp'[q][<<c, k>>] = "blank" => AllHeld(stored, c)
      <4>1. <<c, k>> \in Cells
        BY DEF Cells
      <4>2. CASE q = r /\ <<c, k>> = x
        <5>1. c = h[2]
          BY <4>2
        <5>2. temp'[q][<<c, k>>] = "blank"
          <6> HIDE DEF x
          <6> QED BY <1>2, <3>2, <4>1, <4>2
        <5> QED BY <1>1, <2>1, <5>1, <5>2
      <4>3. CASE ~(q = r /\ <<c, k>> = x)
        <5>1. temp'[q][<<c, k>>] = temp[q][<<c, k>>]
          <6> HIDE DEF x
          <6> QED BY <1>2, <3>2, <4>1, <4>3
        <5> QED BY <1>2, <5>1
      <4> QED BY <4>2, <4>3
    <3> QED BY <3>4, <3>5
  <2>2. CASE ~(h[1] = "erase" /\ code = "ok")
    <3>1. temp' = temp
      BY <2>2 DEF Applies
    <3> QED BY <1>2, <3>1
  <2> QED BY <2>1, <2>2
<1>5. \A c : AllHeld(stored, c) => AllHeld(stored', c)
  BY <1>3, AllHeldGrows
<1>6. ReplicasTrue'
  BY <1>3, <1>4, <1>5 DEF ReplicasTrue
<1> QED BY <1>3, <1>6

(* What a connection does to its queue and to its wire. *)
LEMMA ConnParts ==
    ASSUME ConnsTrue, NEW r \in Replicas, conns[r] # None
    PROVE  /\ conns[r] \in Conn(stored)
           /\ conns = [q \in Replicas |-> conns[q]]
BY DEF ConnsTrue

LEMMA ConnSteps ==
    ASSUME TruthInv, NEW r \in Replicas, Establish(r) \/ Transmit(r) \/ Decoy(r) \/ Spawn(r)
    PROVE  TruthInv'
<1>1. ReplicasTrue /\ ConnsTrue /\ TasksTrue /\ CollectorsTrue /\ VerdictsTrue /\ "taken" \in DOMAIN left
  BY DEF TruthInv, ReplicasTrue
<1>2. stored' = stored /\ temp' = temp /\ Still
  BY DEF Establish, Transmit, Decoy, Spawn, Still, caches
<1>3. left'.taken = left.taken /\ "taken" \in DOMAIN left'
  <2>1. left' = left \/ left' = [left EXCEPT !.decoys = @ - 1]
    BY DEF Establish, Transmit, Decoy, Spawn, network
  <2> QED BY <1>1, <2>1
<1>4. ReplicasTrue' /\ Grows(stored, stored')
  BY <1>2, <1>3, SameReplicas
<1>5. TasksTrue' /\ CollectorsTrue' /\ VerdictsTrue'
  BY <1>1, <1>2, <1>3, <1>4, StillTrue
<1>6. ConnsTrue'
  <2>1. \E v \in Conn(stored') \cup {None} : conns' = [conns EXCEPT ![r] = v]
    <3> DEFINE k == conns[r]
    <3>1. conns[r] # None => k \in Conn(stored') /\ conns = [q \in Replicas |-> conns[q]]
      BY <1>1, <1>2, ConnParts
    <3>2. CASE Establish(r)
      <4> DEFINE v == [k EXCEPT !.up = TRUE, !.waiting = FALSE]
      <4>1. conns[r] # None /\ conns' = [conns EXCEPT ![r].up = TRUE, ![r].waiting = FALSE]
        BY <3>2 DEF Establish
      <4>2. v \in Conn(stored') /\ conns' = [conns EXCEPT ![r] = v]
        BY <3>1, <4>1 DEF Conn
      <4> QED BY <4>2
    <3>3. CASE Transmit(r)
      <4> DEFINE v == [k EXCEPT !.queue = Tail(k.queue), !.waiting = TRUE,
                                !.wire = Append(k.wire, Head(k.queue))]
      <4>1. /\ conns[r] # None /\ k.queue # <<>>
            /\ conns' = [conns EXCEPT ![r].queue = Tail(@), ![r].waiting = TRUE,
                                      ![r].wire = Append(@, Head(k.queue))]
        BY <3>3 DEF Transmit, Running
      <4>2. k.queue \in Seq(TrueMessages(stored')) /\ k.wire \in Seq(TrueMessages(stored'))
        BY <3>1, <4>1 DEF Conn
      <4>3. /\ Tail(k.queue) \in Seq(TrueMessages(stored'))
            /\ Append(k.wire, Head(k.queue)) \in Seq(TrueMessages(stored'))
        BY <4>1, <4>2, HeadTailProperties, AppendProperties
      <4>4. v \in Conn(stored') /\ conns' = [conns EXCEPT ![r] = v]
        BY <3>1, <4>1, <4>3 DEF Conn
      <4> QED BY <4>4
    <3>4. CASE Decoy(r)
      <4> DEFINE v == [k EXCEPT !.waiting = FALSE]
      <4>1. conns[r] # None /\ conns' = [conns EXCEPT ![r].waiting = FALSE]
        BY <3>4 DEF Decoy, Running
      <4>2. v \in Conn(stored') /\ conns' = [conns EXCEPT ![r] = v]
        BY <3>1, <4>1 DEF Conn
      <4> QED BY <4>2
    <3>5. CASE Spawn(r)
      <4>1. conns' = [conns EXCEPT ![r] = NewConn]
        BY <3>5 DEF Spawn
      <4>2. NewConn \in Conn(stored')
        BY EmptySeq DEF NewConn, Conn
      <4> QED BY <4>1, <4>2
    <3> QED BY <3>2, <3>3, <3>4, <3>5
  <2> QED BY <1>1, <1>4, <2>1, ConnChanges
<1> QED BY <1>4, <1>5, <1>6 DEF TruthInv

(* The connection dies: what was on the wire may have been applied or not. *)
LEMMA LoseStep ==
    ASSUME TruthInv, NEW r \in Replicas, Lose(r)
    PROVE  TruthInv'
<1>1. ReplicasTrue /\ ConnsTrue /\ TasksTrue /\ CollectorsTrue /\ VerdictsTrue /\ "taken" \in DOMAIN left
  BY DEF TruthInv, ReplicasTrue
<1>2. /\ Still /\ left' = [left EXCEPT !.losses = @ - 1] /\ conns[r] # None
      /\ conns' = [conns EXCEPT ![r].up = FALSE, ![r].wire = <<>>]
  BY DEF Lose, Still, caches, Running
<1>3. left'.taken = left.taken /\ "taken" \in DOMAIN left'
  BY <1>1, <1>2
<1> DEFINE k == conns[r]
<1>4. k \in Conn(stored) /\ conns = [q \in Replicas |-> conns[q]]
  BY <1>1, <1>2, ConnParts
<1>5. ReplicasTrue' /\ Grows(stored, stored')
  <2>1. CASE k.wire = <<>>
    <3>1. stored' = stored /\ temp' = temp
      BY <2>1 DEF Lose
    <3> QED BY <1>3, <3>1, SameReplicas
  <2>2. CASE k.wire # <<>>
    <3>1. Head(k.wire) \in TrueMessages(stored)
      <4>1. k.wire \in Seq(TrueMessages(stored))
        BY <1>4 DEF Conn
      <4> QED BY <2>2, <4>1, HeadTailProperties
    <3>2. PICK code \in Codes(r, Head(k.wire)) : Applies(r, Head(k.wire), code)
      BY <2>2 DEF Lose
    <3> QED BY <1>1, <1>3, <3>1, <3>2, ReplicaApplies
  <2> QED BY <2>1, <2>2
<1>6. TasksTrue' /\ CollectorsTrue' /\ VerdictsTrue'
  BY <1>1, <1>2, <1>3, <1>5, StillTrue
<1>7. ConnsTrue'
  <2> DEFINE v == [k EXCEPT !.up = FALSE, !.wire = <<>>]
  <2>1. k \in Conn(stored')
    BY <1>4, <1>5, ConnGrows
  <2>2. v \in Conn(stored') /\ conns' = [conns EXCEPT ![r] = v]
    BY <1>2, <1>4, <2>1, EmptySeq DEF Conn
  <2> HIDE DEF v
  <2> QED BY <1>1, <1>5, <2>2, ConnChanges
<1> QED BY <1>5, <1>6, <1>7 DEF TruthInv

(* One task changes. *)
LEMMA OneTask ==
    ASSUME TasksTrue, VerdictsTrue, Grows(stored, stored'), left'.taken = left.taken,
           copyDedupCache' = copyDedupCache, NEW t \in Tasks, NEW v \in Task,
           tasks' = [tasks EXCEPT ![t] = v],
           v.at \in {"queued", "send", "stuck"} => v.todo # <<>>,
           t[1] = "query" => v.at \in {"idle", "queued", "send", "stuck", "wedged"},
           t[1] = "copy" => CopyTrue(stored', left.taken, Owner(t), v),
           t[1] = "erase" => v.at = "idle" \/ AllHeld(stored', Owner(t))
    PROVE  TasksTrue' /\ VerdictsTrue'
<1>1. /\ tasks \in [Tasks -> Task]
      /\ \A u \in Tasks : tasks[u].at \in {"queued", "send", "stuck"} => tasks[u].todo # <<>>
  BY DEF TasksTrue
<1>2. tasks' \in [Tasks -> Task] /\ \A u \in Tasks : tasks'[u] = IF u = t THEN v ELSE tasks[u]
  BY <1>1
<1>3. \A u \in Tasks : tasks'[u].at \in {"queued", "send", "stuck"} => tasks'[u].todo # <<>>
  BY <1>1, <1>2
<1>4. ASSUME NEW e \in Envelopes
      PROVE  tasks'[<<"query", e>>].at \in {"idle", "queued", "send", "stuck", "wedged"}
  <2>1. <<"query", e>> \in Tasks
    BY DEF Tasks
  <2>2. tasks[<<"query", e>>].at \in {"idle", "queued", "send", "stuck", "wedged"}
    BY DEF TasksTrue
  <2> QED BY <1>2, <2>1, <2>2
<1>5. ASSUME NEW c \in Caps PROVE CopyTrue(stored', left'.taken, c, tasks'[<<"copy", c>>])
  <2>1. <<"copy", c>> \in Tasks /\ Owner(<<"copy", c>>) = c
    BY DEF Tasks, Owner
  <2>2. CopyTrue(stored', left.taken, c, tasks[<<"copy", c>>])
    BY CopyTrueGrows DEF TasksTrue
  <2> QED BY <1>2, <2>1, <2>2
<1>6. ASSUME NEW c \in Caps PROVE tasks'[<<"erase", c>>].at # "idle" => AllHeld(stored', c)
  <2>1. <<"erase", c>> \in Tasks /\ Owner(<<"erase", c>>) = c
    BY DEF Tasks, Owner
  <2>2. tasks[<<"erase", c>>].at # "idle" => AllHeld(stored', c)
    BY AllHeldGrows DEF TasksTrue
  <2> QED BY <1>2, <2>1, <2>2
<1>7. TasksTrue'
  BY <1>2, <1>3, <1>4, <1>5, <1>6 DEF TasksTrue
<1>8. VerdictsTrue'
  <2>1. ASSUME NEW c \in Caps PROVE VerdictTrue(stored', left'.taken, c, copyDedupCache'[c])
    BY VerdictTrueGrows DEF VerdictsTrue
  <2> QED BY <2>1 DEF VerdictsTrue
<1> QED BY <1>7, <1>8

(* What a replica answers is a reply, and true of what has been asked. *)
LEMMA RepliesAre ==
    ASSUME ReplicasTrue, NEW r \in Replicas, NEW h \in TrueMessages(stored), NEW code \in Codes(r, h)
    PROVE  /\ code \in Replies
           /\ h[1] = "query" /\ code = "exists" => h[2] \in left.taken
           /\ h[1] = "read" => /\ code = "data" => h[3] \in Boxes(h[2])
                               /\ code = "blank" => AllHeld(stored, h[2])
                               /\ code # "exists"
<1>1. h[1] \in {"query", "read", "erase"}
  BY MessageForms
<1>2. CASE h[1] = "query"
  BY <1>2 DEF Codes, Replies
<1>3. CASE h[1] = "read"
  <2>1. h[2] \in Caps /\ h[3] \in 1..MaxBoxes
    BY <1>3 DEF TrueMessages, Messages
  <2>2. <<h[2], h[3]>> \in Cells
    BY <2>1 DEF Cells
  <2>3. /\ Holds(r, h) \in {"data", "none", "blank"}
        /\ Holds(r, h) = "data" => h[3] \in Boxes(h[2])
        /\ Holds(r, h) = "blank" => AllHeld(stored, h[2])
    BY <2>1, <2>2 DEF ReplicasTrue, Holds
  <2>4. code \in {"busy", "refused"} \/ code = IF Holds(r, h) = "none" THEN "absent" ELSE Holds(r, h)
    BY <1>3 DEF Codes
  <2> QED BY <1>3, <2>3, <2>4 DEF Replies
<1>4. CASE h[1] = "erase"
  BY <1>4 DEF Codes, Replies
<1> QED BY <1>1, <1>2, <1>3, <1>4

LEMMA AnswerStep ==
    ASSUME TruthInv, NEW r \in Replicas, Answer(r)
    PROVE  TruthInv'
<1>1. /\ ReplicasTrue /\ ConnsTrue /\ TasksTrue /\ CollectorsTrue /\ VerdictsTrue
      /\ "taken" \in DOMAIN left /\ tasks \in [Tasks -> Task]
  BY DEF TruthInv, ReplicasTrue, TasksTrue
<1> DEFINE k    == conns[r]
           h    == Head(k.wire)
           read == [conns EXCEPT ![r].wire = Tail(@), ![r].waiting = FALSE]
<1>2. conns[r] # None /\ k.wire # <<>> /\ copyDedupCache' = copyDedupCache /\ copyCache' = copyCache
  BY DEF Answer, Running
<1>3. PICK code \in Codes(r, h) :
        /\ left' = IF code \in {"busy", "refused"} THEN [left EXCEPT !.faults = @ - 1] ELSE left
        /\ Applies(r, h, code)
        /\ \/ /\ h \in DOMAIN copyCache /\ conns' = read
              /\ tasks' = [tasks EXCEPT ![copyCache[h]].chan = Append(@, code)]
           \/ conns' \in {read, [read EXCEPT ![r].hold = code]} /\ tasks' = tasks
  BY DEF Answer
<1>4. k \in Conn(stored) /\ conns = [q \in Replicas |-> conns[q]]
  BY <1>1, <1>2, ConnParts
<1>5. k.wire \in Seq(TrueMessages(stored))
  BY <1>4 DEF Conn
<1>6. h \in TrueMessages(stored) /\ Tail(k.wire) \in Seq(TrueMessages(stored))
  BY <1>2, <1>5, HeadTailProperties
<1>7. left'.taken = left.taken /\ "taken" \in DOMAIN left'
  BY <1>1, <1>3
<1>8. ReplicasTrue' /\ Grows(stored, stored')
  BY <1>1, <1>3, <1>6, <1>7, ReplicaApplies
<1>9. code \in Replies
  BY <1>1, <1>3, <1>6, RepliesAre
<1>10. ConnsTrue'
  <2> DEFINE v == [k EXCEPT !.wire = Tail(k.wire), !.waiting = FALSE]
             x == [v EXCEPT !.hold = code]
  <2>1. k \in Conn(stored') /\ Tail(k.wire) \in Seq(TrueMessages(stored'))
    <3>1. TrueMessages(stored) \subseteq TrueMessages(stored') /\ Conn(stored) \subseteq Conn(stored')
      BY <1>8, ConnGrows
    <3> QED BY <1>4, <1>6, <3>1, SeqGrows
  <2>2. v \in Conn(stored') /\ read = [conns EXCEPT ![r] = v]
    BY <1>4, <2>1 DEF Conn
  <2>3. x \in Conn(stored') /\ [read EXCEPT ![r].hold = code] = [conns EXCEPT ![r] = x]
    <3>1. x \in Conn(stored')
      BY <1>9, <2>2 DEF Conn
    <3>2. read[r] = v
      BY <1>4, <2>2
    <3> HIDE DEF v
    <3> QED BY <1>4, <2>2, <3>1, <3>2
  <2> HIDE DEF v, x
  <2> QED BY <1>1, <1>3, <1>8, <2>2, <2>3, ConnChanges
<1>11. CASE tasks' = tasks
  <2>1. Still
    BY <1>2, <1>11 DEF Still
  <2> QED BY <1>1, <1>7, <1>8, <1>10, <2>1, StillTrue DEF TruthInv
<1>12. CASE h \in DOMAIN copyCache /\ tasks' = [tasks EXCEPT ![copyCache[h]].chan = Append(@, code)]
  <2> DEFINE t == copyCache[h]
             w == tasks[t]
             v == [w EXCEPT !.chan = Append(w.chan, code)]
  <2>1. t \in Tasks /\ t[1] # "query" /\ w.at \in Busy /\ h = Hash(t, w)
    BY <1>1, <1>12 DEF CollectorsTrue
  <2>2. w \in Task
    BY <1>1, <2>1
  <2>3. tasks' = [tasks EXCEPT ![t] = v]
    BY <1>1, <1>12, <2>1
  <2> HIDE DEF t, h, k
  <2>4. w.chan \in Seq(Replies) /\ Append(w.chan, code) \in Seq(Replies)
        /\ Len(w.chan) \in Nat /\ Len(Append(w.chan, code)) = Len(w.chan) + 1
        /\ \A i \in 1..Len(w.chan) + 1 :
              Append(w.chan, code)[i] = IF i = Len(w.chan) + 1 THEN code ELSE w.chan[i]
    BY <1>9, <2>2, TaskType, AppendProperties, LenProperties
  <2>5. /\ v \in Task /\ v.at = w.at /\ v.todo = w.todo /\ v.ready = w.ready /\ v.buffer = w.buffer
        /\ v.done = w.done /\ v.box = w.box /\ v.code = w.code /\ v.shard = w.shard
        /\ v.attempt = w.attempt /\ v.chan = Append(w.chan, code)
    BY <2>2, <2>4 DEF Task
  <2> HIDE DEF w, v
  <2>6. ASSUME t[1] = "copy" PROVE CopyTrue(stored', left.taken, Owner(t), v)
    <3> DEFINE c == Owner(t)
    <3>1. t = <<"copy", c>> /\ c \in Caps
      BY <2>1, <2>6 DEF Tasks, Owner
    <3>2. CopyTrue(stored', left.taken, c, w)
      BY <1>1, <1>8, <3>1, CopyTrueGrows DEF TasksTrue, w
    <3>3. /\ OnTrack(stored', c, w) /\ w.at # "idle"
          /\ \A i \in 1..Len(w.chan) : Hears(stored', left.taken, c, w, w.chan[i])
      BY <2>1, <3>2 DEF CopyTrue, Busy
    <3>4. OnTrack(stored', c, v)
      <4>1. BoxesRead(v) = BoxesRead(w)
        BY <2>5 DEF BoxesRead
      <4> QED BY <2>5, <3>3, <4>1, SamePlace DEF OnTrack
    <3>5. Hears(stored', left.taken, c, w, code)
      <4>1. CASE w.ready # <<>>
        <5>1. h = <<"query", Head(w.ready)>>
          BY <2>1, <2>6, <4>1 DEF Hash
        <5>2. code = "exists" => Head(w.ready) \in left.taken
          BY <1>1, <1>3, <1>6, <5>1, RepliesAre
        <5>3. code = "ok" => Held(stored', Head(w.ready))
          <6>1. code = "ok" => stored' = [stored EXCEPT ![r] = @ \cup {Head(w.ready)}]
            BY <1>3, <5>1 DEF Applies
          <6> QED BY <1>1, <6>1 DEF Held, ReplicasTrue
        <5> QED BY <4>1, <5>2, <5>3 DEF Hears
      <4>2. CASE w.ready = <<>>
        <5>1. h = <<"read", c, w.box, w.shard, w.attempt>>
          BY <2>1, <2>6, <4>2 DEF Hash
        <5>2. h[1] = "read" /\ h[2] = c /\ h[3] = w.box
          BY <5>1
        <5>3. /\ code = "data" => w.box \in Boxes(c)
              /\ code = "blank" => AllHeld(stored, c)
              /\ code # "exists"
          BY <1>1, <1>3, <1>6, <5>2, RepliesAre
        <5> QED BY <1>8, <4>2, <5>3, AllHeldGrows DEF Hears
      <4> QED BY <4>1, <4>2
    <3> HIDE DEF c
    <3>6. ASSUME NEW i \in 1..Len(v.chan) PROVE Hears(stored', left.taken, c, v, v.chan[i])
      <4>1. v.chan[i] = code \/ (i \in 1..Len(w.chan) /\ v.chan[i] = w.chan[i])
        BY <2>4, <2>5
      <4>2. Hears(stored', left.taken, c, w, v.chan[i])
        BY <3>3, <3>5, <4>1
      <4> QED BY <2>5, <4>2 DEF Hears
    <3> QED BY <2>1, <2>5, <3>4, <3>6 DEF CopyTrue, c
  <2>7. t[1] = "erase" => v.at = "idle" \/ AllHeld(stored', Owner(t))
    <3>1. ASSUME t[1] = "erase" PROVE t = <<"erase", Owner(t)>> /\ Owner(t) \in Caps
      BY <2>1, <3>1 DEF Tasks, Owner
    <3> QED BY <1>1, <1>8, <2>5, <3>1, AllHeldGrows DEF TasksTrue, w
  <2>8. TasksTrue' /\ VerdictsTrue'
    <3>1. v.at \in {"queued", "send", "stuck"} => v.todo # <<>>
      BY <1>1, <2>1, <2>5 DEF TasksTrue, w
    <3> QED BY <1>1, <1>2, <1>7, <1>8, <2>1, <2>3, <2>5, <2>6, <2>7, <3>1, OneTask
  <2>9. CollectorsTrue'
    <3> SUFFICES ASSUME NEW g \in DOMAIN copyCache
                 PROVE  LET u == copyCache[g]
                        IN  u \in Tasks /\ u[1] # "query" /\ tasks'[u].at \in Busy /\ g = Hash(u, tasks'[u])
      BY <1>2 DEF CollectorsTrue
    <3> DEFINE u == copyCache[g]
    <3>1. u \in Tasks /\ u[1] # "query" /\ tasks[u].at \in Busy /\ g = Hash(u, tasks[u])
      BY <1>1 DEF CollectorsTrue
    <3> HIDE DEF u
    <3>2. tasks'[u] = IF u = t THEN v ELSE tasks[u]
      BY <1>1, <2>3, <3>1
    <3>3. Hash(t, v) = Hash(t, w)
      BY <2>5 DEF Hash
    <3>4. tasks'[u].at = tasks[u].at /\ Hash(u, tasks'[u]) = Hash(u, tasks[u])
      BY <2>5, <3>2, <3>3 DEF w
    <3> QED BY <3>1, <3>4 DEF u
  <2> QED BY <1>8, <1>10, <2>8, <2>9 DEF TruthInv
<1> QED BY <1>3, <1>11, <1>12

(***************************************************************************)
(* Clients ask, and a Copy starts.                                         *)
(***************************************************************************)
LEMMA IdleIsTask ==
    /\ IdleTask \in Task /\ IdleTask.at = "idle"
    /\ [IdleTask EXCEPT !.at = "pause"] \in Task /\ [IdleTask EXCEPT !.at = "pause"].at = "pause"
<1>1. <<>> \in Seq(Replicas) /\ <<>> \in Seq(Replies) /\ <<>> \in Seq(Envelopes) /\ <<>> \in Seq(Unit(Envelopes))
  BY EmptySeq
<1>2. IdleTask \in Task /\ IdleTask.at = "idle"
  BY <1>1 DEF IdleTask, Task, Places
<1> QED BY <1>2 DEF Task, Places

LEMMA IntermediatesAre ==
    ASSUME NEW e \in Envelopes
    PROVE  Intermediates[e] \in Seq(Replicas) /\ Intermediates[e] # <<>>
<1>1. Intermediates[e] \in Replicas \X Replicas
  BY CourierAssumption
<1>2. PICK a \in Replicas, b \in Replicas : Intermediates[e] = <<a, b>>
  BY <1>1
<1> QED BY <1>2

LEMMA CollectorsKept ==
    ASSUME CollectorsTrue, NEW t,
           \A u \in Tasks : u # t => (tasks'[u] = tasks[u] \/ tasks[u].at = "idle"),
           \A h \in DOMAIN copyCache' : h \in DOMAIN copyCache /\ copyCache'[h] = copyCache[h]
                                        /\ copyCache[h] # t
    PROVE  CollectorsTrue'
<1> SUFFICES ASSUME NEW h \in DOMAIN copyCache'
             PROVE  LET u == copyCache'[h]
                    IN  u \in Tasks /\ u[1] # "query" /\ tasks'[u].at \in Busy /\ h = Hash(u, tasks'[u])
  BY DEF CollectorsTrue
<1> DEFINE u == copyCache[h]
<1>1. copyCache'[h] = u /\ u # t
  OBVIOUS
<1>2. u \in Tasks /\ u[1] # "query" /\ tasks[u].at \in Busy /\ h = Hash(u, tasks[u])
  BY DEF CollectorsTrue
<1> HIDE DEF u
<1>3. tasks[u].at # "idle"
  BY <1>2 DEF Busy
<1>4. tasks'[u] = tasks[u]
  BY <1>1, <1>2, <1>3
<1> QED BY <1>1, <1>2, <1>4

LEMMA ClientStep ==
    ASSUME TruthInv, NEW e \in Envelopes, Acquire(e) \/ \E i \in 1..2 : Ask(e, i)
    PROVE  TruthInv'
<1>1. /\ ReplicasTrue /\ ConnsTrue /\ TasksTrue /\ CollectorsTrue /\ VerdictsTrue
      /\ "taken" \in DOMAIN left /\ tasks \in [Tasks -> Task]
  BY DEF TruthInv, ReplicasTrue, TasksTrue
<1> DEFINE t == <<"query", e>>
<1>2. /\ copyDedupCache' = copyDedupCache /\ copyCache' = copyCache /\ left' = left
      /\ stored' = stored /\ temp' = temp /\ conns' = conns
  BY DEF Acquire, Ask, network, caches
<1>3. ReplicasTrue' /\ Grows(stored, stored') /\ ConnsTrue' /\ left'.taken = left.taken
  BY <1>1, <1>2, SameReplicas
<1>4. t \in Tasks /\ t[1] = "query"
  BY DEF Tasks
<1>5. \/ tasks' = tasks
      \/ tasks[t].at = "queued" /\ tasks' = [tasks EXCEPT ![t].at = "send"]
      \/ tasks' = [tasks EXCEPT ![t].at = "queued", ![t].todo = Intermediates[e]]
  BY DEF Acquire, Ask, Schedule
<1>6. CASE tasks' = tasks
  <2>1. Still
    BY <1>2, <1>6 DEF Still
  <2> QED BY <1>1, <1>3, <2>1, StillTrue DEF TruthInv
<1>7. ASSUME NEW v \in Task, tasks' = [tasks EXCEPT ![t] = v], v.at \in {"queued", "send"},
             v.todo # <<>>
      PROVE  TruthInv'
  <2>1. TasksTrue' /\ VerdictsTrue'
    <3> HIDE DEF t
    <3> QED BY <1>1, <1>2, <1>3, <1>4, <1>7, OneTask
  <2>2. \A h \in DOMAIN copyCache : copyCache[h] # t
    BY <1>1, <1>4 DEF CollectorsTrue
  <2>3. \A u \in Tasks : u # t => tasks'[u] = tasks[u]
    <3> HIDE DEF t
    <3> QED BY <1>1, <1>7
  <2>4. CollectorsTrue'
    <3> HIDE DEF t
    <3> QED BY <1>1, <1>2, <2>2, <2>3, CollectorsKept
  <2> QED BY <1>3, <2>1, <2>4 DEF TruthInv
<1>8. CASE tasks[t].at = "queued" /\ tasks' = [tasks EXCEPT ![t].at = "send"]
  <2> DEFINE v == [tasks[t] EXCEPT !.at = "send"]
  <2>1. tasks[t] \in Task /\ tasks[t].todo # <<>>
    BY <1>1, <1>4, <1>8 DEF TasksTrue
  <2>2. v \in Task /\ v.at = "send" /\ v.todo = tasks[t].todo
    BY <2>1 DEF Task, Places
  <2>3. tasks' = [tasks EXCEPT ![t] = v]
    BY <1>8
  <2> HIDE DEF v, t
  <2> QED BY <1>7, <2>1, <2>2, <2>3
<1>9. CASE tasks' = [tasks EXCEPT ![t].at = "queued", ![t].todo = Intermediates[e]]
  <2> DEFINE v == [tasks[t] EXCEPT !.at = "queued", !.todo = Intermediates[e]]
  <2>1. tasks[t] \in Task
    BY <1>1, <1>4
  <2>2. v \in Task /\ v.at = "queued" /\ v.todo # <<>>
    BY <2>1, IntermediatesAre DEF Task, Places
  <2>3. tasks' = [tasks EXCEPT ![t] = v]
    <3> HIDE DEF t
    <3> QED BY <1>1, <1>4, <1>9
  <2> HIDE DEF v, t
  <2> QED BY <1>7, <2>2, <2>3
<1> QED BY <1>5, <1>6, <1>8, <1>9

(* A Copy begins where its stream begins. *)
LEMMA StartsInStep ==
    ASSUME NEW st, NEW c \in Caps
    PROVE  OnTrack(st, c, [IdleTask EXCEPT !.at = "pause"])
<1> DEFINE w == [IdleTask EXCEPT !.at = "pause"]
           C == Contents[c]
           N == Len(Stream(c))
           l == Layout(c)
<1>1. /\ w \in Task /\ w.box = 1 /\ w.ready = <<>> /\ w.buffer = <<>> /\ w.done = 0 /\ w.code = "none"
  BY IdleIsTask DEF IdleTask
<1>2. /\ C \in Seq(Of(c)) /\ Sized(Of(c)) /\ Serial(Of(c), C, l.ends, l.all)
      /\ Len(C) \in Nat /\ N \in Nat /\ Len(l.all) \in Nat /\ l.all \in Seq(Unit(Of(c)))
      /\ l.cut[0] = 0 /\ l.cut[N] = Len(l.all) /\ l.ends[0] = 0
  BY LayoutIs, LayoutFacts DEF IsLayout
<1> HIDE DEF w, C, N, l
<1>3. Len(w.ready) = 0 /\ w.done + Len(w.ready) = 0 /\ BoxesRead(w) = 0
  BY <1>1, EmptySeq DEF BoxesRead
<1>4. SubSeq(C, 0 + 1, 0) = <<>> /\ SubSeq(l.all, 0 + 1, 0) = <<>>
  <2>1. 0 + 1 = 1
    OBVIOUS
  <2> QED BY <1>2, <2>1, SubSeqEmpty
<1>5. 0 = N => 0 = Len(C)
  <2>1. 0 \in 0..Len(C)
    BY <1>2
  <2>2. l.ends[0] = Len(l.all) <=> 0 = Len(C)
    BY <1>2, <2>1, EndsBound
  <2> QED BY <1>2, <2>2
<1>6. InStep(st, c, w, 0)
  <2>1. 0 \in 0..N /\ 0 <= Len(C)
    BY <1>2
  <2> QED BY <1>1, <1>2, <1>3, <1>4, <1>5, <2>1 DEF InStep, C, N, l
<1>7. 1 <= MaxBoxes
  BY CourierAssumption
<1>8. OnTrack(st, c, w)
  BY <1>1, <1>3, <1>6, <1>7 DEF OnTrack, Place
<1> QED BY <1>8 DEF w

(***************************************************************************)
(* An attempt begins, sends, and ends.                                     *)
(***************************************************************************)
(* An attempt ends: the task goes on, or it is a Copy and gets a verdict that is true. *)
LEMMA SettleTrue ==
    ASSUME TasksTrue, VerdictsTrue, stored' = stored, left'.taken = left.taken,
           NEW t \in Tasks, NEW w \in Task, Settle(t, w),
           \/ t[1] = "copy" /\ GoesRight(stored, left.taken, Owner(t), w)
           \/ t[1] = "erase" /\ w.at \in {"pause", "idle"} /\ AllHeld(stored, Owner(t))
    PROVE  /\ TasksTrue' /\ VerdictsTrue'
           /\ \A u \in Tasks : u # t => (tasks'[u] = tasks[u] \/ tasks[u].at = "idle")
<1> DEFINE c == Owner(t)
<1>1. c \in Caps /\ (t = <<"copy", c>> \/ t = <<"erase", c>>)
  BY DEF Tasks, Owner
<1>2. tasks \in [Tasks -> Task] /\ Grows(stored, stored')
  BY DEF TasksTrue, Grows
<1>3. CASE w.at \notin {"failed", "succeeded"}
  <2>1. tasks' = [tasks EXCEPT ![t] = w] /\ copyDedupCache' = copyDedupCache
    BY <1>3 DEF Settle
  <2>2. w.at \in {"pause", "idle"}
    BY <1>3 DEF GoesRight
  <2>3. t[1] = "copy" => CopyTrue(stored', left.taken, c, w)
    <3>1. t[1] = "copy" => w.at = "pause" /\ OnTrack(stored, c, w)
      BY <1>3 DEF GoesRight
    <3> QED BY <3>1 DEF CopyTrue, Busy
  <2>4. t[1] = "erase" => w.at = "idle" \/ AllHeld(stored', c)
    OBVIOUS
  <2>5. TasksTrue' /\ VerdictsTrue'
    <3>1. t[1] # "query"
      OBVIOUS
    <3>2. w.at \notin {"queued", "send", "stuck"}
      BY <2>2
    <3> QED BY <1>2, <2>1, <2>3, <2>4, <3>1, <3>2, OneTask
  <2> QED BY <1>2, <2>1, <2>5
<1>4. CASE w.at \in {"failed", "succeeded"}
  <2>1. t[1] = "copy" /\ GoesRight(stored, left.taken, c, w) /\ t = <<"copy", c>>
    BY <1>1, <1>4
  <2> DEFINE verdict == IF w.at = "succeeded"
                        THEN [status |-> "Succeeded", code |-> "none", index |-> 0, old |-> FALSE]
                        ELSE [status |-> "Failed", code |-> w.code, index |-> w.done + 1, old |-> FALSE]
             x == <<"erase", c>>
  <2>2. /\ copyDedupCache' = [copyDedupCache EXCEPT ![c] = verdict]
        /\ tasks' = [tasks EXCEPT ![t] = IdleTask, ![x] =
                        IF w.at = "succeeded" /\ @.at = "idle"
                        THEN [IdleTask EXCEPT !.at = "pause"] ELSE @]
    BY <1>4 DEF Settle
  <2>3. x \in Tasks /\ x # t
    BY <1>1, <2>1 DEF Tasks
  <2>4. w.done \in Nat /\ w.code \in Replies \cup {"none"}
    BY TaskType
  <2>5. verdict \in Verdict /\ VerdictTrue(stored', left.taken, c, verdict)
    <3>1. CASE w.at = "succeeded"
      <4>1. AllHeld(stored', c)
        BY <2>1, <3>1 DEF GoesRight
      <4> QED BY <3>1, <4>1 DEF Verdict, VerdictTrue
    <3>2. CASE w.at = "failed"
      <4>1. FailsTruly(stored', left.taken, c, w)
        BY <2>1, <3>2 DEF GoesRight
      <4>2. /\ verdict.status = "Failed" /\ verdict.code = w.code /\ verdict.index = w.done + 1
            /\ verdict \in Verdict
        BY <2>4, <3>2 DEF Verdict
      <4> HIDE DEF verdict
      <4>3. verdict.index - 1 = w.done /\ verdict.index \in Nat \ {0}
        BY <2>4, <4>2
      <4> QED BY <4>1, <4>2, <4>3 DEF FailsTruly, VerdictTrue
    <3> QED BY <1>4, <3>1, <3>2
  <2> HIDE DEF verdict
  <2>6. VerdictsTrue'
    <3>1. copyDedupCache \in [Caps -> Verdict \cup {None}]
          /\ \A d \in Caps : VerdictTrue(stored, left.taken, d, copyDedupCache[d])
      BY DEF VerdictsTrue
    <3>2. copyDedupCache' \in [Caps -> Verdict \cup {None}]
          /\ \A d \in Caps : copyDedupCache'[d] = IF d = c THEN verdict ELSE copyDedupCache[d]
      <4> HIDE DEF c
      <4> QED BY <2>2, <2>5, <3>1
    <3> QED BY <2>5, <3>1, <3>2 DEF VerdictsTrue
  <2> HIDE DEF c, x
  <2>7. tasks' = [u \in Tasks |-> IF u = x THEN IF w.at = "succeeded" /\ tasks[u].at = "idle"
                                               THEN [IdleTask EXCEPT !.at = "pause"] ELSE tasks[u]
                                  ELSE IF u = t THEN IdleTask ELSE tasks[u]]
    BY <1>2, <2>2, <2>3
  <2>8. /\ tasks'[t] = IdleTask /\ \A u \in Tasks : u \notin {t, x} => tasks'[u] = tasks[u]
        /\ \/ tasks'[x] = tasks[x]
           \/ /\ w.at = "succeeded" /\ tasks[x].at = "idle"
              /\ tasks'[x] = [IdleTask EXCEPT !.at = "pause"]
    BY <2>3, <2>7
  <2>9. tasks' \in [Tasks -> Task]
    <3>1. \A u \in Tasks : tasks'[u] \in Task
      BY <1>2, <2>3, <2>8, IdleIsTask
    <3> QED BY <2>7, <3>1
  <2>10. \A u \in Tasks : tasks'[u].at \in {"queued", "send", "stuck"} => tasks'[u].todo # <<>>
    <3>1. \A u \in Tasks : tasks[u].at \in {"queued", "send", "stuck"} => tasks[u].todo # <<>>
      BY DEF TasksTrue
    <3> QED BY <2>3, <2>8, <3>1, IdleIsTask
  <2>11. ASSUME NEW e \in Envelopes
         PROVE  tasks'[<<"query", e>>].at \in {"idle", "queued", "send", "stuck", "wedged"}
    <3>1. <<"query", e>> \in Tasks /\ <<"query", e>> \notin {t, x}
      BY <2>1 DEF Tasks, x
    <3> QED BY <2>8, <3>1 DEF TasksTrue
  <2>12. ASSUME NEW d \in Caps PROVE CopyTrue(stored', left'.taken, d, tasks'[<<"copy", d>>])
    <3>1. <<"copy", d>> \in Tasks /\ <<"copy", d>> # x
      BY DEF Tasks, x
    <3>2. CopyTrue(stored, left.taken, d, tasks[<<"copy", d>>])
      BY DEF TasksTrue
    <3>3. CopyTrue(stored, left.taken, d, IdleTask)
      BY IdleIsTask DEF CopyTrue
    <3> QED BY <2>8, <3>1, <3>2, <3>3
  <2>13. ASSUME NEW d \in Caps PROVE tasks'[<<"erase", d>>].at # "idle" => AllHeld(stored', d)
    <3>1. <<"erase", d>> \in Tasks /\ <<"erase", d>> # t
      BY <2>1 DEF Tasks
    <3>2. tasks[<<"erase", d>>].at # "idle" => AllHeld(stored, d)
      BY DEF TasksTrue
    <3>3. CASE <<"erase", d>> = x
      <4>1. d = c
        BY <3>3 DEF x
      <4>2. w.at = "succeeded" => AllHeld(stored, c)
        BY <2>1 DEF GoesRight
      <4> QED BY <2>8, <3>2, <3>3, <4>1, <4>2
    <3>4. CASE <<"erase", d>> # x
      BY <2>8, <3>1, <3>2, <3>4
    <3> QED BY <3>3, <3>4
  <2>14. TasksTrue'
    BY <2>9, <2>10, <2>11, <2>12, <2>13 DEF TasksTrue
  <2>15. \A u \in Tasks : u # t => (tasks'[u] = tasks[u] \/ tasks[u].at = "idle")
    BY <2>8
  <2> QED BY <2>6, <2>14, <2>15
<1> QED BY <1>3, <1>4

LEMMA EraseNextIsTask ==
    ASSUME NEW c, NEW w \in Task
    PROVE  EraseNext(c, w) \in Task /\ EraseNext(c, w).at \in {"pause", "idle"}
<1> DEFINE v == [w EXCEPT !.at = "pause", !.box = w.box + 1, !.attempt = 0]
<1>1. w.box + 1 \in Nat \ {0}
  BY TaskType
<1>2. v \in Task /\ v.at = "pause"
  BY <1>1 DEF Task, Places
<1> QED BY <1>2, IdleIsTask DEF EraseNext

LEMMA EraseRepliesIsTask ==
    ASSUME NEW c, NEW w \in Task, NEW replies
    PROVE  EraseReplies(c, w, replies) \in Task /\ EraseReplies(c, w, replies).at \in {"pause", "idle"}
<1> DEFINE v == [w EXCEPT !.at = "pause", !.attempt = w.attempt + 1]
<1>1. w.attempt + 1 \in Nat
  BY TaskType
<1>2. v \in Task /\ v.at = "pause"
  BY <1>1 DEF Task, Places
<1>3. EraseReplies(c, w, replies) \in {EraseNext(c, w), v}
  BY DEF EraseReplies
<1> HIDE DEF v
<1> QED BY <1>2, <1>3, EraseNextIsTask

LEMMA CopyStarts ==
    ASSUME TruthInv, InProgressIsWorking, NEW c \in Caps, Copy(c)
    PROVE  TruthInv'
<1>1. /\ ReplicasTrue /\ ConnsTrue /\ TasksTrue /\ CollectorsTrue /\ VerdictsTrue
      /\ "taken" \in DOMAIN left /\ tasks \in [Tasks -> Task]
  BY DEF TruthInv, ReplicasTrue, TasksTrue
<1> DEFINE t == <<"copy", c>>
           w == [IdleTask EXCEPT !.at = "pause"]
<1>2. /\ copyCache' = copyCache /\ left' = left /\ stored' = stored /\ temp' = temp /\ conns' = conns
      /\ tasks' = [tasks EXCEPT ![t] = w]
      /\ copyDedupCache' = [d \in Caps |->
            IF d = c THEN [status |-> "InProgress", code |-> "none", index |-> 0, old |-> FALSE]
            ELSE IF Expired(copyDedupCache[d]) THEN None ELSE copyDedupCache[d]]
  BY DEF Copy, network
<1>3. ReplicasTrue' /\ Grows(stored, stored') /\ ConnsTrue' /\ left'.taken = left.taken
  BY <1>1, <1>2, SameReplicas
<1>4. t \in Tasks /\ t[1] = "copy" /\ Owner(t) = c
  BY DEF Tasks, Owner
<1>5. tasks[t].at = "idle"
  <2>1. copyDedupCache[c] = None \/ copyDedupCache[c].status # "InProgress"
    BY DEF Copy, Expired
  <2> QED BY <2>1 DEF InProgressIsWorking
<1>6. w \in Task /\ w.at = "pause" /\ OnTrack(stored', c, w)
  BY IdleIsTask, StartsInStep
<1>7. CopyTrue(stored', left.taken, c, w)
  BY <1>6 DEF CopyTrue, Busy
<1> HIDE DEF w
<1>8. TasksTrue'
  <2>1. tasks' \in [Tasks -> Task] /\ \A u \in Tasks : tasks'[u] = IF u = t THEN w ELSE tasks[u]
    <3> HIDE DEF t
    <3> QED BY <1>1, <1>2, <1>6
  <2>2. \A u \in Tasks : tasks'[u].at \in {"queued", "send", "stuck"} => tasks'[u].todo # <<>>
    <3> HIDE DEF t
    <3> QED BY <1>1, <1>6, <2>1 DEF TasksTrue
  <2>3. ASSUME NEW e \in Envelopes
        PROVE  tasks'[<<"query", e>>].at \in {"idle", "queued", "send", "stuck", "wedged"}
    <3>1. <<"query", e>> \in Tasks /\ <<"query", e>> # t
      BY DEF Tasks
    <3> HIDE DEF t
    <3> QED BY <1>1, <2>1, <3>1 DEF TasksTrue
  <2>4. ASSUME NEW d \in Caps PROVE CopyTrue(stored', left'.taken, d, tasks'[<<"copy", d>>])
    <3>1. <<"copy", d>> \in Tasks /\ (<<"copy", d>> = t => d = c)
      BY DEF Tasks
    <3>2. CopyTrue(stored, left.taken, d, tasks[<<"copy", d>>])
      BY <1>1 DEF TasksTrue
    <3> HIDE DEF t
    <3> QED BY <1>2, <1>3, <1>7, <2>1, <3>1, <3>2
  <2>5. ASSUME NEW d \in Caps PROVE tasks'[<<"erase", d>>].at # "idle" => AllHeld(stored', d)
    <3>1. <<"erase", d>> \in Tasks /\ <<"erase", d>> # t
      BY DEF Tasks
    <3>2. tasks[<<"erase", d>>].at # "idle" => AllHeld(stored, d)
      BY <1>1 DEF TasksTrue
    <3> HIDE DEF t
    <3> QED BY <1>2, <2>1, <3>1, <3>2
  <2> QED BY <2>1, <2>2, <2>3, <2>4, <2>5 DEF TasksTrue
<1>9. VerdictsTrue'
  <2> DEFINE v == [status |-> "InProgress", code |-> "none", index |-> 0, old |-> FALSE]
  <2>1. v \in Verdict /\ VerdictTrue(stored', left'.taken, c, v)
    BY DEF Verdict, VerdictTrue
  <2> HIDE DEF v
  <2>2. ASSUME NEW d \in Caps
        PROVE  copyDedupCache'[d] \in Verdict \cup {None}
               /\ VerdictTrue(stored', left'.taken, d, copyDedupCache'[d])
    <3>1. copyDedupCache'[d] \in {None, copyDedupCache[d]} \/ (d = c /\ copyDedupCache'[d] = v)
      BY <1>2 DEF v
    <3>2. copyDedupCache[d] \in Verdict \cup {None} /\ VerdictTrue(stored, left.taken, d, copyDedupCache[d])
      BY <1>1 DEF VerdictsTrue
    <3>3. VerdictTrue(stored', left'.taken, d, None)
      BY DEF VerdictTrue
    <3> QED BY <1>2, <2>1, <3>1, <3>2, <3>3
  <2>3. copyDedupCache' \in [Caps -> Verdict \cup {None}]
    BY <1>2, <2>2
  <2> QED BY <2>2, <2>3 DEF VerdictsTrue
<1>10. CollectorsTrue'
  <2>1. \A h \in DOMAIN copyCache : copyCache[h] # t
    <3>1. \A h \in DOMAIN copyCache : tasks[copyCache[h]].at \in Busy
      BY <1>1 DEF CollectorsTrue
    <3> QED BY <1>5, <3>1 DEF Busy
  <2>2. \A u \in Tasks : u # t => tasks'[u] = tasks[u]
    <3> HIDE DEF t
    <3> QED BY <1>1, <1>2
  <2> HIDE DEF t
  <2> QED BY <1>1, <1>2, <2>1, <2>2, CollectorsKept
<1> QED BY <1>3, <1>8, <1>9, <1>10 DEF TruthInv

(* Where an attempt sends: to replicas, one or two. *)
LEMMA TargetsAre ==
    ASSUME NEW t \in Tasks, t[1] # "query", NEW w \in Task
    PROVE  Targets(t, w) \in Seq(Replicas)
<1> DEFINE c == Owner(t)
           Usable(r) == IF r \in listed \ left.keyless THEN <<r>> ELSE <<>>
<1>1. c \in Caps /\ t[1] \in {"copy", "erase"}
  BY DEF Tasks, Owner
<1>2. \A r \in Replicas : Usable(r) \in Seq(Replicas)
  BY EmptySeq
<1>3. PICK a \in Replicas, b \in Replicas : Shards[c] = <<a, b>>
  BY <1>1, CourierAssumption
<1>4. Shards[c][1] = a /\ Shards[c][2] = b /\ w.shard \in {1, 2}
  BY <1>3, TaskType
<1>5. Usable(a) \in Seq(Replicas) /\ Usable(b) \in Seq(Replicas)
  BY <1>2
<1>6. Usable(a) \o Usable(b) \in Seq(Replicas)
  <2> HIDE DEF Usable
  <2> QED BY <1>5, ConcatProperties
<1>7. w.ready # <<>> => Intermediates[Head(w.ready)] \in Seq(Replicas)
  BY TaskType, HeadTailProperties, IntermediatesAre
<1>8. Usable(Shards[c][w.shard]) \in Seq(Replicas)
  <2>1. Shards[c][w.shard] \in Replicas
    BY <1>4
  <2> HIDE DEF Usable
  <2> QED BY <1>2, <2>1
<1>9. Usable(Shards[c][1]) \o Usable(Shards[c][2]) \in Seq(Replicas)
  <2> HIDE DEF Usable
  <2> QED BY <1>4, <1>6
<1>10. Targets(t, w) \in {Usable(Shards[c][1]) \o Usable(Shards[c][2]), Usable(Shards[c][w.shard])}
       \/ (w.ready # <<>> /\ Targets(t, w) = Intermediates[Head(w.ready)])
  BY DEF Targets
<1> HIDE DEF Usable
<1> QED BY <1>7, <1>8, <1>9, <1>10

LEMMA RegisterIs ==
    ASSUME NEW h, NEW t, copyCache' = Register(copyCache, h, t)
    PROVE  /\ DOMAIN copyCache' = {h} \cup DOMAIN copyCache
           /\ copyCache'[h] = t
           /\ \A g \in DOMAIN copyCache : g # h => copyCache'[g] = copyCache[g]
BY DEF Register

LEMMA BeginStep ==
    ASSUME TruthInv, NEW t \in Tasks, Begin(t)
    PROVE  TruthInv'
<1>1. /\ ReplicasTrue /\ ConnsTrue /\ TasksTrue /\ CollectorsTrue /\ VerdictsTrue
      /\ "taken" \in DOMAIN left /\ tasks \in [Tasks -> Task]
  BY DEF TruthInv, ReplicasTrue, TasksTrue
<1> DEFINE w == tasks[t]
           c == Owner(t)
           T == Targets(t, w)
<1>2. /\ left' = left /\ stored' = stored /\ temp' = temp /\ conns' = conns /\ w.at = "pause"
  BY DEF Begin, network
<1>3. ReplicasTrue' /\ Grows(stored, stored') /\ ConnsTrue' /\ left'.taken = left.taken
  BY <1>1, <1>2, SameReplicas
<1>4. w \in Task
  BY <1>1
<1>5. /\ t[1] \in {"copy", "erase"} /\ c \in Caps
      /\ t[1] = "copy" => CopyTrue(stored, left.taken, c, w)
      /\ t[1] = "erase" => AllHeld(stored, c)
  <2>1. ASSUME NEW e \in Envelopes PROVE t # <<"query", e>>
    <3>1. tasks[<<"query", e>>].at # "pause"
      BY <1>1 DEF TasksTrue
    <3> QED BY <1>2, <3>1
  <2>2. (t = <<"copy", c>> \/ t = <<"erase", c>>) /\ c \in Caps
    BY <2>1 DEF Tasks, Owner
  <2>3. t = <<"copy", c>> => CopyTrue(stored, left.taken, c, w)
    <3> HIDE DEF c
    <3> QED BY <1>1, <2>2 DEF TasksTrue
  <2>4. t = <<"erase", c>> => AllHeld(stored, c)
    <3> HIDE DEF c
    <3> QED BY <1>1, <1>2, <2>2 DEF TasksTrue
  <2> QED BY <2>2, <2>3, <2>4
<1>6. t[1] = "copy" => OnTrack(stored, c, w)
  BY <1>2, <1>5 DEF CopyTrue
<1>7. \A h \in DOMAIN copyCache : copyCache[h] # t
  <2>1. \A h \in DOMAIN copyCache : tasks[copyCache[h]].at \in Busy
    BY <1>1 DEF CollectorsTrue
  <2> QED BY <1>2, <2>1 DEF Busy
<1>8. CASE T = <<>>
  <2> DEFINE v == IF t[1] = "erase" THEN EraseNext(c, w) ELSE NextShard(w)
  <2>1. Settle(t, v) /\ copyCache' = copyCache
    BY <1>8 DEF Begin
  <2>2. /\ v \in Task
        /\ \/ t[1] = "copy" /\ GoesRight(stored, left.taken, c, v)
           \/ t[1] = "erase" /\ v.at \in {"pause", "idle"} /\ AllHeld(stored, c)
    <3>1. CASE t[1] = "erase"
      BY <1>4, <1>5, <3>1, EraseNextIsTask
    <3>2. CASE t[1] = "copy"
      <4>1. GoesRight(stored, left.taken, c, NextShard(w))
        <5> HIDE DEF c, w
        <5> QED BY <1>5, <1>6, <3>2, NextShardRight
      <4> QED BY <3>2, <4>1 DEF GoesRight
    <3> QED BY <1>5, <3>1, <3>2
  <2> HIDE DEF v, w
  <2>3. /\ TasksTrue' /\ VerdictsTrue'
        /\ \A u \in Tasks : u # t => (tasks'[u] = tasks[u] \/ tasks[u].at = "idle")
    BY <1>1, <1>2, <2>1, <2>2, SettleTrue
  <2>4. CollectorsTrue'
    BY <1>1, <1>7, <2>1, <2>3, CollectorsKept
  <2> QED BY <1>3, <2>3, <2>4 DEF TruthInv
<1>9. CASE T # <<>>
  <2> DEFINE v == [w EXCEPT !.at = "send", !.todo = T, !.chan = <<>>, !.want = Len(T)]
             h == Hash(t, w)
  <2>1. /\ tasks' = [tasks EXCEPT ![t] = v] /\ copyCache' = Register(copyCache, h, t)
        /\ copyDedupCache' = copyDedupCache
    BY <1>9 DEF Begin
  <2>2. T \in Seq(Replicas) /\ Len(T) \in Nat
    <3>1. T \in Seq(Replicas)
      BY <1>4, <1>5, TargetsAre
    <3> HIDE DEF T
    <3> QED BY <3>1, LenProperties
  <2> HIDE DEF T, w, c
  <2>3. /\ v \in Task /\ v.at = "send" /\ v.todo = T /\ v.chan = <<>> /\ v.ready = w.ready
        /\ v.buffer = w.buffer /\ v.done = w.done /\ v.box = w.box /\ v.code = w.code
        /\ v.shard = w.shard /\ v.attempt = w.attempt
    BY <1>4, <2>2, EmptySeq DEF Task, Places
  <2>4. Hash(t, v) = h
    BY <2>3 DEF Hash
  <2> HIDE DEF v, h
  <2>5. ASSUME t[1] = "copy" PROVE CopyTrue(stored', left.taken, c, v)
    <3>1. BoxesRead(v) = BoxesRead(w)
      BY <2>3 DEF BoxesRead
    <3>2. OnTrack(stored', c, v)
      BY <1>2, <1>6, <2>3, <2>5, <3>1, SamePlace DEF OnTrack
    <3>3. \A i \in 1..Len(v.chan) : Hears(stored', left.taken, c, v, v.chan[i])
      BY <2>3, EmptySeq
    <3> QED BY <2>3, <3>2, <3>3 DEF CopyTrue, Busy
  <2>6. TasksTrue' /\ VerdictsTrue'
    <3>1. t[1] = "erase" => AllHeld(stored', Owner(t))
      BY <1>2, <1>5 DEF c
    <3>2. t[1] = "copy" => CopyTrue(stored', left.taken, Owner(t), v)
      BY <2>5 DEF c
    <3> QED BY <1>1, <1>3, <1>5, <1>9, <2>1, <2>3, <3>1, <3>2, OneTask
  <2>7. \A u \in Tasks : tasks'[u] = IF u = t THEN v ELSE tasks[u]
    BY <1>1, <2>1
  <2>8. CollectorsTrue'
    <3> SUFFICES ASSUME NEW g \in DOMAIN copyCache'
                 PROVE  LET u == copyCache'[g]
                        IN  u \in Tasks /\ u[1] # "query" /\ tasks'[u].at \in Busy /\ g = Hash(u, tasks'[u])
      BY DEF CollectorsTrue
    <3>1. CASE g = h
      <4>1. copyCache'[g] = t
        BY <2>1, <3>1, RegisterIs
      <4>2. tasks'[t] = v /\ v.at \in Busy /\ t[1] # "query" /\ h = Hash(t, v)
        BY <1>5, <2>3, <2>4, <2>7 DEF Busy
      <4> QED BY <3>1, <4>1, <4>2
    <3>2. CASE g # h
      <4>1. g \in DOMAIN copyCache /\ copyCache'[g] = copyCache[g]
        BY <2>1, <3>2, RegisterIs
      <4> DEFINE u == copyCache[g]
      <4>2. u \in Tasks /\ u[1] # "query" /\ tasks[u].at \in Busy /\ g = Hash(u, tasks[u]) /\ u # t
        BY <1>1, <1>7, <4>1 DEF CollectorsTrue
      <4>3. copyCache'[g] = u
        BY <4>1
      <4> HIDE DEF u
      <4>4. tasks'[u] = tasks[u]
        BY <2>7, <4>2
      <4> QED BY <4>2, <4>3, <4>4
    <3> QED BY <3>1, <3>2
  <2> QED BY <1>3, <2>6, <2>8 DEF TruthInv
<1> QED BY <1>8, <1>9

(* What a task sends is true of the replicas. *)
LEMMA HashIsTrue ==
    ASSUME NEW st, NEW t \in Tasks, NEW w \in Task,
           t[1] = "copy" => w.box <= MaxBoxes, t[1] = "erase" => AllHeld(st, Owner(t))
    PROVE  Hash(t, w) \in TrueMessages(st)
<1>1. /\ w.box \in Nat \ {0} /\ w.ready \in Seq(Envelopes) /\ w.shard \in Nat /\ w.attempt \in Nat
      /\ MaxBoxes \in Nat
  <2>1. MaxBoxes \in Nat
    BY CourierAssumption
  <2>2. w.shard \in {1, 2}
    BY TaskType
  <2> QED BY <2>1, <2>2, TaskType
<1>2. CASE t[1] = "query"
  <2>1. Owner(t) \in Envelopes
    BY <1>2 DEF Tasks, Owner
  <2>2. Hash(t, w) = <<"query", Owner(t)>>
    BY <1>2 DEF Hash
  <2> QED BY <2>1, <2>2 DEF TrueMessages, Messages
<1>3. CASE t[1] = "erase"
  <2>1. Owner(t) \in Caps
    BY <1>3 DEF Tasks, Owner
  <2>2. Hash(t, w) = <<"erase", Owner(t), w.box>>
    BY <1>3 DEF Hash
  <2> QED BY <1>1, <1>3, <2>1, <2>2 DEF TrueMessages, Messages
<1>4. CASE t[1] = "copy" /\ w.ready # <<>>
  <2>1. Head(w.ready) \in Envelopes
    BY <1>1, <1>4, HeadTailProperties
  <2>2. Hash(t, w) = <<"query", Head(w.ready)>>
    BY <1>4 DEF Hash
  <2> QED BY <2>1, <2>2 DEF TrueMessages, Messages
<1>5. CASE t[1] = "copy" /\ w.ready = <<>>
  <2>1. Owner(t) \in Caps
    BY <1>5 DEF Tasks, Owner
  <2>2. Hash(t, w) = <<"read", Owner(t), w.box, w.shard, w.attempt>>
    BY <1>5 DEF Hash
  <2>3. w.box \in 1..MaxBoxes
    BY <1>1, <1>5
  <2> QED BY <1>1, <2>1, <2>2, <2>3 DEF TrueMessages, Messages
<1>6. t[1] \in {"query", "copy", "erase"}
  BY DEF Tasks
<1> QED BY <1>2, <1>3, <1>4, <1>5, <1>6

LEMMA SentIs ==
    ASSUME NEW t, NEW w \in Task, w.todo # <<>>
    PROVE  /\ Sent(t, w) \in Task
           /\ \/ Sent(t, w) = IdleTask /\ t[1] = "query"
              \/ /\ Sent(t, w).at \in {"send", "wait"} /\ (Sent(t, w).at = "wait" => t[1] # "query")
                 /\ Sent(t, w).at = "send" => Sent(t, w).todo # <<>>
                 /\ Sent(t, w).chan = w.chan /\ Sent(t, w).ready = w.ready
                 /\ Sent(t, w).buffer = w.buffer /\ Sent(t, w).done = w.done
                 /\ Sent(t, w).box = w.box /\ Sent(t, w).code = w.code
                 /\ Sent(t, w).shard = w.shard /\ Sent(t, w).attempt = w.attempt
<1> DEFINE next == [w EXCEPT !.todo = Tail(w.todo)]
<1>1. Tail(w.todo) \in Seq(Replicas)
  BY TaskType, HeadTailProperties
<1>2. /\ next \in Task /\ next.chan = w.chan /\ next.ready = w.ready /\ next.buffer = w.buffer
      /\ next.done = w.done /\ next.box = w.box /\ next.code = w.code /\ next.shard = w.shard
      /\ next.attempt = w.attempt
  BY <1>1 DEF Task
<1>3. Sent(t, w) = IF next.todo # <<>> THEN [next EXCEPT !.at = "send"]
                   ELSE IF t[1] = "query" THEN IdleTask ELSE [next EXCEPT !.at = "wait"]
  BY DEF Sent
<1> HIDE DEF next
<1>4. CASE next.todo # <<>>
  <2>1. Sent(t, w) = [next EXCEPT !.at = "send"]
    BY <1>3, <1>4
  <2> QED BY <1>2, <1>4, <2>1 DEF Task, Places
<1>5. CASE next.todo = <<>> /\ t[1] = "query"
  BY <1>3, <1>5, IdleIsTask
<1>6. CASE next.todo = <<>> /\ t[1] # "query"
  <2>1. Sent(t, w) = [next EXCEPT !.at = "wait"]
    BY <1>3, <1>6
  <2> QED BY <1>2, <1>6, <2>1 DEF Task, Places
<1> QED BY <1>4, <1>5, <1>6

(* The truth of one task, taken off the invariant. *)
LEMMA TaskTrue ==
    ASSUME TasksTrue, NEW t \in Tasks
    PROVE  /\ tasks[t] \in Task
           /\ t[1] = "query" => tasks[t].at \in {"idle", "queued", "send", "stuck", "wedged"}
           /\ t[1] = "copy" => CopyTrue(stored, left.taken, Owner(t), tasks[t])
           /\ t[1] = "erase" => tasks[t].at = "idle" \/ AllHeld(stored, Owner(t))
           /\ t[1] \in {"query", "copy", "erase"} /\ (t[1] # "query" => Owner(t) \in Caps)
<1>1. tasks[t] \in Task
  BY DEF TasksTrue
<1>2. CASE \E e \in Envelopes : t = <<"query", e>>
  BY <1>1, <1>2 DEF TasksTrue
<1>3. CASE \E c \in Caps : t = <<"copy", c>>
  <2>1. PICK c \in Caps : t = <<"copy", c>>
    BY <1>3
  <2>2. t[1] = "copy" /\ Owner(t) = c
    BY <2>1 DEF Owner
  <2>3. CopyTrue(stored, left.taken, c, tasks[<<"copy", c>>])
    BY DEF TasksTrue
  <2> QED BY <1>1, <2>1, <2>2, <2>3
<1>4. CASE \E c \in Caps : t = <<"erase", c>>
  <2>1. PICK c \in Caps : t = <<"erase", c>>
    BY <1>4
  <2>2. t[1] = "erase" /\ Owner(t) = c
    BY <2>1 DEF Owner
  <2>3. tasks[<<"erase", c>>].at # "idle" => AllHeld(stored, c)
    BY DEF TasksTrue
  <2> QED BY <1>1, <2>1, <2>2, <2>3
<1> QED BY <1>2, <1>3, <1>4 DEF Tasks

(* A task sends or waits, and is where it was in its stream. *)
LEMMA StaysBusy ==
    ASSUME TruthInv, Grows(stored, stored'), left'.taken = left.taken, copyCache' = copyCache,
           copyDedupCache' = copyDedupCache, NEW t \in Tasks, NEW v \in Task,
           tasks' = [tasks EXCEPT ![t] = v], tasks[t].at \in Busy, v.at \in Busy,
           v.at \in {"send", "stuck"} => v.todo # <<>>, t[1] = "query" => v.at # "wait",
           v.chan = tasks[t].chan, v.ready = tasks[t].ready, v.buffer = tasks[t].buffer,
           v.done = tasks[t].done, v.box = tasks[t].box, v.code = tasks[t].code,
           v.shard = tasks[t].shard, v.attempt = tasks[t].attempt
    PROVE  TasksTrue' /\ CollectorsTrue' /\ VerdictsTrue'
<1>1. /\ TasksTrue /\ CollectorsTrue /\ VerdictsTrue /\ tasks \in [Tasks -> Task]
  BY DEF TruthInv, TasksTrue
<1> DEFINE w == tasks[t]
           c == Owner(t)
<1>2. ASSUME t[1] = "copy" PROVE CopyTrue(stored', left.taken, c, v)
  <2>1. CopyTrue(stored', left.taken, c, w)
    <3>1. CopyTrue(stored, left.taken, c, w)
      BY <1>1, <1>2, TaskTrue
    <3> QED BY <3>1, CopyTrueGrows
  <2>2. OnTrack(stored', c, w) /\ \A i \in 1..Len(w.chan) : Hears(stored', left.taken, c, w, w.chan[i])
    BY <2>1 DEF CopyTrue, Busy
  <2>3. BoxesRead(v) = BoxesRead(w)
    BY DEF BoxesRead
  <2>4. OnTrack(stored', c, v)
    BY <2>2, <2>3, SamePlace DEF OnTrack
  <2>5. \A code : Hears(stored', left.taken, c, w, code) => Hears(stored', left.taken, c, v, code)
    BY DEF Hears
  <2> QED BY <2>2, <2>4, <2>5 DEF CopyTrue, Busy
<1>3. t[1] = "erase" => AllHeld(stored', c)
  <2>1. t[1] = "erase" => AllHeld(stored, c)
    BY <1>1, TaskTrue DEF Busy
  <2> QED BY <2>1, AllHeldGrows
<1>4. v.at \notin {"idle", "queued"} /\ (t[1] = "query" => v.at \in {"send", "stuck", "wedged"})
  BY DEF Busy
<1>5. TasksTrue' /\ VerdictsTrue'
  BY <1>1, <1>2, <1>3, <1>4, OneTask
<1>6. Hash(t, v) = Hash(t, w)
  BY DEF Hash
<1>7. \A u \in Tasks : tasks'[u] = IF u = t THEN v ELSE tasks[u]
  BY <1>1
<1>8. CollectorsTrue'
  <2> SUFFICES ASSUME NEW g \in DOMAIN copyCache
               PROVE  LET u == copyCache[g]
                      IN  u \in Tasks /\ u[1] # "query" /\ tasks'[u].at \in Busy /\ g = Hash(u, tasks'[u])
    BY DEF CollectorsTrue
  <2> DEFINE u == copyCache[g]
  <2>1. u \in Tasks /\ u[1] # "query" /\ tasks[u].at \in Busy /\ g = Hash(u, tasks[u])
    BY <1>1 DEF CollectorsTrue
  <2> HIDE DEF u
  <2>2. tasks'[u].at \in Busy /\ g = Hash(u, tasks'[u])
    BY <1>6, <1>7, <2>1
  <2> QED BY <2>1, <2>2 DEF u
<1> QED BY <1>5, <1>8

(* An attempt ends, and its collector goes. *)
LEMMA AttemptEnds ==
    ASSUME TasksTrue, CollectorsTrue, VerdictsTrue, stored' = stored, left'.taken = left.taken,
           NEW t \in Tasks, NEW w \in Task, Settle(t, w),
           \/ t[1] = "copy" /\ GoesRight(stored, left.taken, Owner(t), w)
           \/ t[1] = "erase" /\ w.at \in {"pause", "idle"} /\ AllHeld(stored, Owner(t)),
           copyCache' = Drop(copyCache, Hash(t, tasks[t]))
    PROVE  TasksTrue' /\ CollectorsTrue' /\ VerdictsTrue'
<1>1. /\ TasksTrue' /\ VerdictsTrue'
      /\ \A u \in Tasks : u # t => (tasks'[u] = tasks[u] \/ tasks[u].at = "idle")
  BY SettleTrue
<1>2. \A h \in DOMAIN copyCache' : /\ h \in DOMAIN copyCache /\ copyCache'[h] = copyCache[h]
                                   /\ h # Hash(t, tasks[t])
  BY DEF Drop
<1>3. \A h \in DOMAIN copyCache : copyCache[h] = t => h = Hash(t, tasks[t])
  BY DEF CollectorsTrue
<1>4. CollectorsTrue'
  BY <1>1, <1>2, <1>3, CollectorsKept
<1> QED BY <1>1, <1>4

LEMMA SendStep ==
    ASSUME TruthInv, NEW t \in Tasks, Send(t)
    PROVE  TruthInv'
<1>1. /\ ReplicasTrue /\ ConnsTrue /\ TasksTrue /\ CollectorsTrue /\ VerdictsTrue
      /\ "taken" \in DOMAIN left /\ tasks \in [Tasks -> Task]
  BY DEF TruthInv, ReplicasTrue, TasksTrue
<1> DEFINE w == tasks[t]
           c == Owner(t)
           r == Head(w.todo)
<1>2. /\ left' = left /\ stored' = stored /\ temp' = temp /\ w.at \in {"send", "stuck"}
  BY DEF Send, network
<1>3. ReplicasTrue' /\ Grows(stored, stored') /\ (conns' = conns => ConnsTrue') /\ left'.taken = left.taken
  BY <1>1, <1>2, SameReplicas
<1>4. /\ w \in Task /\ w.todo # <<>> /\ t[1] \in {"query", "copy", "erase"}
      /\ t[1] = "copy" => OnTrack(stored, c, w)
      /\ t[1] = "erase" => AllHeld(stored, c)
      /\ t[1] # "query" => c \in Caps
      /\ w.at \in Busy
  BY <1>1, <1>2, TaskTrue DEF TasksTrue, CopyTrue, Busy
<1>5. /\ Sent(t, w) \in Task
      /\ \/ Sent(t, w) = IdleTask /\ t[1] = "query"
         \/ /\ Sent(t, w).at \in {"send", "wait"} /\ (Sent(t, w).at = "wait" => t[1] # "query")
            /\ Sent(t, w).at = "send" => Sent(t, w).todo # <<>>
            /\ Sent(t, w).chan = w.chan /\ Sent(t, w).ready = w.ready
            /\ Sent(t, w).buffer = w.buffer /\ Sent(t, w).done = w.done
            /\ Sent(t, w).box = w.box /\ Sent(t, w).code = w.code
            /\ Sent(t, w).shard = w.shard /\ Sent(t, w).attempt = w.attempt
  BY <1>4, SentIs
<1> HIDE DEF w, c, r
<1>6. ASSUME t[1] = "query", tasks' = [tasks EXCEPT ![t] = IdleTask], copyCache' = copyCache,
             copyDedupCache' = copyDedupCache
      PROVE  TasksTrue' /\ CollectorsTrue' /\ VerdictsTrue'
  <2>1. TasksTrue' /\ VerdictsTrue'
    BY <1>1, <1>3, <1>6, IdleIsTask, OneTask
  <2>2. \A h \in DOMAIN copyCache : copyCache[h] # t
    BY <1>1, <1>6 DEF CollectorsTrue
  <2>3. \A u \in Tasks : u # t => tasks'[u] = tasks[u]
    BY <1>1, <1>6
  <2>4. CollectorsTrue'
    BY <1>1, <1>6, <2>2, <2>3, CollectorsKept
  <2> QED BY <2>1, <2>4
<1>7. ASSUME tasks' = [tasks EXCEPT ![t] = Sent(t, w)], copyCache' = copyCache,
             copyDedupCache' = copyDedupCache
      PROVE  TasksTrue' /\ CollectorsTrue' /\ VerdictsTrue'
  <2>1. CASE Sent(t, w) = IdleTask /\ t[1] = "query"
    BY <1>6, <1>7, <2>1
  <2>2. CASE Sent(t, w).at \in {"send", "wait"} /\ Sent(t, w).chan = w.chan
    <3> DEFINE v == Sent(t, w)
    <3>1. v \in Task /\ v.at \in Busy /\ (v.at \in {"send", "stuck"} => v.todo # <<>>)
          /\ (t[1] = "query" => v.at # "wait")
      BY <1>5, <2>2, IdleIsTask DEF Busy
    <3>2. /\ v.chan = w.chan /\ v.ready = w.ready /\ v.buffer = w.buffer /\ v.done = w.done
          /\ v.box = w.box /\ v.code = w.code /\ v.shard = w.shard /\ v.attempt = w.attempt
      BY <1>5, <2>2, IdleIsTask
    <3>3. tasks' = [tasks EXCEPT ![t] = v]
      BY <1>7
    <3> HIDE DEF v
    <3> QED BY <1>3, <1>4, <1>7, <3>1, <3>2, <3>3, StaysBusy DEF w
  <2> QED BY <1>5, <2>1, <2>2
<1>8. CASE w.at = "send" /\ SendFails(r) /\ conns' = conns
  <2>1. CASE t[1] = "copy"
    <3>1. Settle(t, CopyAgain(w)) /\ copyCache' = Drop(copyCache, Hash(t, tasks[t]))
      <4>1. /\ t[1] = "copy"
            /\ \/ w.at = "send" /\ SendFails(r) /\ Settle(t, CopyAgain(w))
                  /\ copyCache' = Drop(copyCache, Hash(t, w))
               \/ w.at = "stuck" \/ ~SendFails(r)
        BY <2>1 DEF Send, w, r
      <4> QED BY <1>8, <4>1 DEF w
    <3>2. GoesRight(stored, left.taken, c, CopyAgain(w))
      BY <1>4, <2>1, CopyAgainRight
    <3>3. CopyAgain(w) \in Task
      BY <3>2 DEF GoesRight
    <3>4. TasksTrue' /\ CollectorsTrue' /\ VerdictsTrue'
      BY <1>1, <1>2, <2>1, <3>1, <3>2, <3>3, AttemptEnds DEF c
    <3> QED BY <1>3, <1>8, <3>4 DEF TruthInv
  <2>2. CASE t[1] # "copy"
    <3>1. /\ tasks' = [tasks EXCEPT ![t] = IF t[1] = "query" THEN IdleTask ELSE Sent(t, w)]
          /\ copyCache' = copyCache /\ copyDedupCache' = copyDedupCache
      <4>1. /\ ~(w.at = "stuck") /\ ~(~SendFails(r))
        BY <1>8
      <4> QED BY <2>2, <4>1 DEF Send, w, r
    <3>2. TasksTrue' /\ CollectorsTrue' /\ VerdictsTrue'
      BY <1>6, <1>7, <3>1
    <3> QED BY <1>3, <1>8, <3>2 DEF TruthInv
  <2> QED BY <2>1, <2>2
<1>9. CASE /\ Room(r) /\ conns' = [conns EXCEPT ![r].queue = Append(@, Hash(t, w))]
           /\ tasks' = [tasks EXCEPT ![t] = Sent(t, w)]
           /\ copyCache' = copyCache /\ copyDedupCache' = copyDedupCache
  <2>1. TasksTrue' /\ CollectorsTrue' /\ VerdictsTrue'
    BY <1>7, <1>9
  <2>2. r \in Replicas /\ conns[r] # None
    <3>1. w.todo \in Seq(Replicas)
      BY <1>4, TaskType
    <3> QED BY <1>4, <1>9, <3>1, HeadTailProperties DEF r, Room
  <2> DEFINE k == conns[r]
             h == Hash(t, w)
             v == [k EXCEPT !.queue = Append(k.queue, h)]
  <2>3. h \in TrueMessages(stored')
    <3>1. t[1] = "copy" => w.box <= MaxBoxes
      BY <1>4 DEF OnTrack
    <3>2. t[1] = "erase" => AllHeld(stored', Owner(t))
      BY <1>2, <1>4 DEF c
    <3> QED BY <1>4, <3>1, <3>2, HashIsTrue
  <2>4. k \in Conn(stored') /\ conns = [q \in Replicas |-> conns[q]]
    BY <1>1, <1>2, <2>2, ConnParts
  <2> HIDE DEF h
  <2>5. Append(k.queue, h) \in Seq(TrueMessages(stored'))
    <3>1. k.queue \in Seq(TrueMessages(stored'))
      BY <2>4 DEF Conn
    <3> QED BY <2>3, <3>1, AppendProperties
  <2>6. v \in Conn(stored') /\ conns' = [conns EXCEPT ![r] = v]
    BY <1>9, <2>4, <2>5 DEF Conn, h
  <2> HIDE DEF v
  <2>7. ConnsTrue'
    BY <1>1, <1>3, <2>2, <2>6, ConnChanges
  <2> QED BY <1>3, <2>1, <2>7 DEF TruthInv
<1>10. CASE /\ tasks' = [tasks EXCEPT ![t].at = "stuck"] /\ conns' = conns
            /\ copyCache' = copyCache /\ copyDedupCache' = copyDedupCache
  <2> DEFINE v == [w EXCEPT !.at = "stuck"]
  <2>1. /\ v \in Task /\ v.at = "stuck" /\ v.todo # <<>>
        /\ v.chan = w.chan /\ v.ready = w.ready /\ v.buffer = w.buffer /\ v.done = w.done
        /\ v.box = w.box /\ v.code = w.code /\ v.shard = w.shard /\ v.attempt = w.attempt
    BY <1>4 DEF Task, Places
  <2>2. tasks' = [tasks EXCEPT ![t] = v]
    BY <1>1, <1>10 DEF w
  <2> HIDE DEF v
  <2>3. TasksTrue' /\ CollectorsTrue' /\ VerdictsTrue'
    <3>1. v.at \in Busy /\ v.at # "wait"
      BY <2>1 DEF Busy
    <3> QED BY <1>3, <1>4, <1>10, <2>1, <2>2, <3>1, StaysBusy DEF w
  <2> QED BY <1>3, <1>10, <2>3 DEF TruthInv
<1> QED
  <2>1. \/ w.at = "send" /\ SendFails(r) /\ conns' = conns
        \/ /\ Room(r) /\ conns' = [conns EXCEPT ![r].queue = Append(@, Hash(t, w))]
           /\ tasks' = [tasks EXCEPT ![t] = Sent(t, w)]
           /\ copyCache' = copyCache /\ copyDedupCache' = copyDedupCache
        \/ /\ tasks' = [tasks EXCEPT ![t].at = "stuck"] /\ conns' = conns
           /\ copyCache' = copyCache /\ copyDedupCache' = copyDedupCache
    BY DEF Send, w, r
  <2> QED BY <1>8, <1>9, <1>10, <2>1

LEMMA CollectStep ==
    ASSUME TruthInv, NEW t \in Tasks, Collect(t)
    PROVE  TruthInv'
<1>1. /\ ReplicasTrue /\ ConnsTrue /\ TasksTrue /\ CollectorsTrue /\ VerdictsTrue
      /\ "taken" \in DOMAIN left /\ tasks \in [Tasks -> Task]
  BY DEF TruthInv, ReplicasTrue, TasksTrue
<1> DEFINE w       == tasks[t]
           c       == Owner(t)
           n       == IF Len(w.chan) < w.want THEN Len(w.chan) ELSE w.want
           replies == SubSeq(w.chan, 1, n)
           v       == IF t[1] = "copy" THEN CopyReplies(c, w, replies) ELSE EraseReplies(c, w, replies)
<1>2. /\ left' = left /\ stored' = stored /\ temp' = temp /\ conns' = conns /\ w.at = "wait"
      /\ copyCache' = Drop(copyCache, Hash(t, tasks[t])) /\ Settle(t, v)
  BY DEF Collect, network
<1>3. ReplicasTrue' /\ Grows(stored, stored') /\ ConnsTrue' /\ left'.taken = left.taken
  BY <1>1, <1>2, SameReplicas
<1>4. /\ w \in Task /\ t[1] \in {"copy", "erase"} /\ c \in Caps
      /\ t[1] = "copy" => CopyTrue(stored, left.taken, c, w)
      /\ t[1] = "erase" => AllHeld(stored, c)
  BY <1>1, <1>2, TaskTrue
<1>5. w.chan \in Seq(Replies) /\ Len(w.chan) \in Nat /\ w.want \in Nat
  BY <1>4, TaskType, LenProperties
<1> HIDE DEF w, c
<1>6. n \in 0..Len(w.chan)
  BY <1>5
<1> HIDE DEF n
<1>7. /\ replies \in Seq(Replies) /\ Len(replies) = n
      /\ \A i \in 1..n : replies[i] = w.chan[i]
  <2>1. n = 0 => replies = <<>>
    BY <1>5, <1>6, SubSeqEmpty
  <2>2. n # 0 => n \in 1..Len(w.chan) /\ 1 \in 1..Len(w.chan) + 1
    BY <1>5, <1>6
  <2>3. n # 0 => /\ replies \in Seq(Replies) /\ Len(replies) = n
                 /\ \A i \in 1..n : replies[i] = w.chan[i]
    BY <1>5, <1>6, <2>2, SubSeqProperties
  <2> QED BY <2>1, <2>3, EmptySeq
<1> HIDE DEF replies
<1>8. ASSUME t[1] = "copy" PROVE GoesRight(stored, left.taken, c, CopyReplies(c, w, replies))
  <2>1. OnTrack(stored, c, w) /\ \A i \in 1..Len(w.chan) : Hears(stored, left.taken, c, w, w.chan[i])
    BY <1>2, <1>4, <1>8 DEF CopyTrue, Busy, w
  <2>2. \A i \in 1..Len(replies) : Hears(stored, left.taken, c, w, replies[i])
    BY <1>5, <1>6, <1>7, <2>1
  <2>3. \A r \in Replicas : stored[r] \cap left.taken = {}
    BY <1>1 DEF ReplicasTrue
  <2> QED BY <1>4, <1>7, <2>1, <2>2, <2>3, CopyRepliesRight
<1>9. /\ v \in Task
      /\ \/ t[1] = "copy" /\ GoesRight(stored, left.taken, c, v)
         \/ t[1] = "erase" /\ v.at \in {"pause", "idle"} /\ AllHeld(stored, c)
  <2>1. CASE t[1] = "copy"
    BY <1>8, <2>1 DEF GoesRight
  <2>2. CASE t[1] = "erase"
    BY <1>4, <2>2, EraseRepliesIsTask
  <2> QED BY <1>4, <2>1, <2>2
<1> HIDE DEF v
<1>10. TasksTrue' /\ CollectorsTrue' /\ VerdictsTrue'
  BY <1>1, <1>2, <1>9, AttemptEnds DEF c
<1> QED BY <1>3, <1>10 DEF TruthInv

(***************************************************************************)
(* What else happens.                                                      *)
(***************************************************************************)
(* The worker of a replica that has left ends: who waits for its queue waits on. *)
LEMMA LeaveStep ==
    ASSUME TruthInv, NEW r \in Replicas, Leave(r)
    PROVE  TruthInv'
<1>1. /\ ReplicasTrue /\ ConnsTrue /\ TasksTrue /\ CollectorsTrue /\ VerdictsTrue
      /\ "taken" \in DOMAIN left /\ tasks \in [Tasks -> Task]
  BY DEF TruthInv, ReplicasTrue, TasksTrue
<1>2. /\ left' = left /\ stored' = stored /\ temp' = temp /\ copyCache' = copyCache
      /\ copyDedupCache' = copyDedupCache /\ conns' = [conns EXCEPT ![r] = None]
      /\ tasks' = [t \in Tasks |-> IF tasks[t].at = "stuck" /\ Head(tasks[t].todo) = r
                                   THEN [tasks[t] EXCEPT !.at = "wedged"] ELSE tasks[t]]
  BY DEF Leave, network, caches
<1>3. ReplicasTrue' /\ Grows(stored, stored') /\ left'.taken = left.taken
  BY <1>1, <1>2, SameReplicas
<1>4. ConnsTrue'
  BY <1>1, <1>2, <1>3, ConnChanges
<1>5. ASSUME NEW t \in Tasks
      PROVE  \/ tasks'[t] = tasks[t]
             \/ /\ tasks[t].at = "stuck" /\ tasks'[t].at = "wedged" /\ tasks'[t] \in Task
                /\ tasks'[t].chan = tasks[t].chan /\ tasks'[t].ready = tasks[t].ready
                /\ tasks'[t].buffer = tasks[t].buffer /\ tasks'[t].done = tasks[t].done
                /\ tasks'[t].box = tasks[t].box /\ tasks'[t].code = tasks[t].code
                /\ tasks'[t].shard = tasks[t].shard /\ tasks'[t].attempt = tasks[t].attempt
  <2> DEFINE w == tasks[t]
             v == [w EXCEPT !.at = "wedged"]
  <2>1. w \in Task
    BY <1>1
  <2>2. /\ v \in Task /\ v.at = "wedged" /\ v.chan = w.chan /\ v.ready = w.ready /\ v.buffer = w.buffer
        /\ v.done = w.done /\ v.box = w.box /\ v.code = w.code /\ v.shard = w.shard
        /\ v.attempt = w.attempt
    BY <2>1 DEF Task, Places
  <2>3. tasks'[t] = w \/ (w.at = "stuck" /\ tasks'[t] = v)
    BY <1>2
  <2> QED BY <2>2, <2>3
<1>6. ASSUME NEW t \in Tasks
      PROVE  /\ tasks'[t] \in Task
             /\ tasks'[t].at \in {"queued", "send", "stuck"} => tasks'[t].todo # <<>>
             /\ tasks'[t].at = "idle" => tasks[t].at = "idle"
             /\ tasks[t].at \in Busy => tasks'[t].at \in Busy
             /\ Hash(t, tasks'[t]) = Hash(t, tasks[t])
  <2>1. tasks[t] \in Task /\ (tasks[t].at \in {"queued", "send", "stuck"} => tasks[t].todo # <<>>)
    BY <1>1 DEF TasksTrue
  <2>2. Hash(t, tasks'[t]) = Hash(t, tasks[t])
    BY <1>5 DEF Hash
  <2> QED BY <1>5, <2>1, <2>2 DEF Busy
<1>7. TasksTrue'
  <2>1. tasks' \in [Tasks -> Task]
    BY <1>2, <1>6
  <2>2. ASSUME NEW e \in Envelopes
        PROVE  tasks'[<<"query", e>>].at \in {"idle", "queued", "send", "stuck", "wedged"}
    <3>1. <<"query", e>> \in Tasks
      BY DEF Tasks
    <3> QED BY <1>1, <1>5, <3>1 DEF TasksTrue
  <2>3. ASSUME NEW c \in Caps PROVE CopyTrue(stored', left'.taken, c, tasks'[<<"copy", c>>])
    <3> DEFINE t == <<"copy", c>>
    <3>1. t \in Tasks
      BY DEF Tasks
    <3>2. CopyTrue(stored', left'.taken, c, tasks[t])
      BY <1>1, <1>2 DEF TasksTrue
    <3> HIDE DEF t
    <3>3. CASE tasks'[t] = tasks[t]
      BY <3>2, <3>3 DEF t
    <3>4. CASE tasks'[t] # tasks[t]
      <4> DEFINE w == tasks[t]
                 v == tasks'[t]
      <4>1. /\ w.at = "stuck" /\ v.at = "wedged" /\ v \in Task
            /\ v.chan = w.chan /\ v.ready = w.ready /\ v.buffer = w.buffer /\ v.done = w.done
            /\ v.box = w.box /\ v.code = w.code
        BY <1>5, <3>1, <3>4
      <4>2. /\ OnTrack(stored', c, w)
            /\ \A i \in 1..Len(w.chan) : Hears(stored', left'.taken, c, w, w.chan[i])
        BY <3>2, <4>1 DEF CopyTrue, Busy
      <4> HIDE DEF w, v
      <4>3. BoxesRead(v) = BoxesRead(w)
        BY <4>1 DEF BoxesRead
      <4>4. OnTrack(stored', c, v)
        BY <4>1, <4>2, <4>3, SamePlace DEF OnTrack
      <4>5. \A code : Hears(stored', left'.taken, c, w, code) => Hears(stored', left'.taken, c, v, code)
        BY <4>1 DEF Hears
      <4>6. CopyTrue(stored', left'.taken, c, v)
        BY <4>1, <4>2, <4>4, <4>5 DEF CopyTrue, Busy
      <4> QED BY <4>6 DEF v, t
    <3> QED BY <3>3, <3>4
  <2>4. ASSUME NEW c \in Caps PROVE tasks'[<<"erase", c>>].at # "idle" => AllHeld(stored', c)
    <3>1. <<"erase", c>> \in Tasks
      BY DEF Tasks
    <3>2. tasks[<<"erase", c>>].at # "idle" => AllHeld(stored, c)
      BY <1>1 DEF TasksTrue
    <3>3. tasks[<<"erase", c>>].at = "idle" => tasks'[<<"erase", c>>].at = "idle"
      BY <1>5, <3>1
    <3> QED BY <1>2, <3>2, <3>3
  <2> QED BY <1>6, <2>1, <2>2, <2>3, <2>4 DEF TasksTrue
<1>8. CollectorsTrue'
  <2> SUFFICES ASSUME NEW h \in DOMAIN copyCache
               PROVE  LET u == copyCache[h]
                      IN  u \in Tasks /\ u[1] # "query" /\ tasks'[u].at \in Busy /\ h = Hash(u, tasks'[u])
    BY <1>2 DEF CollectorsTrue
  <2> DEFINE u == copyCache[h]
  <2>1. u \in Tasks /\ u[1] # "query" /\ tasks[u].at \in Busy /\ h = Hash(u, tasks[u])
    BY <1>1 DEF CollectorsTrue
  <2> HIDE DEF u
  <2>2. tasks'[u].at \in Busy /\ h = Hash(u, tasks'[u])
    BY <1>6, <2>1
  <2> QED BY <2>1, <2>2 DEF u
<1>9. VerdictsTrue'
  BY <1>1, <1>2 DEF VerdictsTrue
<1> QED BY <1>3, <1>4, <1>7, <1>8, <1>9 DEF TruthInv

(* Documents, the clock and the TTL. *)
LEMMA TimeStep ==
    ASSUME TruthInv, Tick \/ Age \/ \E r \in Replicas : Document(r)
    PROVE  TruthInv'
<1>1. /\ ReplicasTrue /\ ConnsTrue /\ TasksTrue /\ CollectorsTrue /\ VerdictsTrue
      /\ "taken" \in DOMAIN left /\ tasks \in [Tasks -> Task]
  BY DEF TruthInv, ReplicasTrue, TasksTrue
<1>2. /\ stored' = stored /\ temp' = temp /\ conns' = conns /\ tasks' = tasks /\ copyCache' = copyCache
      /\ \/ left' = [left EXCEPT !.weeks = @ - 1] \/ left' = [left EXCEPT !.ages = @ - 1]
         \/ left' = [left EXCEPT !.documents = @ - 1]
  BY DEF Tick, Age, Document, caches
<1>3. left'.taken = left.taken /\ "taken" \in DOMAIN left'
  BY <1>1, <1>2
<1>4. ReplicasTrue' /\ Grows(stored, stored') /\ ConnsTrue'
  BY <1>1, <1>2, <1>3, SameReplicas
<1>5. TasksTrue' /\ CollectorsTrue'
  BY <1>1, <1>2, <1>3 DEF TasksTrue, CollectorsTrue
<1>6. VerdictsTrue'
  <2>1. CASE copyDedupCache' = copyDedupCache
    BY <1>1, <1>2, <1>3, <2>1 DEF VerdictsTrue
  <2>2. CASE Age
    <3>1. copyDedupCache' = [c \in Caps |->
             IF copyDedupCache[c] = None THEN None ELSE [copyDedupCache[c] EXCEPT !.old = TRUE]]
      BY <2>2 DEF Age
    <3>2. ASSUME NEW c \in Caps
          PROVE  copyDedupCache'[c] \in Verdict \cup {None}
                 /\ VerdictTrue(stored', left'.taken, c, copyDedupCache'[c])
      <4> DEFINE v == copyDedupCache[c]
                 x == [v EXCEPT !.old = TRUE]
      <4>1. v \in Verdict \cup {None} /\ VerdictTrue(stored, left.taken, c, v)
        BY <1>1 DEF VerdictsTrue
      <4>2. CASE v = None
        BY <3>1, <4>2 DEF VerdictTrue
      <4>3. CASE v # None
        <5>1. /\ x \in Verdict /\ x.status = v.status /\ x.code = v.code /\ x.index = v.index
          BY <4>1, <4>3 DEF Verdict
        <5>2. copyDedupCache'[c] = x
          BY <3>1, <4>3
        <5> HIDE DEF x
        <5>3. VerdictTrue(stored', left'.taken, c, x)
          BY <1>2, <1>3, <4>1, <4>3, <5>1 DEF VerdictTrue
        <5> QED BY <5>1, <5>2, <5>3
      <4> QED BY <4>2, <4>3
    <3>3. copyDedupCache' \in [Caps -> Verdict \cup {None}]
      BY <3>1, <3>2
    <3> QED BY <3>2, <3>3 DEF VerdictsTrue
  <2>3. Age \/ copyDedupCache' = copyDedupCache
    BY DEF Tick, Age, Document, caches
  <2> QED BY <2>1, <2>2, <2>3
<1> QED BY <1>4, <1>5, <1>6 DEF TruthInv

LEMMA Forgotten ==
    ASSUME tasks = [t \in Tasks |-> IdleTask], copyCache = <<>>, copyDedupCache = [c \in Caps |-> None]
    PROVE  TasksTrue /\ CollectorsTrue /\ VerdictsTrue
<1>1. \A e \in Envelopes : <<"query", e>> \in Tasks
  BY DEF Tasks
<1>2. \A c \in Caps : <<"copy", c>> \in Tasks /\ <<"erase", c>> \in Tasks
  BY DEF Tasks
<1>3. TasksTrue
  BY <1>1, <1>2, IdleIsTask DEF TasksTrue, CopyTrue
<1>4. CollectorsTrue
  BY EmptySeq DEF CollectorsTrue
<1>5. VerdictsTrue
  BY DEF VerdictsTrue, VerdictTrue
<1> QED BY <1>3, <1>4, <1>5

LEMMA RestartStep ==
    ASSUME TruthInv, Restart
    PROVE  TruthInv'
<1>1. "taken" \in DOMAIN left
  BY DEF TruthInv, ReplicasTrue
<1>2. /\ stored' = stored /\ temp' = temp /\ left' = [left EXCEPT !.crashes = @ - 1]
      /\ conns' = [r \in Replicas |-> None] /\ copyDedupCache' = [c \in Caps |-> None]
      /\ copyCache' = <<>> /\ tasks' = [t \in Tasks |-> IdleTask]
  BY DEF Restart
<1>3. left'.taken = left.taken /\ "taken" \in DOMAIN left'
  BY <1>1, <1>2
<1>4. ReplicasTrue'
  BY <1>2, <1>3, SameReplicas
<1>5. ConnsTrue'
  BY <1>2 DEF ConnsTrue
<1>6. (tasks = [t \in Tasks |-> IdleTask] /\ copyCache = <<>> /\ copyDedupCache = [c \in Caps |-> None]
       => TasksTrue /\ CollectorsTrue /\ VerdictsTrue)'
  BY Forgotten, PTL
<1>7. TasksTrue' /\ CollectorsTrue' /\ VerdictsTrue'
  BY <1>2, <1>6
<1> QED BY <1>4, <1>5, <1>7 DEF TruthInv

LEMMA TruthInit == Init => TruthInv
<1> SUFFICES ASSUME Init PROVE TruthInv
  OBVIOUS
<1>1. "taken" \in DOMAIN left
  BY CourierAssumption DEF Init
<1>2. ReplicasTrue
  <2> DEFINE f(r) == [b \in {<<c, k>> : c \in Caps, k \in 1..MaxBoxes} |->
                        IF b[2] \in Boxes(b[1]) /\ r \notin left.lagging THEN "data" ELSE "none"]
  <2>1. temp = [r \in Replicas |-> f(r)]
    BY DEF Init
  <2>2. ASSUME NEW r \in Replicas
        PROVE  /\ f(r) \in [Cells -> {"data", "none", "blank"}]
               /\ \A c \in Caps, k \in 1..MaxBoxes :
                     f(r)[<<c, k>>] = "data" => k \in Boxes(c)
               /\ \A c \in Caps, k \in 1..MaxBoxes : f(r)[<<c, k>>] # "blank"
    <3>1. \A c \in Caps, k \in 1..MaxBoxes : <<c, k>> \in Cells
      BY DEF Cells
    <3>2. f(r) = [b \in Cells |-> IF b[2] \in Boxes(b[1]) /\ r \notin left.lagging THEN "data" ELSE "none"]
      BY DEF Cells
    <3> HIDE DEF f
    <3> QED BY <3>1, <3>2
  <2> HIDE DEF f
  <2>3. stored = [r \in Replicas |-> {}]
    BY DEF Init
  <2> QED BY <1>1, <2>1, <2>2, <2>3 DEF ReplicasTrue
<1>3. ConnsTrue
  <2>1. NewConn \in Conn(stored)
    BY EmptySeq DEF NewConn, Conn
  <2>2. conns = [r \in Replicas |-> IF r \in left.away THEN None ELSE NewConn]
    BY DEF Init
  <2> QED BY <2>1, <2>2 DEF ConnsTrue
<1>4. TasksTrue /\ CollectorsTrue /\ VerdictsTrue
  BY Forgotten DEF Init
<1> QED BY <1>2, <1>3, <1>4 DEF TruthInv

LEMMA TruthStep ==
    ASSUME TruthInv, InProgressIsWorking, [Next]_vars
    PROVE  TruthInv'
<1>1. CASE UNCHANGED vars
  <2>1. left' = left /\ conns' = conns /\ copyCache' = copyCache /\ copyDedupCache' = copyDedupCache
        /\ tasks' = tasks /\ stored' = stored /\ temp' = temp
    BY <1>1 DEF vars
  <2>2. ReplicasTrue' /\ ConnsTrue' /\ TasksTrue' /\ CollectorsTrue' /\ VerdictsTrue'
    BY <2>1 DEF TruthInv, ReplicasTrue, ConnsTrue, TasksTrue, CollectorsTrue, VerdictsTrue
  <2> QED BY <2>2 DEF TruthInv
<1>2. CASE \E e \in Envelopes, i \in 1..2 : Ask(e, i)
  BY <1>2, ClientStep
<1>3. CASE \E c \in Caps : Copy(c)
  BY <1>3, CopyStarts
<1>4. CASE \E e \in Envelopes : Acquire(e)
  BY <1>4, ClientStep
<1>5. CASE \E t \in Tasks : Work(t)
  BY <1>5, BeginStep, SendStep, CollectStep DEF Work
<1>6. CASE \E r \in Replicas : \/ Establish(r) \/ Transmit(r) \/ Answer(r) \/ Decoy(r) \/ Lose(r)
                               \/ Spawn(r) \/ Leave(r) \/ Document(r)
  BY <1>6, ConnSteps, AnswerStep, LoseStep, LeaveStep, TimeStep
<1>7. CASE Tick \/ Age \/ Restart
  BY <1>7, TimeStep, RestartStep
<1> QED BY <1>1, <1>2, <1>3, <1>4, <1>5, <1>6, <1>7 DEF Next

(* A verdict that clients poll is true of the replicas.  After a success every envelope of the
   stream is stored; after a failure what precedes the index is, and with the code "already
   exists" the envelope at the index is the one whose destination is taken: however the client
   has cut the stream, whatever replies, connections and documents get lost, and also when the
   same cap is copied again after its stream has been erased (runCopyCommand, plugin.go:837,
   and processCopyCommand, plugin.go:880). *)
THEOREM VerdictsAreTrue == Spec => []VerdictIsTrue
<1> DEFINE Inv == CourierInv /\ TruthInv
<1>1. Init => Inv
  BY CourierInit, TruthInit
<1>2. Inv /\ [Next]_vars => Inv'
  BY DedupStep, CopyStep, TruthStep DEF CourierInv, CopyInv
<1>3. Inv => VerdictIsTrue
  BY VerdictsAreSaid DEF TruthInv
<1> QED BY <1>1, <1>2, <1>3, PTL DEF Spec
================================================================================
