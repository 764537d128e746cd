------------------------------ MODULE ReplicaProofs ------------------------------
(* The store of the replicas keeps what is written, for any boxes, payloads, goroutines and
   number of epochs; the replicas use it only as its specification allows; and a courier that
   is told "ok" for a write finds it stored, for any replicas, messages, bounds of queues and
   slots, documents, failures and crashes.

   An "ok" travels from the goroutine that wrote, over the wire, to the handler that proxies
   and to the courier. SuccessInv says at each station of that way that it is told the
   truth; CommandsTyped says that what is on the way is a command at all.                  *)
EXTENDS Replica, TLAPS, SequenceTheorems, FiniteSetTheorems

(* ---------------------------------- the store ------------------------------------ *)

(* Nothing is filed under an epoch to come; who puts holds the lock of the box and
   has read an epoch that has begun, since which nobody has put anything under a later one;
   a payload is put only where no record has been since the epoch before that one. *)
NothingAhead ==
    \A r \in Replicas, e \in Epochs, b \in Boxes : e > epoch => db[r][e][b] = None

PutIsSafe(w) ==
    call[w].at = "put" =>
        /\ boxLocks[Home[w]][call[w].box] = w
        /\ call[w].cur <= epoch
        /\ call[w].value # None
        /\ \A e \in Epochs : e > call[w].cur => db[Home[w]][e][call[w].box] = None
        /\ call[w].value # Tombstone =>
              \A e \in Epochs : e + 1 >= call[w].cur => db[Home[w]][e][call[w].box] = None

\* Of the other steps of a call.
CallIsSane(w) ==
    /\ call[w].at \in {"lock", "put"} => call[w].kind = "write" /\ call[w].value \in Values
    /\ call[w].at \in {"read", "readOlder"} => call[w].kind = "read"
    /\ call[w].at = "readOlder" => call[w].cur > 0

StoreInv ==
    /\ StoreTypeOK
    /\ NothingAhead
    /\ \A w \in Workers : PutIsSafe(w) /\ CallIsSane(w)

LEMMA IdleType ==
    /\ Idle \in [at : {"idle", "lock", "put", "read", "readOlder"}, kind : {"read", "write"},
                 box : Boxes, value : Values \cup {None}, cur : Epochs]
    /\ Idle.at = "idle"
BY StoreAssumption DEF Idle, Epochs

CallType == [at : {"idle", "lock", "put", "read", "readOlder"}, kind : {"read", "write"},
             box : Boxes, value : Values \cup {None}, cur : Epochs]

LEMMA ReturnType ==
    ASSUME StoreTypeOK, NEW w \in Workers, NEW a \in Answers, Return(w, a)
    PROVE  call' \in [Workers -> CallType] /\ answer' \in [Workers -> Answers]
BY IdleType DEF StoreTypeOK, Return, CallType

\* A call that goes on remembers the epoch it has read.
LEMMA GoesOnType ==
    ASSUME StoreTypeOK, NEW w \in Workers, NEW at \in {"put", "readOlder"},
           call' = [call EXCEPT ![w].at = at, ![w].cur = epoch]
    PROVE  call' \in [Workers -> CallType]
<1> DEFINE c == [call[w] EXCEPT !.at = at, !.cur = epoch]
<1>1. call \in [Workers -> CallType] /\ epoch \in Epochs
  BY DEF StoreTypeOK, CallType
<1>2. c \in CallType
  BY <1>1 DEF CallType
<1>3. call' = [call EXCEPT ![w] = c]
  BY <1>1 DEF CallType
<1> QED BY <1>1, <1>2, <1>3

\* A typed store whose calls and answers stay typed.
LEMMA TypeStep ==
    ASSUME StoreTypeOK, UNCHANGED <<epoch, db, storageFull>>,
           boxLocks' \in [Replicas -> [Boxes -> Workers \cup {None}]],
           call' \in [Workers -> CallType], answer' \in [Workers -> Answers]
    PROVE  StoreTypeOK'
BY DEF StoreTypeOK, CallType

LEMMA InitStore == StoreInit => StoreInv
BY StoreAssumption, IdleType
   DEF StoreInit, StoreInv, StoreTypeOK, NothingAhead, PutIsSafe, CallIsSane, Epochs, Answers

LEMMA FoundType ==
    ASSUME StoreTypeOK, NEW r \in Replicas, NEW b \in Boxes
    PROVE  Found(r, b, epoch) \in Values \cup {None}
BY StoreAssumption DEF StoreTypeOK, Found, Epochs

LEMMA CallPreserves ==
    ASSUME StoreInv, NEW w \in Workers, NEW kind \in {"read", "write"}, NEW b \in Boxes,
           NEW v \in Values \cup {None}, kind = "write" => v \in Values, Call(w, kind, b, v)
    PROVE  StoreInv'
<1>1. StoreTypeOK'
  <2>1. 0 \in Epochs
    BY StoreAssumption DEF Epochs
  <2>2. \A at \in {"lock", "read"} :
           [at |-> at, kind |-> kind, box |-> b, value |-> v, cur |-> 0] \in CallType
    BY <2>1 DEF CallType
  <2>a. call \in [Workers -> CallType] /\ answer \in [Workers -> Answers]
    BY DEF StoreInv, StoreTypeOK, CallType
  <2>3. call' \in [Workers -> CallType]
    <3>1. CASE call' = call
      BY <2>a, <3>1
    <3>2. PICK at \in {"lock", "read"} :
             \/ call' = call
             \/ call' = [call EXCEPT ![w] =
                            [at |-> at, kind |-> kind, box |-> b, value |-> v, cur |-> 0]]
      BY DEF Call
    <3> QED BY <2>2, <2>a, <3>1, <3>2
  <2>4. answer' \in [Workers -> Answers]
    <3>1. "full" \in Answers /\ "pending" \in Answers
      BY DEF Answers
    <3> QED BY <2>a, <3>1 DEF Call
  <2> QED BY <2>3, <2>4, TypeStep DEF StoreInv, StoreTypeOK, Call
<1>2. NothingAhead'
  BY DEF StoreInv, NothingAhead, Call
<1>3. ASSUME NEW u \in Workers PROVE PutIsSafe(u)' /\ CallIsSane(u)'
  <2>1. call'[u] = call[u] \/ call'[u].at \in {"lock", "read"}
    BY DEF StoreInv, StoreTypeOK, Call
  <2>2. CASE call'[u] = call[u]
    BY <2>2 DEF StoreInv, PutIsSafe, CallIsSane, Call
  <2>3. CASE call'[u] # call[u]
    BY <2>1, <2>3, StoreAssumption DEF StoreInv, StoreTypeOK, PutIsSafe, CallIsSane, Call
  <2> QED BY <2>2, <2>3
<1> QED BY <1>1, <1>2, <1>3 DEF StoreInv

LEMMA CheckPreserves ==
    ASSUME StoreInv, NEW w \in Workers, Check(w)
    PROVE  StoreInv'
<1> DEFINE r == Home[w]
           b == call[w].box
<1>1. r \in Replicas /\ b \in Boxes /\ call[w].value \in Values
  BY StoreAssumption DEF StoreInv, StoreTypeOK, CallIsSane, Check
<1>2. StoreTypeOK'
  <2>1. CASE \E a \in Answers : Return(w, a) /\ UNCHANGED <<epoch, db, storageFull, boxLocks>>
    BY <2>1, ReturnType, TypeStep DEF StoreInv, StoreTypeOK
  <2>2. CASE /\ boxLocks' = [boxLocks EXCEPT ![r][b] = w] /\ UNCHANGED answer
             /\ call' = [call EXCEPT ![w].at = "put", ![w].cur = epoch]
             /\ UNCHANGED <<epoch, db, storageFull>>
    <3>1. call' \in [Workers -> CallType]
      BY <2>2, GoesOnType DEF StoreInv
    <3>2. boxLocks' \in [Replicas -> [Boxes -> Workers \cup {None}]]
      BY <2>2, <1>1 DEF StoreInv, StoreTypeOK
    <3> QED BY <2>2, <3>1, <3>2, TypeStep DEF StoreInv, StoreTypeOK
  <2>3. {"ok", "exists"} \subseteq Answers
    BY DEF Answers
  <2> QED BY <2>1, <2>2, <2>3 DEF Check, Refusal
<1>3. NothingAhead'
  BY DEF StoreInv, NothingAhead, Check
<1>4. ASSUME NEW u \in Workers, u # w PROVE PutIsSafe(u)' /\ CallIsSane(u)'
  <2>1. call'[u] = call[u] /\ UNCHANGED <<epoch, db>>
    BY <1>4 DEF StoreInv, StoreTypeOK, Check, Return
  <2>2. call[u].at = "put" => boxLocks[Home[u]][call[u].box] = u
    BY DEF StoreInv, PutIsSafe
  <2>3. call[u].at = "put" => boxLocks'[Home[u]][call[u].box] = u
    <3>1. boxLocks \in [Replicas -> [Boxes -> Workers \cup {None}]] /\ Home[u] \in Replicas
          /\ call[u].box \in Boxes /\ None \notin Workers
      BY StoreAssumption DEF StoreInv, StoreTypeOK
    <3>2. /\ boxLocks[r][b] = None
          /\ boxLocks' = boxLocks \/ boxLocks' = [boxLocks EXCEPT ![r][b] = w]
      BY DEF Check, LockFree
    <3> QED BY <1>1, <2>2, <3>1, <3>2
  <2> QED BY <2>1, <2>3 DEF StoreInv, PutIsSafe, CallIsSane
<1>5. PutIsSafe(w)' /\ CallIsSane(w)'
  <2>1. CASE call'[w] = Idle
    BY <2>1, IdleType DEF PutIsSafe, CallIsSane
  <2>2. CASE call'[w] # Idle
    <3>1. /\ call'[w].at = "put" /\ call'[w].cur = epoch
          /\ call'[w].box = b /\ call'[w].value = call[w].value
          /\ boxLocks'[r][b] = w
          /\ call[w].value # Tombstone => Found(r, b, epoch) = None
      BY <2>2, <1>1, StoreAssumption DEF StoreInv, StoreTypeOK, Check, Return
    <3>2. ASSUME call[w].value # Tombstone, NEW e \in Epochs, e + 1 >= epoch
          PROVE  db[r][e][b] = None
      <4>1. CASE e > epoch
        BY <4>1, <1>1 DEF StoreInv, NothingAhead
      <4>2. CASE e = epoch
        BY <4>2, <3>1, <3>2 DEF Found
      <4>3. CASE e < epoch
        BY <4>3, <3>1, <3>2, StoreAssumption DEF Found, Epochs, StoreInv, StoreTypeOK
      <4> QED BY <4>1, <4>2, <4>3, StoreAssumption DEF Epochs, StoreInv, StoreTypeOK
    <3>3. epoch' = epoch /\ db' = db
      BY DEF Check
    <3>4. call[w].value # None /\ call'[w].kind = "write"
      BY <2>2, <1>1, StoreAssumption
         DEF Values, StoreInv, StoreTypeOK, CallIsSane, Check, Return
    <3>5. \A e \in Epochs : e > epoch => db[r][e][b] = None
      BY <1>1 DEF StoreInv, NothingAhead
    <3>6. PutIsSafe(w)'
      BY <3>1, <3>2, <3>3, <3>4, <3>5, StoreAssumption DEF PutIsSafe, StoreInv, StoreTypeOK, Epochs
    <3> QED BY <3>1, <3>4, <3>6, <1>1 DEF CallIsSane
  <2> QED BY <2>1, <2>2
<1> QED BY <1>2, <1>3, <1>4, <1>5 DEF StoreInv

(* Two goroutines that put have locks of two boxes. *)
LEMMA PutsExclude ==
    ASSUME StoreInv, NEW w \in Workers, NEW u \in Workers, u # w,
           call[w].at = "put", call[u].at = "put"
    PROVE  Home[u] # Home[w] \/ call[u].box # call[w].box
BY DEF StoreInv, PutIsSafe

LEMMA PutPreserves ==
    ASSUME StoreInv, NEW w \in Workers, Put(w)
    PROVE  StoreInv'
<1> DEFINE r == Home[w]
           b == call[w].box
<1>1. r \in Replicas /\ b \in Boxes /\ call[w].value \in Values /\ call[w].cur \in Epochs
      /\ call[w].cur <= epoch
  BY StoreAssumption DEF StoreInv, StoreTypeOK, CallIsSane, PutIsSafe, Put
<1>2. StoreTypeOK'
  BY <1>1, IdleType, StoreAssumption DEF StoreInv, StoreTypeOK, Put, Return, Answers
<1>3. NothingAhead'
  BY <1>1, StoreAssumption DEF StoreInv, StoreTypeOK, NothingAhead, Put, Epochs
<1>4. ASSUME NEW u \in Workers, u # w PROVE PutIsSafe(u)' /\ CallIsSane(u)'
  <2>1. call'[u] = call[u] /\ epoch' = epoch
    BY <1>4 DEF StoreInv, StoreTypeOK, Put, Return
  <2>2. CASE call[u].at # "put"
    BY <2>1, <2>2 DEF StoreInv, PutIsSafe, CallIsSane
  <2>3. CASE call[u].at = "put"
    <3>1. Home[u] # r \/ call[u].box # b
      BY <1>4, <2>3, PutsExclude DEF Put
    <3>2. boxLocks'[Home[u]][call[u].box] = boxLocks[Home[u]][call[u].box]
      BY <3>1, StoreAssumption DEF StoreInv, StoreTypeOK, Put
    <3>3. \A e \in Epochs : db'[Home[u]][e][call[u].box] = db[Home[u]][e][call[u].box]
      BY <3>1, <1>1, StoreAssumption DEF StoreInv, StoreTypeOK, Put
    <3> QED BY <2>1, <2>3, <3>2, <3>3 DEF StoreInv, PutIsSafe, CallIsSane
  <2> QED BY <2>2, <2>3
<1>5. PutIsSafe(w)' /\ CallIsSane(w)'
  BY IdleType DEF StoreInv, StoreTypeOK, Put, Return, PutIsSafe, CallIsSane
<1> QED BY <1>2, <1>3, <1>4, <1>5 DEF StoreInv

LEMMA ReadPreserves ==
    ASSUME StoreInv, NEW w \in Workers, Read(w) \/ ReadOlder(w)
    PROVE  StoreInv'
<1>1. StoreTypeOK'
  <2>1. CASE \E a \in Answers : Return(w, a)
    BY <2>1, ReturnType, TypeStep DEF StoreInv, StoreTypeOK, Read, ReadOlder
  <2>2. CASE call' = [call EXCEPT ![w].at = "readOlder", ![w].cur = epoch] /\ UNCHANGED answer
    <3>1. call' \in [Workers -> CallType]
      BY <2>2, GoesOnType DEF StoreInv
    <3> QED BY <2>2, <3>1, TypeStep DEF StoreInv, StoreTypeOK, Read, ReadOlder
  <2>3. {"ok", "tombstone", "notFound"} \subseteq Answers /\ \A v : ReadAnswer(v) \in Answers
    BY DEF Answers, ReadAnswer
  <2> QED BY <2>1, <2>2, <2>3 DEF Read, ReadOlder
<1>2. NothingAhead'
  BY DEF StoreInv, NothingAhead, Read, ReadOlder
<1>3. ASSUME NEW u \in Workers PROVE PutIsSafe(u)' /\ CallIsSane(u)'
  <2>1. \/ call'[u] = call[u] \/ call'[u].at = "idle"
        \/ call'[u].at = "readOlder" /\ call'[u].cur > 0 /\ call'[u].kind = "read"
    BY IdleType, StoreAssumption
       DEF StoreInv, StoreTypeOK, CallIsSane, Read, ReadOlder, Return, Epochs
  <2>2. epoch' = epoch /\ db' = db /\ boxLocks' = boxLocks
    BY DEF Read, ReadOlder
  <2>3. CASE call'[u] = call[u]
    BY <2>2, <2>3 DEF StoreInv, PutIsSafe, CallIsSane
  <2>4. CASE call'[u].at = "idle"
    BY <2>4 DEF PutIsSafe, CallIsSane
  <2>5. CASE call'[u].at = "readOlder" /\ call'[u].cur > 0 /\ call'[u].kind = "read"
    BY <2>5 DEF PutIsSafe, CallIsSane
  <2> QED BY <2>1, <2>3, <2>4, <2>5
<1> QED BY <1>1, <1>2, <1>3 DEF StoreInv

LEMMA FaultPreserves ==
    ASSUME StoreInv, NEW w \in Workers, DatabaseFails(w)
    PROVE  StoreInv'
<1>1. StoreTypeOK'
  <2>1. "dbFailure" \in Answers
    BY DEF Answers
  <2>2. boxLocks' \in [Replicas -> [Boxes -> Workers \cup {None}]]
    <3> DEFINE b == call[w].box
    <3>1. boxLocks' = [boxLocks EXCEPT ![Home[w]] = [boxLocks[Home[w]] EXCEPT
                          ![b] = IF boxLocks[Home[w]][b] = w THEN None ELSE boxLocks[Home[w]][b]]]
      BY DEF DatabaseFails
    <3>2. boxLocks \in [Replicas -> [Boxes -> Workers \cup {None}]]
      BY DEF StoreInv, StoreTypeOK
    <3> HIDE DEF b
    <3> QED BY <3>1, <3>2
  <2> QED BY <2>1, <2>2, ReturnType, TypeStep DEF StoreInv, DatabaseFails
<1>2. NothingAhead'
  BY DEF StoreInv, NothingAhead, DatabaseFails
<1>3. ASSUME NEW u \in Workers, u # w PROVE PutIsSafe(u)' /\ CallIsSane(u)'
  <2>1. call'[u] = call[u] /\ UNCHANGED <<epoch, db>>
    BY <1>3 DEF StoreInv, StoreTypeOK, DatabaseFails, Return
  <2>2. call[u].at = "put" => boxLocks'[Home[u]][call[u].box] = u
    BY <1>3, StoreAssumption DEF StoreInv, StoreTypeOK, PutIsSafe, DatabaseFails
  <2> QED BY <2>1, <2>2 DEF StoreInv, PutIsSafe, CallIsSane
<1>4. PutIsSafe(w)' /\ CallIsSane(w)'
  BY IdleType DEF StoreInv, StoreTypeOK, DatabaseFails, Return, PutIsSafe, CallIsSane
<1> QED BY <1>1, <1>2, <1>3, <1>4 DEF StoreInv

LEMMA WorkersPreserve ==
    ASSUME StoreInv, NEW r \in Replicas,
           WipeStaleBoxes(r) \/ RefreshStorageFull(r) \/ StoreCrash(r) \/ NextEpoch
    PROVE  StoreInv'
<1>1. CASE WipeStaleBoxes(r)
  <2>1. \A q \in Replicas, e \in Epochs, b \in Boxes : db'[q][e][b] \in {None, db[q][e][b]}
    BY <1>1 DEF StoreInv, StoreTypeOK, WipeStaleBoxes
  <2>2. StoreTypeOK'
    BY <1>1 DEF StoreInv, StoreTypeOK, WipeStaleBoxes
  <2> QED BY <1>1, <2>1, <2>2, StoreAssumption
          DEF StoreInv, StoreTypeOK, WipeStaleBoxes, NothingAhead, PutIsSafe, CallIsSane
<1>2. CASE RefreshStorageFull(r)
  BY <1>2 DEF StoreInv, StoreTypeOK, RefreshStorageFull, NothingAhead, PutIsSafe, CallIsSane
<1>3. CASE StoreCrash(r)
  <2>1. StoreTypeOK'
    BY <1>3, IdleType, StoreAssumption DEF StoreInv, StoreTypeOK, StoreCrash, Answers
  <2>2. ASSUME NEW u \in Workers PROVE PutIsSafe(u)' /\ CallIsSane(u)'
    <3>1. CASE Home[u] = r
      BY <1>3, <3>1, IdleType DEF StoreCrash, PutIsSafe, CallIsSane
    <3>2. CASE Home[u] # r
      BY <1>3, <3>2, StoreAssumption
         DEF StoreInv, StoreTypeOK, StoreCrash, PutIsSafe, CallIsSane
    <3> QED BY <3>1, <3>2
  <2> QED BY <1>3, <2>1, <2>2 DEF StoreInv, NothingAhead, StoreCrash
<1>4. CASE NextEpoch
  BY <1>4, StoreAssumption
     DEF StoreInv, StoreTypeOK, NextEpoch, NothingAhead, PutIsSafe, CallIsSane, Epochs
<1> QED BY <1>1, <1>2, <1>3, <1>4

LEMMA NextPreserves == StoreInv /\ [StoreNext]_storeVars => StoreInv'
<1> SUFFICES ASSUME StoreInv, [StoreNext]_storeVars PROVE StoreInv'
  OBVIOUS
<1>1. ASSUME NEW w \in Workers, StoreStep(w) PROVE StoreInv'
  BY <1>1, CheckPreserves, PutPreserves, ReadPreserves DEF StoreStep
<1>2. ASSUME NEW w \in Workers, DatabaseFails(w) PROVE StoreInv'
  BY <1>2, FaultPreserves
<1>3. ASSUME NEW w \in Workers, NEW b \in Boxes, Call(w, "read", b, None) PROVE StoreInv'
  BY <1>3, CallPreserves
<1>4. ASSUME NEW w \in Workers, NEW b \in Boxes, NEW v \in Values, Call(w, "write", b, v)
      PROVE  StoreInv'
  BY <1>4, CallPreserves
<1>5. ASSUME NEW r \in Replicas, WipeStaleBoxes(r) \/ RefreshStorageFull(r) \/ StoreCrash(r)
      PROVE  StoreInv'
  BY <1>5, WorkersPreserve
<1>6. CASE NextEpoch
  <2>1. CASE Replicas = {}
    BY <1>6, <2>1, StoreAssumption
       DEF StoreInv, StoreTypeOK, NextEpoch, NothingAhead, PutIsSafe, CallIsSane, Epochs
  <2>2. CASE Replicas # {}
    BY <1>6, <2>2, WorkersPreserve
  <2> QED BY <2>1, <2>2
<1>7. CASE UNCHANGED storeVars
  BY <1>7 DEF storeVars, StoreInv, StoreTypeOK, NothingAhead, PutIsSafe, CallIsSane
<1> QED BY <1>1, <1>2, <1>3, <1>4, <1>5, <1>6, <1>7 DEF StoreNext

LEMMA InvHolds == StoreSpec => []StoreInv
BY InitStore, NextPreserves, PTL DEF StoreSpec

(* Every store is well typed in every state: the records, the locks and the calls of
   replica/state.go. *)
THEOREM StoreIsTyped == StoreSpec => []StoreTypeOK
<1>1. StoreInv => StoreTypeOK
  BY DEF StoreInv
<1> QED BY <1>1, InvHolds, PTL

\* What one step may do to what a replica shows of a box.
Change(r, b) ==
    LET old == Visible(r, b)
        new == Visible(r, b)' IN
    old # new => old = None \/ new = Tombstone \/ (new = None /\ epoch' # epoch)

LEMMA SameRecords ==
    ASSUME UNCHANGED <<epoch, db>>, NEW r \in Replicas, NEW b \in Boxes
    PROVE  Change(r, b)
BY DEF Change, Visible, Found

LEMMA PutChanges ==
    ASSUME StoreInv, NEW w \in Workers, Put(w), NEW r \in Replicas, NEW b \in Boxes
    PROVE  Change(r, b)
<1> DEFINE c == call[w]
<1>1. epoch' = epoch /\ epoch \in Nat /\ epoch \in Epochs /\ c.cur \in Nat /\ c.cur <= epoch
  BY StoreAssumption DEF StoreInv, StoreTypeOK, Put, PutIsSafe, Epochs
<1>2. \A e \in Epochs : db'[r][e][b] = IF r = Home[w] /\ b = c.box /\ e = c.cur
                                       THEN c.value ELSE db[r][e][b]
  BY StoreAssumption DEF StoreInv, StoreTypeOK, Put
<1>3. epoch > 0 => epoch - 1 \in Epochs
  BY <1>1, StoreAssumption DEF Epochs
<1>4. CASE r # Home[w] \/ b # c.box
  BY <1>1, <1>2, <1>3, <1>4 DEF Change, Visible, Found
<1>5. CASE r = Home[w] /\ b = c.box /\ c.value = Tombstone
  BY <1>1, <1>2, <1>3, <1>5, StoreAssumption DEF Change, Visible, Found
<1>6. CASE r = Home[w] /\ b = c.box /\ c.value # Tombstone
  <2>1. \A e \in Epochs : e + 1 >= c.cur => db[r][e][b] = None
    BY <1>6 DEF StoreInv, PutIsSafe, Put
  <2>2. db[r][epoch][b] = None /\ (epoch > 0 => db[r][epoch - 1][b] = None)
    BY <2>1, <1>1, <1>3
  <2> QED BY <2>2 DEF Change, Visible, Found
<1> QED BY <1>4, <1>5, <1>6

LEMMA StepChanges ==
    ASSUME StoreInv, [StoreNext]_storeVars, NEW r \in Replicas, NEW b \in Boxes
    PROVE  Change(r, b)
<1>1. ASSUME NEW w \in Workers, StoreStep(w) PROVE Change(r, b)
  BY <1>1, PutChanges, SameRecords DEF StoreStep, Check, Read, ReadOlder
<1>2. ASSUME NEW w \in Workers, DatabaseFails(w) PROVE Change(r, b)
  BY <1>2, SameRecords DEF DatabaseFails
<1>3. ASSUME NEW w \in Workers, NEW kind, NEW x, NEW v, Call(w, kind, x, v) PROVE Change(r, b)
  BY <1>3, SameRecords DEF Call
<1>4. ASSUME NEW q \in Replicas, WipeStaleBoxes(q) PROVE Change(r, b)
  <2>1. epoch' = epoch /\ epoch \in Epochs /\ epoch \in Nat /\ (epoch > 0 => epoch - 1 \in Epochs)
    BY <1>4, StoreAssumption DEF StoreInv, StoreTypeOK, WipeStaleBoxes, Epochs
  <2>2. \A e \in Epochs : ~(e + 1 < epoch) => db'[r][e][b] = db[r][e][b]
    BY <1>4 DEF StoreInv, StoreTypeOK, WipeStaleBoxes
  <2> QED BY <2>1, <2>2 DEF Change, Visible, Found
<1>5. CASE NextEpoch
  <2>1. epoch' = epoch + 1 /\ db' = db /\ epoch \in Nat /\ epoch' \in Epochs
    BY <1>5, StoreAssumption DEF StoreInv, StoreTypeOK, NextEpoch, Epochs
  <2>2. db[r][epoch + 1][b] = None
    BY <2>1 DEF StoreInv, NothingAhead
  <2>3. Visible(r, b)' = db[r][epoch][b]
    BY <2>1, <2>2 DEF Visible, Found
  <2> QED BY <2>1, <2>3 DEF Change, Visible, Found
<1>6. CASE UNCHANGED storeVars
  BY <1>6, SameRecords DEF storeVars
<1>7. ASSUME NEW q \in Replicas, RefreshStorageFull(q) \/ StoreCrash(q) PROVE Change(r, b)
  BY <1>7, SameRecords DEF RefreshStorageFull, StoreCrash
<1> QED BY <1>1, <1>2, <1>3, <1>4, <1>5, <1>6, <1>7 DEF StoreNext

(* "writes are immutable" (replica/state.go:98): whoever writes, erases, collects and dies
   at the same time, what a replica shows of a box is never replaced by a payload. *)
THEOREM WritesAreImmutable == StoreSpec => WrittenOnce
<1>1. StoreInv /\ [StoreNext]_storeVars =>
         [\A r \in Replicas, b \in Boxes :
             LET old == Visible(r, b)
                 new == Visible(r, b)' IN
             old # new => \/ old = None
                          \/ new = Tombstone
                          \/ new = None /\ epoch' # epoch]_storeVars
  BY StepChanges DEF Change
<1> QED BY <1>1, InvHolds, PTL DEF StoreSpec, WrittenOnce

(* ----------------------------- the replica protocol ------------------------------ *)

\* The messages that are sent; the commands that come of them.
Live == {m \in Messages : request[m].kind # "none"}

LiveCommands ==
    {Write(b, v) : b \in Boxes, v \in Values} \cup {Proxied(h) : h \in Live \X Replicas}

\* A connection object: nothing is answered that is not on the wire.
ConnType(cmds) ==
    {k \in [at : {"none", "dialing", "up", "leaving", "failed", "draining", "drained"},
             ch : Seq(cmds), held : cmds \cup {None}, out : Seq(cmds), wire : cmds \cup {None},
             got : Replies \cup {None, "taken"}] : k.wire = None => k.got = None}

\* Calls of DispatchCommand under way.
Callers == Handlers \cup {<<"retry">>, <<"rebalance">>, <<"replication">>}

SendingType(cmds) ==
    [by : Callers, link : Links, cmd : cmds, at : {"lookup", "send", "panic"}]

\* What a rebalance of r has still to send.
Others(r) == Replicas \ {r}

ScanType(r, cmds) ==
    [at : {"idle", "pki", "boot"}, new : SUBSET (Others(r) \X cmds),
     old : SUBSET (Others(r) \X cmds), complete : BOOLEAN]

(* A handler that has begun has a message; a connection has commands in its channels, one on
   the wire, and a reply only to that one; a retry pass is within its queue. *)
MessagesTyped ==
    /\ scenario \in Scenarios
    /\ handler \in [Handlers -> {"idle", "waiting", "running", "asked", "proxying", "done"}]
    /\ \A h \in Handlers : handler[h] # "idle" => h[1] \in Live
    /\ reply \in [Messages -> Replies \cup {"none"}]
    /\ pending \in [Handlers -> Replies \cup {"none", "open", "closed"}]

ConnsTyped ==
    /\ conns \in [Links -> ConnType(LiveCommands)]
    /\ sending \subseteq SendingType(LiveCommands)

QueuesTyped ==
    /\ DOMAIN retryQueue = Replicas /\ retrying \in [Replicas -> Nat]
    /\ \A r \in Replicas : /\ retryQueue[r] \in Seq(Others(r) \X LiveCommands)
                           /\ retrying[r] <= Len(retryQueue[r]) + 1

ScansTyped ==
    /\ DOMAIN scan = Replicas
    /\ \A r \in Replicas : scan[r] \in ScanType(r, LiveCommands)

CommandsTyped == MessagesTyped /\ ConnsTyped /\ QueuesTyped /\ ScansTyped

(* ------------------------------------ operators ---------------------------------- *)

\* The goroutines that call a store, and where they run.
LEMMA WorkerFacts ==
    /\ \A h \in Handlers : h \in Workers /\ h \notin Links /\ h # None /\ Home[h] = h[2]
                           /\ h[1] \in Messages /\ h[2] \in Replicas /\ h = <<h[1], h[2]>>
    /\ \A l \in Links : l \in Workers /\ Home[l] = l[2]
                        /\ l[1] \in Replicas /\ l[2] \in Others(l[1]) /\ l = <<l[1], l[2]>>
BY ReplicaAssumption, StoreAssumption DEF Handlers, Links, Others

LEMMA RequestFacts ==
    ASSUME MessagesTyped, NEW m \in Messages
    PROVE  /\ request[m] \in Requests
           /\ request[m].kind = "write" <=> request[m].value # None
           /\ m \in Live => request[m].kind \in {"read", "write"}
BY ReplicaAssumption DEF MessagesTyped, request, Live, Requests

\* A command is a write of a value, or the message of a handler.
LEMMA CommandFacts ==
    ASSUME NEW c \in LiveCommands
    PROVE  /\ c.msg = None => c.box \in Boxes /\ c.value \in Values
           /\ c.msg # None => c.msg \in Live \X Replicas /\ c.msg \in Handlers
<1>1. CASE \E b \in Boxes, v \in Values : c = Write(b, v)
  BY <1>1 DEF Write
<1>2. CASE \E h \in Live \X Replicas : c = Proxied(h)
  BY <1>2, WorkerFacts DEF Proxied, Live, Handlers
<1> QED BY <1>1, <1>2 DEF LiveCommands

\* The retry queue keeps its type.
LEMMA WithoutFirstType ==
    ASSUME NEW S, NEW q \in Seq(S), NEW P, P \cap DOMAIN q # {}
    PROVE  WithoutFirst(q, P) \in Seq(S) /\ Len(WithoutFirst(q, P)) = Len(q) - 1
<1>1. Len(q) \in Nat /\ DOMAIN q = 1..Len(q) /\ \A i \in 1..Len(q) : q[i] \in S
  OBVIOUS
<1>2. Len(q) - 1 \in Nat
  BY <1>1
<1>3. WithoutFirst(q, P) \in [1..(Len(q) - 1) -> S]
  BY <1>1 DEF WithoutFirst
<1>4. WithoutFirst(q, P) \in Seq(S)
  BY <1>2, <1>3, SeqDef
<1> QED BY <1>2, <1>3, <1>4

LEMMA RequeueType ==
    ASSUME NEW S, NEW p, NEW cmds, NEW q \in Seq(S \X cmds), p \in S, NEW c \in cmds
    PROVE  Requeue(q, p, c) \in Seq(S \X cmds)
<1> DEFINE mine == {i \in DOMAIN q : q[i][1] = p}
           same == {i \in mine : SameIdentity(q[i][2], c)}
<1>1. Len(q) \in Nat /\ DOMAIN q = 1..Len(q) /\ \A i \in 1..Len(q) : q[i] \in S \X cmds
  OBVIOUS
<1>2. <<p, c>> \in S \X cmds
  OBVIOUS
<1>3. CASE same # {}
  <2>1. [i \in DOMAIN q |-> IF i \in same THEN <<p, c>> ELSE q[i]] \in [1..Len(q) -> S \X cmds]
    BY <1>1, <1>2
  <2> QED BY <1>1, <1>3, <2>1, SeqDef DEF Requeue
<1>4. CASE same = {} /\ Cardinality(mine) >= RetrySize
  <2>1. mine # {}
    <3>1. Cardinality({}) = 0
      BY FS_EmptySet
    <3>2. ~(0 >= RetrySize)
      BY ReplicaAssumption
    <3> HIDE DEF mine
    <3> QED BY <1>4, <3>1, <3>2
  <2>2. WithoutFirst(q, mine) \in Seq(S \X cmds)
    BY <2>1, WithoutFirstType
  <2> QED BY <1>2, <1>4, <2>2 DEF Requeue
<1>5. CASE same = {} /\ ~(Cardinality(mine) >= RetrySize)
  BY <1>2, <1>5 DEF Requeue
<1> QED BY <1>3, <1>4, <1>5

(* --------------------------------- typed commands -------------------------------- *)

LEMMA SameCommands == scenario' = scenario => LiveCommands' = LiveCommands /\ Live' = Live
BY DEF LiveCommands, Live, request, Write, Proxied

LEMMA MessagesStay ==
    ASSUME MessagesTyped, UNCHANGED <<scenario, handler, reply, pending>>
    PROVE  MessagesTyped'
BY SameCommands DEF MessagesTyped

LEMMA QueuesStay ==
    ASSUME QueuesTyped, UNCHANGED <<scenario, retryQueue, retrying>>
    PROVE  QueuesTyped'
BY SameCommands DEF QueuesTyped

LEMMA ScansStay ==
    ASSUME ScansTyped, UNCHANGED <<scenario, scan>>
    PROVE  ScansTyped'
BY SameCommands DEF ScansTyped, ScanType

\* A connection object is replaced by a typed one.
LEMMA ConnStep ==
    ASSUME ConnsTyped, UNCHANGED scenario, sending' \subseteq SendingType(LiveCommands),
           NEW l \in Links, NEW k \in ConnType(LiveCommands), conns' = [conns EXCEPT ![l] = k]
    PROVE  ConnsTyped'
BY SameCommands DEF ConnsTyped, ConnType, SendingType

LEMMA ConnsStay ==
    ASSUME ConnsTyped, UNCHANGED <<scenario, conns>>, sending' \subseteq SendingType(LiveCommands)
    PROVE  ConnsTyped'
BY SameCommands DEF ConnsTyped, ConnType, SendingType

\* The queue of one replica, and the position of its pass, are replaced.
LEMMA QueueStep ==
    ASSUME QueuesTyped, UNCHANGED scenario, NEW r \in Replicas,
           NEW q \in Seq(Others(r) \X LiveCommands), NEW n \in Nat, n <= Len(q) + 1,
           \/ retryQueue' = retryQueue /\ q = retryQueue[r]
           \/ retryQueue' = [retryQueue EXCEPT ![r] = q],
           \/ retrying' = retrying /\ n = retrying[r]
           \/ retrying' = [retrying EXCEPT ![r] = n]
    PROVE  QueuesTyped'
<1>1. LiveCommands' = LiveCommands /\ \A s : Others(s)' = Others(s)
  BY SameCommands DEF Others
<1>2. DOMAIN retryQueue' = Replicas /\ retrying' \in [Replicas -> Nat]
  BY DEF QueuesTyped
<1>3. retryQueue'[r] = q /\ retrying'[r] = n
  BY DEF QueuesTyped
<1>4. \A s \in Replicas : s # r => retryQueue'[s] = retryQueue[s] /\ retrying'[s] = retrying[s]
  BY DEF QueuesTyped
<1>5. ASSUME NEW s \in Replicas
      PROVE  retryQueue'[s] \in Seq(Others(s) \X LiveCommands) /\ retrying'[s] <= Len(retryQueue'[s]) + 1
  BY <1>3, <1>4 DEF QueuesTyped
<1> QED BY <1>1, <1>2, <1>5 DEF QueuesTyped, Others

LEMMA QueueForRetryType ==
    ASSUME QueuesTyped, UNCHANGED scenario, NEW l \in Links, NEW c \in LiveCommands, NEW more,
           QueueForRetry(l, c, more)
    PROVE  QueuesTyped'
<1> DEFINE r == l[1]
           q == Requeue(retryQueue[r], l[2], c)
<1>1. r \in Replicas /\ l[2] \in Others(r)
  BY WorkerFacts
<1>2. q \in Seq(Others(r) \X LiveCommands)
  BY <1>1, RequeueType DEF QueuesTyped
<1>3. retrying' = retrying /\ retrying[r] = 0 /\ retryQueue' = [retryQueue EXCEPT ![r] = q]
  BY DEF QueueForRetry, MuFree
<1>4. 0 <= Len(q) + 1
  BY <1>2
<1> HIDE DEF q
<1> QED BY <1>1, <1>2, <1>3, <1>4, QueueStep

ConnStates == {"none", "dialing", "up", "leaving", "failed", "draining", "drained"}

LEMMA ClosedType ==
    ASSUME NEW cmds PROVE Closed \in ConnType(cmds)
<1>1. <<>> \in Seq(cmds)
  OBVIOUS
<1> QED BY <1>1 DEF Closed, ConnType

\* The updates of a connection object that the actions make.
LEMMA UpdateTypes ==
    ASSUME NEW cmds, NEW k \in ConnType(cmds), NEW at \in ConnStates, NEW q \in Seq(cmds),
           NEW q2 \in Seq(cmds), NEW c \in cmds \cup {None}
    PROVE  /\ [k EXCEPT !.at = at] \in ConnType(cmds)
           /\ [k EXCEPT !.ch = q] \in ConnType(cmds)
           /\ [k EXCEPT !.held = c, !.ch = q] \in ConnType(cmds)
           /\ [k EXCEPT !.ch = q, !.held = c] \in ConnType(cmds)
           /\ [k EXCEPT !.ch = q, !.out = q2] \in ConnType(cmds)
           /\ [k EXCEPT !.held = c] \in ConnType(cmds)
           /\ [k EXCEPT !.held = c, !.out = q] \in ConnType(cmds)
<1>1. [k EXCEPT !.at = at] \in ConnType(cmds)
  BY DEF ConnType, ConnStates
<1>2. [k EXCEPT !.ch = q] \in ConnType(cmds)
  BY DEF ConnType, ConnStates
<1>3. [k EXCEPT !.held = c, !.ch = q] \in ConnType(cmds)
  BY DEF ConnType, ConnStates
<1>4. [k EXCEPT !.ch = q, !.held = c] \in ConnType(cmds)
  BY DEF ConnType, ConnStates
<1>5. [k EXCEPT !.ch = q, !.out = q2] \in ConnType(cmds)
  BY DEF ConnType, ConnStates
<1>6. [k EXCEPT !.held = c] \in ConnType(cmds)
  BY DEF ConnType, ConnStates
<1>7. [k EXCEPT !.held = c, !.out = q] \in ConnType(cmds)
  BY DEF ConnType, ConnStates
<1> QED BY <1>1, <1>2, <1>3, <1>4, <1>5, <1>6, <1>7

LEMMA SendTypes ==
    ASSUME NEW cmds, NEW k \in ConnType(cmds), NEW c \in cmds \cup {None}, NEW q \in Seq(cmds)
    PROVE  k.wire = None => [k EXCEPT !.wire = c, !.out = q] \in ConnType(cmds)
BY DEF ConnType

LEMMA AnswerTypes ==
    ASSUME NEW cmds, NEW k \in ConnType(cmds), NEW g \in Replies \cup {"taken"}
    PROVE  k.wire # None => [k EXCEPT !.got = g] \in ConnType(cmds)
BY DEF ConnType

LEMMA EndTypes ==
    ASSUME NEW cmds, NEW k \in ConnType(cmds), NEW q \in Seq(cmds)
    PROVE  /\ [Closed EXCEPT !.at = "dialing", !.ch = q] \in ConnType(cmds)
           /\ [k EXCEPT !.at = "leaving", !.held = None] \in ConnType(cmds)
           /\ [k EXCEPT !.at = "failed", !.got = None] \in ConnType(cmds)
           /\ [k EXCEPT !.wire = None, !.got = None] \in ConnType(cmds)
<1>1. <<>> \in Seq(cmds)
  OBVIOUS
<1>2. [Closed EXCEPT !.at = "dialing", !.ch = q] \in ConnType(cmds)
  BY <1>1 DEF Closed, ConnType
<1>3. [k EXCEPT !.at = "leaving", !.held = None] \in ConnType(cmds)
  BY DEF ConnType
<1>4. [k EXCEPT !.at = "failed", !.got = None] \in ConnType(cmds)
  BY DEF ConnType
<1>5. [k EXCEPT !.wire = None, !.got = None] \in ConnType(cmds)
  BY DEF ConnType
<1> QED BY <1>2, <1>3, <1>4, <1>5

LEMMA SequenceTypes ==
    ASSUME NEW cmds, NEW q \in Seq(cmds), NEW c \in cmds
    PROVE  /\ q # <<>> => Head(q) \in cmds /\ Tail(q) \in Seq(cmds)
           /\ Append(q, c) \in Seq(cmds)
OBVIOUS

\* What is typed stays typed, action by action.
LEMMA ConnectionTypes ==
    ASSUME CommandsTyped, NEW l \in Links, Connection(l) \/ Break(l) \/ Undelivered(l)
    PROVE  CommandsTyped'
<1> DEFINE k == conns[l]
           D == LiveCommands
<1>1. k \in ConnType(D) /\ sending \subseteq SendingType(D)
  BY DEF CommandsTyped, ConnsTyped
<1>2. /\ k.ch \in Seq(D) /\ k.out \in Seq(D) /\ {k.held, k.wire} \subseteq D \cup {None}
      /\ k.got \in Replies \cup {None, "taken"} /\ Closed \in ConnType(D)
  BY <1>1, ClosedType DEF ConnType
<1>3. UNCHANGED <<scenario, scan>>
  BY DEF Connection, Break, Undelivered, SpawnConn, Connect, DrainTake, DrainQueue, OnClosedConn, Pace,
         EgressSend, EgressRecv, EgressFails, Reauthenticate, Left, msgVars, pkiVars
<1>4. ScansTyped'
  BY <1>3, ScansStay DEF CommandsTyped
<1> USE DEF msgVars, pkiVars
<1>5. ASSUME UNCHANGED <<msgVars, retryQueue, retrying>>, sending' \subseteq SendingType(D),
             NEW k2 \in ConnType(D), conns' = [conns EXCEPT ![l] = k2]
      PROVE  CommandsTyped'
  BY <1>3, <1>4, <1>5, ConnStep, MessagesStay, QueuesStay DEF CommandsTyped
<1>6. ASSUME UNCHANGED <<msgVars, sending>>, NEW k2 \in ConnType(D), conns' = [conns EXCEPT ![l] = k2],
             NEW c \in D, NEW more, QueueForRetry(l, c, more)
      PROVE  CommandsTyped'
  BY <1>1, <1>3, <1>4, <1>6, ConnStep, MessagesStay, QueueForRetryType DEF CommandsTyped
<1> HIDE DEF D
<1>7. CASE SpawnConn(l)
  BY <1>1, <1>2, <1>5, <1>7, UpdateTypes DEF SpawnConn, ConnStates
<1>8. CASE Connect(l)
  <2> DEFINE at == IF l[2] \in members[l[1]] THEN "up" ELSE "draining"
  <2>1. [k EXCEPT !.at = at] \in ConnType(D)
    BY <1>1, <1>2, UpdateTypes DEF ConnStates
  <2> QED BY <1>1, <1>5, <1>8, <2>1 DEF Connect
<1>9. CASE DrainTake(l)
  <2>1. CASE k.ch = <<>>
    <3>1. [k EXCEPT !.at = "drained"] \in ConnType(D)
      BY <1>1, <1>2, UpdateTypes DEF ConnStates
    <3> QED BY <1>1, <1>5, <1>9, <2>1, <3>1 DEF DrainTake
  <2>2. CASE k.ch # <<>>
    <3>1. Head(k.ch) \in D \cup {None} /\ Tail(k.ch) \in Seq(D)
      BY <1>2, <2>2, SequenceTypes
    <3>2. [k EXCEPT !.held = Head(k.ch), !.ch = Tail(k.ch)] \in ConnType(D)
      BY <1>1, <1>2, <3>1, UpdateTypes DEF ConnStates
    <3> QED BY <1>1, <1>5, <1>9, <2>2, <3>2 DEF DrainTake
  <2> QED BY <2>1, <2>2
<1>10. CASE DrainQueue(l)
  <2>1. [k EXCEPT !.held = None] \in ConnType(D)
    <3>1. None \in D \cup {None} /\ "up" \in ConnStates
      BY DEF ConnStates
    <3> HIDE DEF k
    <3> QED BY <1>1, <1>2, <3>1, UpdateTypes
  <2>2. k.held \in D
    BY <1>2, <1>10 DEF DrainQueue
  <2> QED BY <1>6, <1>10, <2>1, <2>2 DEF DrainQueue
<1>11. CASE OnClosedConn(l)
  <2>1. sending' \subseteq SendingType(D)
    BY <1>1, <1>11 DEF OnClosedConn, SendingType
  <2> QED BY <1>2, <1>5, <1>11, <2>1 DEF OnClosedConn
<1>12. CASE Pace(l)
  <2>1. CASE k.held = None /\ k.ch # <<>>
    <3>1. Head(k.ch) \in D /\ Tail(k.ch) \in Seq(D) /\ Append(k.out, Head(k.ch)) \in Seq(D)
      BY <1>2, <2>1, SequenceTypes
    <3>2. [k EXCEPT !.ch = Tail(k.ch), !.out = Append(k.out, Head(k.ch))] \in ConnType(D)
      BY <1>1, <1>2, <3>1, UpdateTypes DEF ConnStates
    <3>3. [k EXCEPT !.ch = Tail(k.ch), !.held = Head(k.ch)] \in ConnType(D)
      BY <1>1, <1>2, <3>1, UpdateTypes DEF ConnStates
    <3> QED BY <1>1, <1>5, <1>12, <2>1, <3>2, <3>3 DEF Pace
  <2>2. CASE k.held # None
    <3>1. Append(k.out, k.held) \in Seq(D)
      BY <1>2, <2>2, SequenceTypes
    <3>2. [k EXCEPT !.held = None, !.out = Append(k.out, k.held)] \in ConnType(D)
      BY <1>1, <1>2, <3>1, UpdateTypes DEF ConnStates
    <3> QED BY <1>1, <1>5, <1>12, <2>2, <3>2 DEF Pace
  <2> QED BY <1>12, <2>1, <2>2 DEF Pace
<1>13. CASE EgressSend(l)
  <2>1. Head(k.out) \in D \cup {None} /\ Tail(k.out) \in Seq(D)
    BY <1>2, <1>13, SequenceTypes DEF EgressSend
  <2>2. [k EXCEPT !.wire = Head(k.out), !.out = Tail(k.out)] \in ConnType(D)
    BY <1>1, <1>2, <1>13, <2>1, SendTypes DEF EgressSend
  <2> QED BY <1>1, <1>5, <1>13, <2>2 DEF EgressSend
<1>14. CASE EgressRecv(l)
  <2>1. [k EXCEPT !.wire = None, !.got = None] \in ConnType(D)
    BY <1>1, <1>2, EndTypes
  <2>2. conns' = [conns EXCEPT ![l] = [k EXCEPT !.wire = None, !.got = None]]
    BY <1>14 DEF EgressRecv
  <2>3. k.wire # None => k.wire \in D
    BY <1>2
  <2>4. k.wire # None
    BY <1>1, <1>14, ReplicaAssumption DEF EgressRecv, ConnType
  <2>5. CASE k.wire.msg = None /\ k.got = "dbFailure"
    BY <1>6, <1>14, <2>1, <2>2, <2>3, <2>4, <2>5 DEF EgressRecv
  <2>6. CASE k.wire.msg = None /\ k.got # "dbFailure"
    BY <1>1, <1>5, <1>14, <2>1, <2>2, <2>6 DEF EgressRecv
  <2>7. CASE k.wire.msg # None
    <3>1. MessagesTyped'
      BY <1>14, <2>7, SameCommands DEF EgressRecv, CommandsTyped, MessagesTyped
    <3>2. sending' \subseteq SendingType(D) /\ UNCHANGED <<retryQueue, retrying>>
      BY <1>1, <1>14, <2>7 DEF EgressRecv
    <3>3. ConnsTyped' /\ QueuesTyped'
      BY <1>3, <2>1, <2>2, <3>2, ConnStep, QueuesStay DEF CommandsTyped, D
    <3> QED BY <1>4, <3>1, <3>3 DEF CommandsTyped
  <2> QED BY <2>5, <2>6, <2>7
<1>15. CASE EgressFails(l)
  <2>1. [Closed EXCEPT !.at = "dialing", !.ch = k.ch] \in ConnType(D)
    BY <1>1, <1>2, EndTypes
  <2>2. k.wire # None => k.wire \in D
    BY <1>2
  <2> QED BY <1>1, <1>5, <1>6, <1>15, <2>1, <2>2 DEF EgressFails, Unfinished
<1>16. CASE Reauthenticate(l)
  <2>1. [k EXCEPT !.at = "leaving", !.held = None] \in ConnType(D)
    BY <1>1, <1>2, EndTypes
  <2>2. conns' = [conns EXCEPT ![l] = [k EXCEPT !.at = "leaving", !.held = None]]
    BY <1>16 DEF Reauthenticate
  <2> QED BY <1>1, <1>5, <1>16, <2>1, <2>2 DEF Reauthenticate
<1>17. CASE Left(l)
  <2>1. [k EXCEPT !.at = "dialing"] \in ConnType(D)
    BY <1>1, <1>2, UpdateTypes DEF ConnStates
  <2> QED BY <1>1, <1>5, <1>17, <2>1 DEF Left
<1>18. CASE Break(l)
  <2>1. [k EXCEPT !.at = "failed"] \in ConnType(D)
    BY <1>1, <1>2, UpdateTypes DEF ConnStates
  <2> QED BY <1>1, <1>5, <1>18, <2>1 DEF Break
<1>19. CASE Undelivered(l)
  <2>1. [k EXCEPT !.wire = None, !.got = None] \in ConnType(D) /\ k.wire \in D
    BY <1>1, <1>2, <1>19, EndTypes DEF Undelivered
  <2>2. conns' = [conns EXCEPT ![l] = [k EXCEPT !.wire = None, !.got = None]]
    BY <1>19 DEF Undelivered
  <2> QED BY <1>6, <1>19, <2>1, <2>2 DEF Undelivered
<1> QED BY <1>7, <1>8, <1>9, <1>10, <1>11, <1>12, <1>13, <1>14, <1>15, <1>16, <1>17, <1>18, <1>19
        DEF Connection

LEMMA PeerLoopTypes ==
    ASSUME StoreInv, CommandsTyped, NEW l \in Links, PeerLoop(l)
    PROVE  CommandsTyped'
<1> DEFINE k == conns[l]
           D == LiveCommands
<1>1. k \in ConnType(D) /\ sending \subseteq SendingType(D)
  BY DEF CommandsTyped, ConnsTyped
<1>2. k.wire # None /\ k.wire \in D
  BY <1>1, ReplicaAssumption DEF PeerLoop, TakeWrite, TakeMessage, WriteReply, ConnType
<1>3. PICK g \in Replies \cup {"taken"} : conns' = [conns EXCEPT ![l] = [k EXCEPT !.got = g]]
  <2>1. "taken" \in Replies \cup {"taken"} /\ answer[l] \in Replies
    BY WorkerFacts DEF StoreInv, StoreTypeOK, Replies
  <2>2. \A g : [conns EXCEPT ![l].got = g] = [conns EXCEPT ![l] = [k EXCEPT !.got = g]]
    OBVIOUS
  <2> QED BY <2>1, <2>2 DEF PeerLoop, TakeWrite, TakeMessage, WriteReply
<1>4. UNCHANGED <<scenario, reply, pending, retryQueue, retrying, sending, scan>>
  BY DEF PeerLoop, TakeWrite, TakeMessage, WriteReply, msgVars, pkiVars
<1>5. ConnsTyped' /\ QueuesTyped' /\ ScansTyped'
  <2>1. [k EXCEPT !.got = g] \in ConnType(D)
    BY <1>1, <1>2, AnswerTypes
  <2> QED BY <1>1, <1>3, <1>4, <2>1, ConnStep, QueuesStay, ScansStay DEF CommandsTyped
<1>6. MessagesTyped'
  <2>1. CASE TakeWrite(l) \/ WriteReply(l)
    BY <1>4, <2>1, MessagesStay DEF TakeWrite, WriteReply, msgVars, CommandsTyped
  <2>2. CASE TakeMessage(l)
    <3> DEFINE h == <<k.wire.msg[1], l[2]>>
    <3>1. k.wire.msg \in Live \X Replicas
      BY <1>2, <2>2, CommandFacts DEF TakeMessage
    <3>2. h \in Handlers /\ h[1] \in Live
      BY <3>1, WorkerFacts DEF Handlers, Live, Others
    <3>3. handler' = [handler EXCEPT ![h] = "waiting"]
      BY <2>2 DEF TakeMessage
    <3> HIDE DEF h
    <3> QED BY <1>4, <3>2, <3>3, SameCommands DEF CommandsTyped, MessagesTyped
  <2> QED BY <2>1, <2>2 DEF PeerLoop
<1> QED BY <1>5, <1>6 DEF CommandsTyped

LEMMA DeliverTypes ==
    ASSUME CommandsTyped, Deliver
    PROVE  CommandsTyped'
<1> DEFINE D == LiveCommands
<1>1. PICK s \in sending : Lookup(s) \/ SendToChannel(s)
  BY DEF Deliver
<1>2. s \in SendingType(D) /\ sending \subseteq SendingType(D) /\ s.link \in Links /\ s.cmd \in D
  BY DEF CommandsTyped, ConnsTyped, SendingType
<1>3. UNCHANGED <<msgVars, scan>>
  BY <1>1 DEF Lookup, SendToChannel, pkiVars
<1>4. MessagesTyped' /\ ScansTyped'
  BY <1>3, MessagesStay, ScansStay DEF CommandsTyped, msgVars
<1>5. [s EXCEPT !.at = "send"] \in SendingType(D)
  BY <1>2 DEF SendingType
<1>6. sending' \subseteq SendingType(D)
  BY <1>1, <1>2, <1>5 DEF Lookup, SendToChannel
<1>7. CASE Lookup(s)
  <2>1. conns' = conns
    BY <1>7 DEF Lookup, connVars
  <2>2. QueuesTyped'
    BY <1>2, <1>3, <1>7, QueueForRetryType, QueuesStay DEF Lookup, connVars, CommandsTyped, msgVars
  <2> QED BY <1>3, <1>4, <1>6, <2>1, <2>2, ConnsStay DEF CommandsTyped, msgVars
<1>8. CASE SendToChannel(s)
  <2> DEFINE k == conns[s.link]
  <2>1. k \in ConnType(D) /\ k.ch \in Seq(D)
    BY <1>2 DEF CommandsTyped, ConnsTyped, ConnType
  <2>2. Append(k.ch, s.cmd) \in Seq(D)
    BY <1>2, <2>1, SequenceTypes
  <2>3. [k EXCEPT !.ch = Append(k.ch, s.cmd)] \in ConnType(D)
    BY <2>1, <2>2 DEF ConnType
  <2>4. conns' = [conns EXCEPT ![s.link] = [k EXCEPT !.ch = Append(k.ch, s.cmd)]]
        /\ UNCHANGED <<retryQueue, retrying>>
    BY <1>8 DEF SendToChannel
  <2> HIDE DEF k
  <2>5. ConnsTyped' /\ QueuesTyped'
    BY <1>2, <1>3, <1>6, <2>3, <2>4, ConnStep, QueuesStay DEF CommandsTyped, msgVars
  <2> QED BY <1>4, <2>5 DEF CommandsTyped
<1> QED BY <1>1, <1>7, <1>8

LEMMA RetryTypes ==
    ASSUME CommandsTyped, NEW r \in Replicas, Retry(r)
    PROVE  CommandsTyped'
<1> DEFINE D == LiveCommands
           q == retryQueue[r]
           i == retrying[r] - 1
           l == <<r, q[i][1]>>
           s == Sending(<<"retry">>, l, q[i][2], "send")
<1>1. UNCHANGED <<msgVars, conns, scan>>
  BY DEF Retry, ProcessRetryQueue, RetryNext, RetryEnds, pkiVars
<1>2. MessagesTyped' /\ ScansTyped'
  BY <1>1, MessagesStay, ScansStay DEF CommandsTyped, msgVars
<1>3. /\ q \in Seq(Others(r) \X D) /\ Len(q) \in Nat /\ DOMAIN q = 1..Len(q)
      /\ retrying \in [Replicas -> Nat] /\ DOMAIN retryQueue = Replicas
      /\ retrying[r] <= Len(q) + 1 /\ sending \subseteq SendingType(D)
  <2>1. q \in Seq(Others(r) \X D)
    BY DEF CommandsTyped, QueuesTyped
  <2> QED BY <2>1 DEF CommandsTyped, QueuesTyped, ConnsTyped
<1>5. CASE ProcessRetryQueue(r) \/ RetryEnds(r)
  <2>1. UNCHANGED <<sending, retryQueue>>
    BY <1>5 DEF ProcessRetryQueue, RetryEnds
  <2>2. PICK n \in Nat : n <= Len(q) + 1 /\ retrying' = [retrying EXCEPT ![r] = n]
    BY <1>3, <1>5 DEF ProcessRetryQueue, RetryEnds
  <2>3. QueuesTyped'
    BY <1>1, <1>3, <2>1, <2>2, QueueStep DEF CommandsTyped, msgVars
  <2> QED BY <1>1, <1>2, <1>3, <2>1, <2>3, ConnsStay DEF CommandsTyped, msgVars
<1>6. CASE RetryNext(r)
  <2>1. i \in DOMAIN q
    BY <1>3, <1>6 DEF RetryNext
  <2>2. q[i] \in Others(r) \X D
    BY <1>3, <2>1
  <2>3. l \in Links /\ q[i][2] \in D
    BY <2>2 DEF Links, Others
  <2>4. s \in SendingType(D)
    BY <2>3 DEF Sending, SendingType, Callers
  <2>5. sending' \subseteq SendingType(D)
    BY <1>3, <1>6, <2>4 DEF RetryNext
  <2>6. /\ WithoutFirst(q, {i}) \in Seq(Others(r) \X D)
        /\ Len(WithoutFirst(q, {i})) = Len(q) - 1
    BY <1>3, <2>1, WithoutFirstType
  <2>7. PICK n \in Nat : n <= Len(q) /\ retrying' = [retrying EXCEPT ![r] = n]
    <3>1. i \in Nat /\ i <= Len(q)
      BY <1>3, <1>6 DEF RetryNext
    <3>2. retrying' = [retrying EXCEPT ![r] = i]
      BY <1>6 DEF RetryNext
    <3> HIDE DEF i
    <3> QED BY <3>1, <3>2
  <2> DEFINE new == WithoutFirst(q, {i})
  <2>8. \/ retryQueue' = [retryQueue EXCEPT ![r] = new]
        \/ retryQueue' = retryQueue
    BY <1>6 DEF RetryNext
  <2>9. new \in Seq(Others(r) \X D) /\ n <= Len(new) + 1
    BY <1>3, <2>6, <2>7
  <2>10. QueuesTyped /\ UNCHANGED scenario
    BY <1>1 DEF CommandsTyped, msgVars
  <2> HIDE DEF new, i, l, s
  <2>11. ASSUME retryQueue' = [retryQueue EXCEPT ![r] = new] PROVE QueuesTyped'
    BY <2>7, <2>9, <2>10, <2>11, QueueStep
  <2>12. ASSUME retryQueue' = retryQueue PROVE QueuesTyped'
    <3>1. n <= Len(q) + 1
      BY <1>3, <2>7
    <3> QED BY <1>3, <2>7, <2>10, <2>12, <3>1, QueueStep
  <2>13. QueuesTyped'
    BY <2>8, <2>11, <2>12
  <2> QED BY <1>1, <1>2, <1>3, <2>5, <2>13, ConnsStay DEF CommandsTyped, msgVars
<1> QED BY <1>5, <1>6 DEF Retry

LEMMA ShardsType ==
    ASSUME NEW r, NEW b \in Boxes
    PROVE  Shards(r, b) \subseteq ShardsOf[b] /\ Shards(r, b) \subseteq Replicas
BY ReplicaAssumption DEF Shards, GetShards

\* What the store holds is sent as typed commands.
LEMMA WriteType ==
    ASSUME NEW b \in Boxes, NEW v \in Values PROVE Write(b, v) \in LiveCommands
BY DEF LiveCommands

LEMMA ScanOfType ==
    ASSUME StoreInv, NEW r \in Replicas, NEW at \in {"pki", "boot"}
    PROVE  ScanOf(r, at) \in ScanType(r, LiveCommands)
<1> DEFINE others == {bt \in Boxes \X Replicas : bt[2] \in Shards(r, bt[1]) \ {r}}
           sends(e) == {<<bt[2], Write(bt[1], db[r][e][bt[1]])>> :
                           bt \in {x \in others : db[r][e][x[1]] # None}}
           complete == docs[r] = {} \/ \A b \in Boxes : Visible(r, b) = None \/ Shards(r, b) # {}
<1>1. ASSUME NEW e \in Epochs PROVE sends(e) \in SUBSET (Others(r) \X LiveCommands)
  <2>1. ASSUME NEW bt \in others, db[r][e][bt[1]] # None
        PROVE  <<bt[2], Write(bt[1], db[r][e][bt[1]])>> \in Others(r) \X LiveCommands
    <3>1. bt[1] \in Boxes /\ bt[2] \in Others(r)
      BY DEF Others
    <3>2. db[r][e][bt[1]] \in Values
      BY <2>1, <3>1 DEF StoreInv, StoreTypeOK
    <3> QED BY <3>1, <3>2, WriteType
  <2> QED BY <2>1
<1>2. epoch \in Epochs /\ (epoch # 0 => epoch - 1 \in Epochs)
  BY StoreAssumption DEF StoreInv, StoreTypeOK, Epochs
<1>3. {} \in SUBSET (Others(r) \X LiveCommands)
  OBVIOUS
<1>4. complete \in BOOLEAN
  OBVIOUS
<1>5. ScanOf(r, at) = [at |-> at, new |-> sends(epoch),
                       old |-> IF epoch = 0 THEN {} ELSE sends(epoch - 1), complete |-> complete]
  BY DEF ScanOf
<1> HIDE DEF sends, complete
<1> QED BY <1>1, <1>2, <1>3, <1>4, <1>5 DEF ScanType

LEMMA ScanStep ==
    ASSUME ScansTyped, UNCHANGED scenario, NEW r \in Replicas, NEW s \in ScanType(r, LiveCommands),
           scan' = [scan EXCEPT ![r] = s]
    PROVE  ScansTyped'
BY SameCommands DEF ScansTyped, ScanType, Others

LEMMA NoScanType ==
    ASSUME NEW r PROVE NoScan \in ScanType(r, LiveCommands)
<1>1. {} \in SUBSET (Others(r) \X LiveCommands)
  OBVIOUS
<1> QED BY <1>1 DEF NoScan, ScanType

LEMMA PkiTypes ==
    ASSUME StoreInv, CommandsTyped, NEW r \in Replicas, Pki(r) \/ Boot(r)
    PROVE  CommandsTyped'
<1> DEFINE D == LiveCommands
<1>1. UNCHANGED <<msgVars, connVars>>
  BY DEF Pki, Boot, Fetch, ProcessDocument, RebalanceNext, RebalanceEnds
<1>2. MessagesTyped' /\ QueuesTyped'
  BY <1>1, MessagesStay, QueuesStay DEF CommandsTyped, msgVars, connVars
<1>3. scan[r] \in ScanType(r, D) /\ sending \subseteq SendingType(D)
  BY DEF CommandsTyped, ScansTyped, ConnsTyped
<1>4. CASE \E s \in ScanType(r, D) : UNCHANGED sending /\ scan' = [scan EXCEPT ![r] = s]
  <2>1. ScansTyped'
    BY <1>1, <1>4, ScanStep DEF CommandsTyped, msgVars
  <2> QED BY <1>1, <1>2, <1>3, <1>4, <2>1, ConnsStay DEF CommandsTyped, msgVars, connVars
<1>5. CASE UNCHANGED <<sending, scan>>
  BY <1>1, <1>2, <1>3, <1>5, ScansStay, ConnsStay DEF CommandsTyped, msgVars, connVars
<1>6. CASE Fetch(r)
  BY <1>5, <1>6 DEF Fetch
<1>7. CASE ProcessDocument(r)
  <2>1. ScanOf(r, "pki") \in ScanType(r, D)
    BY ScanOfType
  <2> QED BY <1>4, <1>5, <1>7, <2>1 DEF ProcessDocument
<1>8. CASE Boot(r)
  <2>1. ScanOf(r, "boot") \in ScanType(r, D)
    BY ScanOfType
  <2> QED BY <1>4, <1>5, <1>8, <2>1 DEF Boot
<1>9. CASE RebalanceEnds(r)
  BY <1>4, <1>9, NoScanType DEF RebalanceEnds
<1>10. CASE RebalanceNext(r)
  <2> DEFINE s == scan[r]
             rest(x) == [s EXCEPT !.new = s.new \ {x}, !.old = IF s.new = {} THEN s.old \ {x} ELSE s.old]
  <2>1. PICK x \in s.new \cup s.old :
           /\ scan' = [scan EXCEPT ![r] = rest(x)]
           /\ sending' = sending \cup {Sending(<<"rebalance">>, <<r, x[1]>>, x[2], "lookup")}
    BY <1>10 DEF RebalanceNext
  <2>2. s.new \subseteq Others(r) \X D /\ s.old \subseteq Others(r) \X D
    BY <1>3 DEF ScanType
  <2>3. rest(x) \in ScanType(r, D)
    BY <1>3, <2>2 DEF ScanType
  <2>4. x[1] \in Others(r) /\ x[2] \in D
    BY <2>1, <2>2
  <2>5. Sending(<<"rebalance">>, <<r, x[1]>>, x[2], "lookup") \in SendingType(D)
    BY <2>4 DEF Sending, SendingType, Callers, Links, Others
  <2>6. ScansTyped'
    BY <1>1, <2>1, <2>3, ScanStep DEF CommandsTyped, msgVars
  <2> QED BY <1>1, <1>2, <1>3, <2>1, <2>5, <2>6, ConnsStay DEF CommandsTyped, msgVars, connVars
<1> QED BY <1>6, <1>7, <1>8, <1>9, <1>10 DEF Pki

LEMMA RestartTypes ==
    ASSUME CommandsTyped, NEW r \in Replicas, Restart(r)
    PROVE  CommandsTyped'
<1> DEFINE D == LiveCommands
<1>1. UNCHANGED <<scenario, reply>> /\ LiveCommands' = D /\ Live' = Live
  BY SameCommands DEF Restart
<1>2. MessagesTyped'
  BY <1>1 DEF Restart, CommandsTyped, MessagesTyped
<1>3. QueuesTyped'
  <2>1. <<>> \in Seq(Others(r) \X D) /\ 0 <= Len(<<>>) + 1
    OBVIOUS
  <2>2. retryQueue' = [retryQueue EXCEPT ![r] = <<>>] /\ retrying' = [retrying EXCEPT ![r] = 0]
    BY DEF Restart
  <2> QED BY <1>1, <2>1, <2>2, QueueStep DEF CommandsTyped
<1>4. ScansTyped'
  BY <1>1, NoScanType, ScanStep DEF Restart, CommandsTyped
<1>5. ConnsTyped'
  <2>1. ASSUME NEW l \in Links
        PROVE  /\ Closed \in ConnType(D) /\ conns[l] \in ConnType(D)
               /\ [conns[l] EXCEPT !.at = "failed", !.got = None] \in ConnType(D)
    <3>1. conns[l] \in ConnType(D)
      BY DEF CommandsTyped, ConnsTyped
    <3>2. <<>> \in Seq(D)
      OBVIOUS
    <3> QED BY <3>1, <3>2, ClosedType, EndTypes
  <2>2. conns' \in [Links -> ConnType(D)]
    BY <2>1 DEF Restart
  <2>3. sending' \subseteq SendingType(D)
    BY DEF Restart, CommandsTyped, ConnsTyped
  <2> QED BY <1>1, <2>2, <2>3 DEF ConnsTyped, ConnType, SendingType
<1> QED BY <1>2, <1>3, <1>4, <1>5 DEF CommandsTyped

\* The handler of a live message moves on.
LEMMA HandlerStep ==
    ASSUME MessagesTyped, UNCHANGED scenario, NEW h \in Handlers,
           NEW at \in {"idle", "waiting", "running", "asked", "proxying", "done"},
           h[1] \in Live \/ at = "idle", handler' = [handler EXCEPT ![h] = at],
           reply' \in [Messages -> Replies \cup {"none"}],
           pending' \in [Handlers -> Replies \cup {"none", "open", "closed"}]
    PROVE  MessagesTyped'
BY SameCommands DEF MessagesTyped

LEMMA RepliedTypes ==
    ASSUME CommandsTyped, NEW h \in Handlers, handler[h] # "idle", NEW a \in Replies, Replied(h, a),
           UNCHANGED <<pending, scan>>, sending' \subseteq SendingType(LiveCommands)
    PROVE  CommandsTyped'
<1> DEFINE D == LiveCommands
<1>1. MessagesTyped'
  BY HandlerStep DEF Replied, CommandsTyped, MessagesTyped
<1>2. QueuesTyped' /\ ScansTyped'
  BY QueuesStay, ScansStay DEF Replied, CommandsTyped
<1>3. ConnsTyped'
  <2>1. \A l \in Links : conns'[l] = conns[l] \/ (conns[l].wire # None /\ conns'[l] = [conns[l] EXCEPT !.got = a])
    BY DEF Replied
  <2>2. \A l \in Links : conns[l].wire # None => [conns[l] EXCEPT !.got = a] \in ConnType(D)
    BY AnswerTypes DEF CommandsTyped, ConnsTyped
  <2>3. conns' = [l \in Links |-> conns'[l]]
    BY DEF Replied
  <2>4. conns' \in [Links -> ConnType(D)]
    BY <2>1, <2>2, <2>3 DEF CommandsTyped, ConnsTyped
  <2>5. D' = D
    BY SameCommands DEF Replied
  <2> QED BY <2>4, <2>5 DEF ConnsTyped, ConnType, SendingType
<1> QED BY <1>1, <1>2, <1>3 DEF CommandsTyped

LEMMA HandleTypes ==
    ASSUME StoreInv, CommandsTyped, NEW h \in Handlers, Handle(h) \/ CleanupExpiredRequests(h)
    PROVE  CommandsTyped'
<1> DEFINE D == LiveCommands
           r == h[2]
<1>1. sending \subseteq SendingType(D) /\ MessagesTyped
  BY DEF CommandsTyped, ConnsTyped
<1>2. UNCHANGED <<scenario, scan>>
  BY DEF Handle, TakeSlot, Refuse, Serve, Served, Proxy, ProxyReply, ProxyTimeout, Replied,
         CleanupExpiredRequests, pkiVars
<1>3. ASSUME NEW a \in Replies, Replied(h, a), handler[h] # "idle", UNCHANGED pending,
             sending' \subseteq SendingType(D)
      PROVE  CommandsTyped'
  BY <1>2, <1>3, RepliedTypes
<1>4. ASSUME NEW at \in {"running", "asked", "proxying"}, handler[h] # "idle",
             handler' = [handler EXCEPT ![h] = at], UNCHANGED <<reply, connVars>>,
             pending' \in [Handlers -> Replies \cup {"none", "open", "closed"}],
             sending' \subseteq SendingType(D)
      PROVE  CommandsTyped'
  <2>1. h[1] \in Live
    BY <1>1, <1>4 DEF MessagesTyped
  <2>2. MessagesTyped'
    BY <1>1, <1>2, <1>4, <2>1, HandlerStep DEF MessagesTyped
  <2> QED BY <1>2, <1>4, <2>2, ConnsStay, QueuesStay, ScansStay DEF CommandsTyped, connVars
<1>5. CASE TakeSlot(h)
  BY <1>1, <1>4, <1>5 DEF TakeSlot, MessagesTyped
<1>6. CASE Refuse(h)
  <2>1. "error" \in Replies
    BY DEF Replies
  <2> QED BY <1>1, <1>3, <1>6, <2>1 DEF Refuse
<1>7. CASE Serve(h)
  BY <1>1, <1>4, <1>7 DEF Serve, MessagesTyped
<1>8. CASE Served(h)
  <2> DEFINE q == request[h[1]]
  <2>1. answer[h] \in Replies /\ r \in Replicas /\ q.box \in Boxes
    BY <1>1, WorkerFacts, RequestFacts DEF StoreInv, StoreTypeOK, Replies, Requests
  <2>2. DispatchReplication(r, q.box, q.value) \subseteq SendingType(D) \/ ~(q.kind = "write")
    <3>1. SUFFICES ASSUME q.kind = "write", NEW t \in Shards(r, q.box) \ {r}
                   PROVE  Sending(<<"replication">>, <<r, t>>, Write(q.box, q.value), "lookup")
                             \in SendingType(D)
      BY DEF DispatchReplication
    <3>2. t \in Replicas /\ t # r
      BY <2>1, ShardsType
    <3>3. q.value \in Values
      BY <1>1, <3>1, RequestFacts, WorkerFacts DEF Requests
    <3>4. Write(q.box, q.value) \in D
      BY <2>1, <3>3, WriteType
    <3> QED BY <2>1, <3>2, <3>4 DEF Sending, SendingType, Callers, Links
  <2>3. sending' \subseteq SendingType(D)
    BY <1>1, <1>8, <2>2 DEF Served
  <2> QED BY <1>3, <1>8, <2>1, <2>3 DEF Served
<1>9. CASE Proxy(h)
  <2>1. PICK t \in Shards(r, request[h[1]].box) :
           sending' = sending \cup {Sending(h, <<r, t>>, Proxied(h), "lookup")}
    BY <1>9 DEF Proxy
  <2>2. r \in Replicas /\ request[h[1]].box \in Boxes /\ r \notin Shards(r, request[h[1]].box)
        /\ h[1] \in Live /\ handler[h] # "idle" /\ h = <<h[1], r>>
    BY <1>1, <1>9, WorkerFacts, RequestFacts DEF Requests, Proxy, MessagesTyped
  <2>3. <<r, t>> \in Links
    BY <2>1, <2>2, ShardsType DEF Links
  <2>4. Proxied(h) \in D
    BY <2>2 DEF LiveCommands
  <2>5. sending' \subseteq SendingType(D)
    BY <1>1, <2>1, <2>3, <2>4 DEF Sending, SendingType, Callers
  <2>6. pending' \in [Handlers -> Replies \cup {"none", "open", "closed"}]
    BY <1>1, <1>9 DEF Proxy, MessagesTyped
  <2> QED BY <1>4, <1>9, <2>2, <2>5, <2>6 DEF Proxy
<1>10. CASE ProxyReply(h) \/ ProxyTimeout(h)
  <2>1. "failed" \in Replies /\ (pending[h] \in Replies \cup {"closed"} /\ pending[h] # "closed" => pending[h] \in Replies)
    BY DEF Replies
  <2> QED BY <1>1, <1>3, <1>10, <2>1 DEF ProxyReply, ProxyTimeout, Await
<1>11. CASE CleanupExpiredRequests(h)
  <2>1. MessagesTyped'
    BY <1>1, <1>11, SameCommands DEF CleanupExpiredRequests, MessagesTyped
  <2> QED BY <1>1, <1>2, <1>11, <2>1, ConnsStay, QueuesStay, ScansStay
          DEF CommandsTyped, connVars, CleanupExpiredRequests
<1> QED BY <1>5, <1>6, <1>7, <1>8, <1>9, <1>10, <1>11 DEF Handle

LEMMA ArriveTypes ==
    ASSUME CommandsTyped, NEW m \in Messages, Arrive(m)
    PROVE  CommandsTyped'
<1> DEFINE h == <<m, request[m].at>>
<1>1. h \in Handlers /\ h[1] \in Live
  BY RequestFacts DEF Arrive, CommandsTyped, Requests, Handlers, Live
<1>2. UNCHANGED <<scenario, reply, pending, connVars, sending, scan>>
      /\ handler' = [handler EXCEPT ![h] = "waiting"]
  BY DEF Arrive, pkiVars
<1> HIDE DEF h
<1>3. MessagesTyped'
  BY <1>1, <1>2, HandlerStep DEF CommandsTyped, MessagesTyped
<1> QED BY <1>2, <1>3, ConnsStay, QueuesStay, ScansStay DEF CommandsTyped, ConnsTyped, connVars

LEMMA OthersTypes ==
    ASSUME CommandsTyped, UNCHANGED <<msgVars, connVars, sending, scan>>
    PROVE  CommandsTyped'
BY MessagesStay, ConnsStay, QueuesStay, ScansStay DEF CommandsTyped, ConnsTyped, msgVars, connVars

LEMMA CommandsStep ==
    ASSUME StoreInv, CommandsTyped, [Next]_vars
    PROVE  CommandsTyped'
<1>1. CASE \E w \in Workers : Store(w) \/ StoreFault(w)
  BY <1>1, OthersTypes DEF Store, StoreFault, pkiVars
<1>2. CASE Weekly \/ Publish
  BY <1>2, OthersTypes DEF Weekly, Publish, pkiVars
<1>3. CASE \E r \in Replicas : Crash(r)
  BY <1>3, RestartTypes DEF Crash, Dies
<1>4. CASE \E s \in sending : Panic(s)
  <2>1. PICK s \in sending : Panic(s)
    BY <1>4
  <2>2. s.link[1] \in Replicas
    BY WorkerFacts DEF CommandsTyped, ConnsTyped, SendingType
  <2> QED BY <2>1, <2>2, RestartTypes DEF Panic
<1>5. CASE UNCHANGED vars
  BY <1>5, OthersTypes DEF vars, pkiVars
<1> QED BY <1>1, <1>2, <1>3, <1>4, <1>5, ConnectionTypes, PeerLoopTypes, DeliverTypes, RetryTypes,
           PkiTypes, HandleTypes, ArriveTypes DEF Next

(* ------------------------------------ the store ---------------------------------- *)

LEMMA RestartsStore ==
    ASSUME NEW r \in Replicas, Restart(r) PROVE StoreNext
BY DEF Restart, StoreNext

\* The replica uses its store by the steps of StoreNext only.
LEMMA StoreIsCalled ==
    ASSUME CommandsTyped, [Next]_vars
    PROVE  [StoreNext]_storeVars
<1>1. CASE \E w \in Workers : Store(w)
  BY <1>1 DEF Store, StoreNext
<1>2. ASSUME NEW w \in Workers, StoreFault(w) PROVE StoreNext
  BY <1>2, StoreAssumption DEF StoreFault, StoreNext
<1>3. CASE Weekly
  BY <1>3 DEF Weekly, StoreNext
<1>4. CASE Deliver \/ Publish
  BY <1>4 DEF Deliver, Lookup, SendToChannel, Publish
<1>5. ASSUME NEW l \in Links, Connection(l) \/ Break(l) \/ Undelivered(l) PROVE UNCHANGED storeVars
  BY <1>5 DEF Connection, Break, Undelivered, SpawnConn, Connect, DrainTake, DrainQueue, OnClosedConn, Pace,
              EgressSend, EgressRecv, EgressFails, Reauthenticate, Left
<1>6. ASSUME NEW l \in Links, PeerLoop(l) PROVE [StoreNext]_storeVars
  <2>1. CASE TakeMessage(l) \/ WriteReply(l)
    BY <2>1 DEF TakeMessage, WriteReply
  <2>2. CASE TakeWrite(l)
    <3> DEFINE c == conns[l].wire
    <3>1. c \in LiveCommands /\ c.msg = None
      BY <2>2 DEF CommandsTyped, ConnsTyped, ConnType, TakeWrite
    <3>2. c.box \in Boxes /\ c.value \in Values
      BY <3>1, CommandFacts
    <3>3. Call(l, "write", c.box, c.value) /\ l \in Workers
      BY <2>2, WorkerFacts DEF TakeWrite
    <3> QED BY <3>2, <3>3 DEF StoreNext
  <2> QED BY <1>6, <2>1, <2>2 DEF PeerLoop
<1>7. ASSUME NEW h \in Handlers, Handle(h) \/ CleanupExpiredRequests(h) PROVE [StoreNext]_storeVars
  <2>1. CASE ~Serve(h)
    BY <1>7, <2>1 DEF Handle, TakeSlot, Refuse, Served, Proxy, ProxyReply, ProxyTimeout, CleanupExpiredRequests
  <2>2. CASE Serve(h)
    <3> DEFINE q == request[h[1]]
    <3>1. Call(h, q.kind, q.box, q.value) /\ h \in Workers /\ h[1] \in Live
      BY <2>2, WorkerFacts DEF Serve, CommandsTyped, MessagesTyped
    <3>2. /\ q.box \in Boxes /\ q.value \in Values \cup {None} /\ q.kind \in {"read", "write"}
          /\ q.kind = "write" <=> q.value # None
      BY <3>1, WorkerFacts, RequestFacts DEF CommandsTyped, Requests
    <3> HIDE DEF q
    <3> QED BY <3>1, <3>2 DEF StoreNext
  <2> QED BY <2>1, <2>2
<1>8. ASSUME NEW r \in Replicas, Retry(r) \/ Pki(r) \/ Boot(r) PROVE UNCHANGED storeVars
  BY <1>8 DEF Retry, ProcessRetryQueue, RetryNext, RetryEnds, Pki, Fetch, ProcessDocument, RebalanceNext,
              RebalanceEnds, Boot
<1>9. ASSUME NEW r \in Replicas, Crash(r) PROVE StoreNext
  BY <1>9, RestartsStore DEF Crash, Dies
<1>10. ASSUME NEW m \in Messages, Arrive(m) PROVE UNCHANGED storeVars
  BY <1>10 DEF Arrive
<1>11. ASSUME NEW s \in sending, Panic(s) PROVE StoreNext
  <2>1. s.link[1] \in Replicas
    BY WorkerFacts DEF CommandsTyped, ConnsTyped, SendingType
  <2> QED BY <1>11, <2>1, RestartsStore DEF Panic
<1>12. CASE UNCHANGED vars
  BY <1>12 DEF vars
<1> QED BY <1>1, <1>2, <1>3, <1>4, <1>5, <1>6, <1>7, <1>8, <1>9, <1>10, <1>11, <1>12 DEF Next

LEMMA InitCommands == Init => StoreInv /\ CommandsTyped
<1> SUFFICES ASSUME Init PROVE StoreInv /\ CommandsTyped
  OBVIOUS
<1>1. StoreInv
  BY InitStore DEF Init
<1>2. MessagesTyped
  BY DEF Init, MessagesTyped
<1>3. ConnsTyped
  <2>1. <<>> \in Seq(LiveCommands)
    OBVIOUS
  <2>2. [Closed EXCEPT !.at = "dialing"] \in ConnType(LiveCommands)
    BY <2>1 DEF Closed, ConnType
  <2> QED BY <2>2, ClosedType DEF Init, ConnsTyped
<1>4. QueuesTyped
  BY DEF Init, QueuesTyped
<1>5. ScansTyped
  BY NoScanType DEF Init, ScansTyped
<1> QED BY <1>1, <1>2, <1>3, <1>4, <1>5 DEF CommandsTyped

LEMMA CommandsHold == Spec => [](StoreInv /\ CommandsTyped)
<1>1. StoreInv /\ CommandsTyped /\ [Next]_vars => (StoreInv /\ CommandsTyped)'
  BY CommandsStep, StoreIsCalled, NextPreserves
<1> QED BY <1>1, InitCommands, PTL DEF Spec

(* Couriers, peers, retries, rebalances, crashes and panics reach the store of a replica
   (replica/handlers.go, state.go, state_gc.go) only by the calls and steps of ReplicaStore:
   every behaviour of the replicas is a behaviour of their stores. *)
THEOREM StoreIsUsed == Spec => StoreSpec
<1>1. Init => StoreInit
  BY DEF Init
<1>2. StoreInv /\ CommandsTyped /\ [Next]_vars => [StoreNext]_storeVars
  BY StoreIsCalled
<1> QED BY <1>1, <1>2, CommandsHold, PTL DEF Spec, StoreSpec

(* ---------------------------- what was said to be stored ------------------------- *)

\* The write of message m is stored, or erased by now, on replica r.
KeptOn(r, m) == epoch <= 1 => Visible(r, request[m].box) \in {request[m].value, Tombstone}

\* It is on some shard of its box.
Kept(m) == request[m].kind = "write" => \E r \in ShardsOf[request[m].box] : KeptOn(r, m)

(* The handler that asks its store asks for the write of its message; once the store has said
   "ok", the write is stored there. *)
AskedIsKept(h) ==
    LET q == request[h[1]] IN
    handler[h] = "asked" /\ q.kind = "write" =>
        /\ h[2] \in ShardsOf[q.box]
        /\ call[h].at # "idle" => /\ call[h].kind = "write"
                                  /\ call[h].box = q.box /\ call[h].value = q.value
        /\ call[h].at = "idle" /\ answer[h] = "ok" => KeptOn(h[2], h[1])

\* So is what a peer is told over the wire.
PassedOnIsKept(k) == k.got = "ok" /\ k.wire.msg # None => Kept(k.wire.msg[1])

SuccessInv ==
    /\ \A h \in Handlers : AskedIsKept(h)
    /\ \A h \in Handlers : pending[h] = "ok" => Kept(h[1])
    /\ \A l \in Links : PassedOnIsKept(conns[l])
    /\ \A m \in Messages : reply[m] = "ok" => Kept(m)

\* In the first two epochs no record goes away.
LEMMA RecordsStay ==
    ASSUME StoreInv, [StoreNext]_storeVars, NEW r \in Replicas, NEW b \in Boxes, NEW v \in Values,
           epoch' <= 1
    PROVE  epoch <= 1 /\ (Visible(r, b) \in {v, Tombstone} => Visible(r, b)' \in {v, Tombstone})
<1>1. v # None /\ Tombstone # None /\ epoch \in Nat
  BY StoreAssumption DEF Values, StoreInv, StoreTypeOK, Epochs
<1>2. CASE epoch' = epoch
  BY <1>1, <1>2, StepChanges DEF Change
<1>3. CASE epoch' # epoch
  <2>1. NextEpoch
    BY <1>3 DEF StoreNext, storeVars, StoreStep, Check, Put, Read, ReadOlder, DatabaseFails, Call,
                WipeStaleBoxes, RefreshStorageFull, StoreCrash
  <2>2. epoch = 0 /\ epoch' = 1 /\ db' = db /\ 1 \in Epochs
    BY <1>1, <2>1, StoreAssumption DEF NextEpoch, Epochs
  <2>3. db[r][1][b] = None
    BY <2>2 DEF StoreInv, NothingAhead
  <2> QED BY <2>2, <2>3 DEF Visible, Found
<1> QED BY <1>2, <1>3

LEMMA ScenarioStays == [Next]_vars => UNCHANGED scenario
<1> SUFFICES ASSUME [Next]_vars PROVE UNCHANGED scenario
  OBVIOUS
<1> USE DEF msgVars
<1>1. CASE \/ \E w \in Workers : Store(w) \/ StoreFault(w)
           \/ Weekly \/ Deliver \/ Publish
  BY <1>1 DEF Store, StoreFault, Weekly, Deliver, Lookup, SendToChannel, Publish
<1>2. CASE \E l \in Links : Connection(l) \/ PeerLoop(l) \/ Break(l) \/ Undelivered(l)
  BY <1>2 DEF Connection, Break, Undelivered, SpawnConn, Connect, DrainTake, DrainQueue, OnClosedConn, Pace,
              EgressSend, EgressRecv, EgressFails, Reauthenticate, Left,
              PeerLoop, TakeWrite, TakeMessage, WriteReply
<1>3. CASE \/ \E r \in Replicas : Retry(r) \/ Pki(r) \/ Boot(r) \/ Crash(r)
           \/ \E s \in sending : Panic(s)
  BY <1>3 DEF Retry, ProcessRetryQueue, RetryNext, RetryEnds, Pki, Fetch, ProcessDocument, RebalanceNext,
              RebalanceEnds, Boot, Crash, Dies, Restart, Panic
<1>4. CASE \/ \E m \in Messages : Arrive(m)
           \/ \E h \in Handlers : Handle(h) \/ CleanupExpiredRequests(h)
  BY <1>4 DEF Arrive, Handle, TakeSlot, Refuse, Serve, Served, Proxy, ProxyReply, ProxyTimeout, Replied,
              CleanupExpiredRequests
<1>5. CASE UNCHANGED vars
  BY <1>5 DEF vars
<1> QED BY <1>1, <1>2, <1>3, <1>4, <1>5 DEF Next

\* What is stored stays, whatever any replica does.
LEMMA KeptOnStays ==
    ASSUME StoreInv, CommandsTyped, [Next]_vars, NEW r \in Replicas, NEW m \in Messages,
           request[m].kind = "write", KeptOn(r, m)
    PROVE  KeptOn(r, m)'
<1>1. request' = request
  BY ScenarioStays DEF request
<1>2. request[m].box \in Boxes /\ request[m].value \in Values
  BY RequestFacts DEF Requests, CommandsTyped
<1>3. [StoreNext]_storeVars
  BY StoreIsCalled
<1>4. SUFFICES ASSUME epoch' <= 1
               PROVE  Visible(r, request[m].box)' \in {request[m].value, Tombstone}
  BY <1>1 DEF KeptOn
<1>5. epoch <= 1 /\ Visible(r, request[m].box) \in {request[m].value, Tombstone}
  BY <1>2, <1>3, <1>4, RecordsStay DEF KeptOn
<1>6. \A b \in Boxes, v \in Values : Visible(r, b) \in {v, Tombstone} => Visible(r, b)' \in {v, Tombstone}
  BY <1>3, <1>4, RecordsStay
<1>7. \A b \in Boxes : b = request[m].box => Visible(r, b)' = Visible(r, request[m].box)'
  BY <1>1 DEF Visible, Found
<1> QED BY <1>2, <1>5, <1>6, <1>7

LEMMA KeptStays ==
    ASSUME StoreInv, CommandsTyped, [Next]_vars, NEW m \in Messages, Kept(m)
    PROVE  Kept(m)'
<1>1. request' = request
  BY ScenarioStays DEF request
<1>2. CASE request[m].kind # "write"
  BY <1>1, <1>2 DEF Kept
<1>3. CASE request[m].kind = "write"
  <2>1. PICK r \in ShardsOf[request[m].box] : KeptOn(r, m)
    BY <1>3 DEF Kept
  <2>2. r \in Replicas
    BY RequestFacts, ReplicaAssumption DEF Requests, CommandsTyped
  <2>3. KeptOn(r, m)'
    BY <1>3, <2>1, <2>2, KeptOnStays
  <2> QED BY <1>1, <2>1, <2>3 DEF Kept
<1> QED BY <1>2, <1>3

\* A handler says "ok" to a write that is stored.
LEMMA RepliesAreKept ==
    ASSUME SuccessInv, NEW h \in Handlers, Handle(h)
    PROVE  \/ UNCHANGED <<reply, conns>>
           \/ \E a : Replied(h, a) /\ (a = "ok" => Kept(h[1]))
<1>1. CASE TakeSlot(h) \/ Serve(h) \/ Proxy(h)
  BY <1>1 DEF TakeSlot, Serve, Proxy, connVars
<1>2. CASE Refuse(h) \/ ProxyTimeout(h)
  <2>1. PICK a \in {"error", "failed"} : Replied(h, a)
    BY <1>2 DEF Refuse, ProxyTimeout
  <2> QED BY <2>1 DEF Replies
<1>3. CASE ProxyReply(h)
  <2>1. PICK a \in Replies : Replied(h, a) /\ (a = "failed" \/ a = pending[h])
    BY <1>3 DEF ProxyReply, Replies
  <2> QED BY <2>1 DEF SuccessInv
<1>4. CASE Served(h)
  <2>1. Replied(h, answer[h]) /\ handler[h] = "asked" /\ call[h].at = "idle"
    BY <1>4 DEF Served
  <2>2. answer[h] = "ok" => Kept(h[1])
    BY <2>1 DEF SuccessInv, AskedIsKept, Kept
  <2> QED BY <2>1, <2>2
<1> QED BY <1>1, <1>2, <1>3, <1>4 DEF Handle

\* What couriers were told.
LEMMA RepliesStep ==
    ASSUME CommandsTyped, SuccessInv, [Next]_vars, NEW m \in Messages, reply'[m] = "ok"
    PROVE  Kept(m)
<1> USE DEF msgVars
<1>1. CASE UNCHANGED reply
  BY <1>1 DEF SuccessInv
<1>2. CASE \E h \in Handlers : Handle(h)
  <2>1. PICK h \in Handlers : Handle(h)
    BY <1>2
  <2>2. CASE UNCHANGED reply
    BY <2>2, <1>1
  <2>3. CASE \E a : Replied(h, a) /\ (a = "ok" => Kept(h[1]))
    <3>1. reply'[m] = reply[m] \/ (m = h[1] /\ Kept(h[1]))
      BY <2>3 DEF Replied, CommandsTyped, MessagesTyped
    <3> QED BY <3>1 DEF SuccessInv
  <2> QED BY <2>1, <2>2, <2>3, RepliesAreKept
<1>3. CASE \/ \E w \in Workers : Store(w) \/ StoreFault(w)
           \/ Weekly \/ Deliver \/ Publish
  BY <1>1, <1>3 DEF Store, StoreFault, Weekly, Deliver, Lookup, SendToChannel, Publish
<1>4. CASE \E l \in Links : Connection(l) \/ PeerLoop(l) \/ Break(l) \/ Undelivered(l)
  BY <1>1, <1>4 DEF Connection, Break, Undelivered, SpawnConn, Connect, DrainTake, DrainQueue, OnClosedConn,
                    Pace, EgressSend, EgressRecv, EgressFails, Reauthenticate, Left,
                    PeerLoop, TakeWrite, TakeMessage, WriteReply
<1>5. CASE \/ \E r \in Replicas : Retry(r) \/ Pki(r) \/ Boot(r) \/ Crash(r)
           \/ \E s \in sending : Panic(s)
  BY <1>1, <1>5 DEF Retry, ProcessRetryQueue, RetryNext, RetryEnds, Pki, Fetch, ProcessDocument,
                    RebalanceNext, RebalanceEnds, Boot, Crash, Dies, Restart, Panic
<1>6. CASE \/ \E m2 \in Messages : Arrive(m2)
           \/ \E h \in Handlers : CleanupExpiredRequests(h)
  BY <1>1, <1>6 DEF Arrive, CleanupExpiredRequests
<1>7. CASE UNCHANGED vars
  BY <1>1, <1>7 DEF vars
<1> QED BY <1>2, <1>3, <1>4, <1>5, <1>6, <1>7 DEF Next

\* A connection that changes forgets its reply, or keeps it with the command.
Quiet(k, k2) == k2.got = None \/ (k2.got = k.got /\ k2.wire = k.wire)

\* The updates of a connection object, once more.
LEMMA QuietField ==
    ASSUME NEW cmds, NEW k \in ConnType(cmds), NEW x
    PROVE  /\ Quiet(k, [k EXCEPT !.at = x])
           /\ Quiet(k, [k EXCEPT !.held = x])
<1>1. Quiet(k, [k EXCEPT !.at = x])
  BY DEF ConnType, Quiet
<1>2. Quiet(k, [k EXCEPT !.held = x])
  BY DEF ConnType, Quiet
<1> QED BY <1>1, <1>2

LEMMA QuietTake ==
    ASSUME NEW cmds, NEW k \in ConnType(cmds), NEW x, NEW y PROVE Quiet(k, [k EXCEPT !.held = x, !.ch = y])
BY DEF ConnType, Quiet

LEMMA QuietHold ==
    ASSUME NEW cmds, NEW k \in ConnType(cmds), NEW x, NEW y PROVE Quiet(k, [k EXCEPT !.ch = x, !.held = y])
BY DEF ConnType, Quiet

LEMMA QuietPass ==
    ASSUME NEW cmds, NEW k \in ConnType(cmds), NEW x, NEW y PROVE Quiet(k, [k EXCEPT !.ch = x, !.out = y])
BY DEF ConnType, Quiet

LEMMA QuietFree ==
    ASSUME NEW cmds, NEW k \in ConnType(cmds), NEW x, NEW y PROVE Quiet(k, [k EXCEPT !.held = x, !.out = y])
BY DEF ConnType, Quiet

LEMMA QuietLeave ==
    ASSUME NEW cmds, NEW k \in ConnType(cmds), NEW x, NEW y PROVE Quiet(k, [k EXCEPT !.at = x, !.held = y])
BY DEF ConnType, Quiet

LEMMA QuietSend ==
    ASSUME NEW cmds, NEW k \in ConnType(cmds), k.wire = None, NEW x, NEW y
    PROVE  Quiet(k, [k EXCEPT !.wire = x, !.out = y])
BY DEF ConnType, Quiet

LEMMA QuietEnd ==
    ASSUME NEW cmds, NEW k \in ConnType(cmds)
    PROVE  Quiet(k, [k EXCEPT !.wire = None, !.got = None])
BY DEF ConnType, Quiet

\* No step of a connection makes up a reply.
LEMMA ConnectionsStep ==
    ASSUME CommandsTyped, NEW l \in Links, Connection(l) \/ Break(l) \/ Undelivered(l), NEW i \in Links
    PROVE  Quiet(conns[i], conns'[i])
<1> DEFINE k == conns[l]
           k2 == conns'[l]
<1>1. conns \in [Links -> ConnType(LiveCommands)]
  BY DEF CommandsTyped, ConnsTyped
<1>2. CASE i # l
  BY <1>1, <1>2
     DEF Quiet, Connection, Break, Undelivered, SpawnConn, Connect, DrainTake, DrainQueue, OnClosedConn, Pace,
         EgressSend, EgressRecv, EgressFails, Reauthenticate, Left
<1>3. k \in ConnType(LiveCommands)
  BY <1>1
<1>4. CASE Connect(l) \/ DrainQueue(l) \/ Left(l) \/ Break(l)
  <2>1. Quiet(k, k2)
    <3>1. CASE Connect(l)
      BY <1>1, <1>3, <3>1, QuietField DEF Connect
    <3>2. CASE DrainQueue(l)
      BY <1>1, <1>3, <3>2, QuietField DEF DrainQueue
    <3>3. CASE Left(l)
      BY <1>1, <1>3, <3>3, QuietField DEF Left
    <3>4. CASE Break(l)
      BY <1>1, <1>3, <3>4, QuietField DEF Break
    <3> QED BY <1>4, <3>1, <3>2, <3>3, <3>4
  <2> QED BY <1>2, <2>1
<1>5. CASE SpawnConn(l) \/ OnClosedConn(l) \/ EgressFails(l)
  <2>1. Quiet(k, k2)
    <3>1. CASE SpawnConn(l)
      <4>1. k2 = [Closed EXCEPT !.at = "dialing"]
        BY <1>1, <3>1 DEF SpawnConn
      <4> QED BY <4>1 DEF Quiet, Closed
    <3>2. CASE OnClosedConn(l)
      <4>1. k2 = Closed
        BY <1>1, <3>2 DEF OnClosedConn
      <4> QED BY <4>1 DEF Quiet, Closed
    <3>3. CASE EgressFails(l)
      <4>1. k2 = [Closed EXCEPT !.at = "dialing", !.ch = k.ch]
        BY <1>1, <3>3 DEF EgressFails
      <4> QED BY <4>1 DEF Quiet, Closed
    <3> QED BY <1>5, <3>1, <3>2, <3>3
  <2> QED BY <1>2, <2>1
<1>6. CASE EgressSend(l)
  <2>1. Quiet(k, k2)
    BY <1>1, <1>3, <1>6, QuietSend DEF EgressSend
  <2> QED BY <1>2, <2>1
<1>7. CASE EgressRecv(l) \/ Undelivered(l)
  <2>1. Quiet(k, k2)
    BY <1>1, <1>3, <1>7, QuietEnd DEF EgressRecv, Undelivered
  <2> QED BY <1>2, <2>1
<1>8. CASE DrainTake(l)
  <2>1. Quiet(k, k2)
    BY <1>1, <1>3, <1>8, QuietField, QuietTake DEF DrainTake
  <2> QED BY <1>2, <2>1
<1>9. CASE Pace(l)
  <2>1. Quiet(k, k2)
    <3> DEFINE hd == Head(k.ch)
               tl == Tail(k.ch)
               one == Append(k.out, Head(k.ch))
               two == Append(k.out, k.held)
    <3>1. \/ k2 = [k EXCEPT !.ch = tl, !.out = one]
          \/ k2 = [k EXCEPT !.ch = tl, !.held = hd]
          \/ k2 = [k EXCEPT !.held = None, !.out = two]
      BY <1>1, <1>9 DEF Pace
    <3> HIDE DEF k, k2, hd, tl, one, two
    <3>2. CASE k2 = [k EXCEPT !.ch = tl, !.out = one]
      BY <1>3, <3>2, QuietPass
    <3>3. CASE k2 = [k EXCEPT !.ch = tl, !.held = hd]
      BY <1>3, <3>3, QuietHold
    <3>4. CASE k2 = [k EXCEPT !.held = None, !.out = two]
      BY <1>3, <3>4, QuietFree
    <3> QED BY <3>1, <3>2, <3>3, <3>4
  <2> QED BY <1>2, <2>1
<1>10. CASE Reauthenticate(l)
  <2>1. Quiet(k, k2)
    BY <1>1, <1>3, <1>10, QuietLeave DEF Reauthenticate
  <2> QED BY <1>2, <2>1
<1> QED BY <1>4, <1>5, <1>6, <1>7, <1>8, <1>9, <1>10 DEF Connection

\* The replies on the wire.
LEMMA WiresStep ==
    ASSUME CommandsTyped, SuccessInv, [Next]_vars, NEW i \in Links, conns'[i].got = "ok",
           conns'[i].wire.msg # None, NEW m \in Messages, conns'[i].wire.msg[1] = m
    PROVE  Kept(m)
<1> DEFINE k == conns[i]
           k2 == conns'[i]
<1>1. conns \in [Links -> ConnType(LiveCommands)] /\ k \in ConnType(LiveCommands)
  BY DEF CommandsTyped, ConnsTyped
<1>2. CASE Quiet(k, k2)
  <2>1. k2.got = k.got /\ k2.wire = k.wire
    BY <1>2, ReplicaAssumption DEF Quiet, Replies, Answers
  <2> QED BY <2>1 DEF SuccessInv, PassedOnIsKept
<1>3. CASE conns' = conns
  BY <1>3 DEF SuccessInv, PassedOnIsKept
<1>4. CASE \E l \in Links : Connection(l) \/ Break(l) \/ Undelivered(l)
  BY <1>2, <1>4, ConnectionsStep
<1>5. CASE \E l \in Links : PeerLoop(l)
  <2>1. PICK l \in Links : PeerLoop(l)
    BY <1>5
  <2>2. CASE i # l
    <3>1. k2 = k
      BY <1>1, <2>1, <2>2 DEF PeerLoop, TakeWrite, TakeMessage, WriteReply
    <3> QED BY <3>1, <1>2 DEF Quiet
  <2>3. CASE i = l
    <3>1. CASE TakeWrite(l) \/ TakeMessage(l)
      <4>1. k2 = [k EXCEPT !.got = "taken"]
        BY <1>1, <2>3, <3>1 DEF TakeWrite, TakeMessage
      <4>2. k2.got = "taken"
        BY <1>1, <4>1 DEF ConnType
      <4> QED BY <4>2
    <3>2. CASE WriteReply(l)
      <4>1. k2 = [k EXCEPT !.got = answer[l]] /\ k.wire.msg = None
        BY <1>1, <2>3, <3>2 DEF WriteReply
      <4>2. k2.wire = k.wire
        BY <1>1, <4>1 DEF ConnType
      <4> QED BY <4>1, <4>2
    <3> QED BY <2>1, <3>1, <3>2 DEF PeerLoop
  <2> QED BY <2>2, <2>3
<1>6. CASE \E h \in Handlers : Handle(h)
  <2>1. PICK h \in Handlers : Handle(h)
    BY <1>6
  <2>2. PICK a : conns' = conns \/ (Replied(h, a) /\ (a = "ok" => Kept(h[1])))
    BY <2>1, RepliesAreKept
  <2>3. CASE Replied(h, a) /\ (a = "ok" => Kept(h[1]))
    <3>1. k2 = k \/ (k2 = [k EXCEPT !.got = a] /\ k.wire.msg[1] = h[1])
      BY <2>3 DEF Replied
    <3>2. CASE k2 = [k EXCEPT !.got = a] /\ k.wire.msg[1] = h[1]
      <4>1. k2.got = a /\ k2.wire = k.wire
        BY <1>1, <3>2 DEF ConnType
      <4> QED BY <2>3, <3>2, <4>1
    <3> QED BY <1>2, <3>1, <3>2 DEF Quiet
  <2> QED BY <1>3, <2>2, <2>3
<1>7. ASSUME NEW r \in Replicas, Restart(r) PROVE Kept(m)
  <2>1. k2 = k \/ k2 = Closed \/ k2 = [k EXCEPT !.at = "failed", !.got = None]
    BY <1>7 DEF Restart
  <2>2. Closed.got = None
    BY DEF Closed
  <2>3. k2 = [k EXCEPT !.at = "failed", !.got = None] => k2.got = None
    BY <1>1 DEF ConnType
  <2> QED BY <1>2, <2>1, <2>2, <2>3 DEF Quiet
<1>8. CASE \E s \in sending : Panic(s)
  <2>1. PICK s \in sending : Panic(s)
    BY <1>8
  <2>2. s.link[1] \in Replicas
    BY WorkerFacts DEF CommandsTyped, ConnsTyped, SendingType
  <2> QED BY <1>7, <2>1, <2>2 DEF Panic
<1>9. CASE Deliver
  <2>1. PICK s \in sending : Lookup(s) \/ SendToChannel(s)
    BY <1>9 DEF Deliver
  <2>2. CASE Lookup(s)
    BY <1>3, <2>2 DEF Lookup, connVars
  <2>3. CASE SendToChannel(s)
    <3>1. k2 = k \/ k2 = [k EXCEPT !.ch = Append(@, s.cmd)]
      BY <1>1, <2>3 DEF SendToChannel
    <3> DEFINE q == Append(k.ch, s.cmd)
    <3>2. k2 = k \/ k2 = [k EXCEPT !.ch = q]
      BY <3>1
    <3> HIDE DEF q
    <3>3. k2 = [k EXCEPT !.ch = q] => k2.got = k.got /\ k2.wire = k.wire
      BY <1>1 DEF ConnType
    <3> QED BY <1>2, <3>2, <3>3 DEF Quiet
  <2> QED BY <2>1, <2>2, <2>3
<1>10. CASE \/ \E w \in Workers : Store(w) \/ StoreFault(w)
            \/ Weekly \/ Publish
  BY <1>3, <1>10 DEF Store, StoreFault, Weekly, Publish, connVars
<1>11. CASE \E r \in Replicas : Retry(r) \/ Pki(r) \/ Boot(r)
  BY <1>3, <1>11 DEF Retry, ProcessRetryQueue, RetryNext, RetryEnds, Pki, Fetch, ProcessDocument,
                     RebalanceNext, RebalanceEnds, Boot, connVars
<1>12. CASE \/ \E m2 \in Messages : Arrive(m2)
            \/ \E h \in Handlers : CleanupExpiredRequests(h)
  BY <1>3, <1>12 DEF Arrive, CleanupExpiredRequests, connVars
<1>13. CASE UNCHANGED vars
  BY <1>3, <1>13 DEF vars, connVars
<1>14. CASE \E r \in Replicas : Crash(r)
  BY <1>7, <1>14 DEF Crash, Dies
<1> QED BY <1>4, <1>5, <1>6, <1>8, <1>9, <1>10, <1>11, <1>12, <1>13, <1>14 DEF Next

\* What a handler that proxies was told.
LEMMA PendingStep ==
    ASSUME CommandsTyped, SuccessInv, [Next]_vars, NEW h \in Handlers, pending'[h] = "ok"
    PROVE  Kept(h[1])
<1> USE DEF msgVars
<1>1. CASE UNCHANGED pending
  BY <1>1 DEF SuccessInv
<1>2. pending \in [Handlers -> Replies \cup {"none", "open", "closed"}]
  BY DEF CommandsTyped, MessagesTyped
<1>3. CASE \E l \in Links : EgressRecv(l)
  <2>1. PICK l \in Links : EgressRecv(l)
    BY <1>3
  <2> DEFINE k == conns[l]
  <2>2. pending'[h] = pending[h] \/ (pending'[h] = k.got /\ k.wire.msg = h)
    BY <1>2, <2>1 DEF EgressRecv
  <2>3. CASE pending'[h] = k.got /\ k.wire.msg = h
    BY <2>3, WorkerFacts DEF SuccessInv, PassedOnIsKept
  <2> QED BY <2>2, <2>3 DEF SuccessInv
<1>4. CASE \/ \E g \in Handlers : Handle(g) \/ CleanupExpiredRequests(g)
  <2>1. PICK g \in Handlers : Handle(g) \/ CleanupExpiredRequests(g)
    BY <1>4
  <2>2. pending' = pending \/ pending' = [pending EXCEPT ![g] = "open"]
        \/ pending' = [pending EXCEPT ![g] = "closed"]
    BY <2>1 DEF Handle, TakeSlot, Refuse, Serve, Served, Proxy, ProxyReply, ProxyTimeout, CleanupExpiredRequests
  <2> QED BY <1>2, <2>2 DEF SuccessInv
<1>5. ASSUME NEW r \in Replicas, Restart(r) PROVE Kept(h[1])
  <2>1. pending'[h] = "none" \/ pending'[h] = pending[h]
    BY <1>5 DEF Restart
  <2> QED BY <2>1 DEF SuccessInv
<1>6. CASE \E s \in sending : Panic(s)
  <2>1. PICK s \in sending : Panic(s)
    BY <1>6
  <2>2. s.link[1] \in Replicas
    BY WorkerFacts DEF CommandsTyped, ConnsTyped, SendingType
  <2> QED BY <1>5, <2>1, <2>2 DEF Panic
<1>7. CASE \/ \E w \in Workers : Store(w) \/ StoreFault(w)
           \/ Weekly \/ Deliver \/ Publish
  BY <1>1, <1>7 DEF Store, StoreFault, Weekly, Deliver, Lookup, SendToChannel, Publish
<1>8. CASE \E l \in Links : (Connection(l) /\ ~EgressRecv(l)) \/ PeerLoop(l) \/ Break(l) \/ Undelivered(l)
  BY <1>1, <1>8 DEF Connection, Break, Undelivered, SpawnConn, Connect, DrainTake, DrainQueue, OnClosedConn,
                    Pace, EgressSend, EgressFails, Reauthenticate, Left,
                    PeerLoop, TakeWrite, TakeMessage, WriteReply
<1>9. CASE \E r \in Replicas : Retry(r) \/ Pki(r) \/ Boot(r)
  BY <1>1, <1>9 DEF Retry, ProcessRetryQueue, RetryNext, RetryEnds, Pki, Fetch, ProcessDocument,
                    RebalanceNext, RebalanceEnds, Boot
<1>10. CASE \E m2 \in Messages : Arrive(m2)
  BY <1>1, <1>10 DEF Arrive
<1>11. CASE UNCHANGED vars
  BY <1>1, <1>11 DEF vars
<1>12. CASE \E r \in Replicas : Crash(r)
  BY <1>5, <1>12 DEF Crash, Dies
<1> QED BY <1>3, <1>4, <1>6, <1>7, <1>8, <1>9, <1>10, <1>11, <1>12 DEF Next

\* A put shows what was put, as long as no record is old.
LEMMA PutShows ==
    ASSUME StoreInv, NEW w \in Workers, Put(w), epoch <= 1,
           NEW r \in Replicas, NEW b \in Boxes, NEW v, r = Home[w], call[w].box = b, call[w].value = v
    PROVE  Visible(r, b)' = v
<1> DEFINE cur == call[w].cur
<1>1. /\ epoch' = epoch /\ epoch \in Nat /\ epoch \in Epochs /\ cur \in Epochs /\ cur \in Nat
      /\ cur <= epoch /\ v # None
  BY StoreAssumption DEF StoreInv, StoreTypeOK, Put, PutIsSafe, Epochs
<1>2. /\ db'[r][cur][b] = v
      /\ \A e \in Epochs : e # cur => db'[r][e][b] = db[r][e][b]
  BY <1>1 DEF StoreInv, StoreTypeOK, Put
<1>3. \A e \in Epochs : e > cur => db[r][e][b] = None
  BY DEF StoreInv, PutIsSafe, Put
<1> HIDE DEF cur
<1>4. CASE cur = epoch
  BY <1>1, <1>2, <1>4 DEF Visible, Found
<1>5. CASE cur # epoch
  <2>1. epoch = 1 /\ cur = 0
    BY <1>1, <1>5
  <2>2. db'[r][1][b] = None
    BY <1>1, <1>2, <1>3, <2>1
  <2> QED BY <1>1, <1>2, <2>1, <2>2 DEF Visible, Found
<1> QED BY <1>4, <1>5

\* A write that is under way stays the same write; one that succeeds is visible.
LEMMA WriteStep ==
    ASSUME StoreInv, NEW w \in Workers, StoreStep(w), call[w].kind = "write",
           NEW r \in Replicas, NEW b \in Boxes, NEW v, r = Home[w], call[w].box = b, call[w].value = v
    PROVE  \/ /\ call'[w].at # "idle" /\ call'[w].kind = "write"
              /\ call'[w].box = b /\ call'[w].value = v
           \/ /\ call'[w].at = "idle"
              /\ answer'[w] = "ok" /\ epoch' <= 1 => Visible(r, b)' = v
<1> DEFINE c == call[w]
<1>1. call \in [Workers -> CallType] /\ answer \in [Workers -> Answers] /\ CallIsSane(w)
  BY DEF StoreInv, StoreTypeOK, CallType
<1>2. CASE Check(w)
  <2>1. CASE call' = [call EXCEPT ![w].at = "put", ![w].cur = epoch]
    <3>1. call' = [call EXCEPT ![w] = [c EXCEPT !.at = "put", !.cur = epoch]]
      BY <1>1, <2>1 DEF CallType
    <3>2. call'[w] = [c EXCEPT !.at = "put", !.cur = epoch]
      BY <1>1, <3>1
    <3>3. c \in CallType /\ c.kind = "write" /\ c.box = b /\ c.value = v
      BY <1>1
    <3> HIDE DEF c
    <3>4. call'[w].at = "put" /\ call'[w].kind = c.kind /\ call'[w].box = c.box /\ call'[w].value = c.value
      BY <3>2, <3>3 DEF CallType
    <3> QED BY <3>3, <3>4
  <2>2. CASE Return(w, Refusal(Found(r, b, epoch), v))
    <3>1. call'[w].at = "idle" /\ answer'[w] = Refusal(Found(r, b, epoch), v)
      BY <1>1, <2>2, IdleType DEF Return
    <3>2. answer'[w] = "ok" => Visible(r, b) = v
      BY <3>1 DEF Refusal, Visible
    <3>3. UNCHANGED <<db, epoch>>
      BY <1>2 DEF Check
    <3>4. Visible(r, b)' = Visible(r, b)
      BY <3>3 DEF Visible, Found
    <3> QED BY <3>1, <3>2, <3>4
  <2> QED BY <1>2, <2>1, <2>2 DEF Check
<1>3. CASE Put(w)
  <2>1. call'[w].at = "idle" /\ epoch' = epoch
    BY <1>1, <1>3, IdleType DEF Put, Return
  <2> QED BY <1>3, <2>1, PutShows
<1>4. CASE Read(w) \/ ReadOlder(w)
  BY <1>1, <1>4 DEF CallIsSane, Read, ReadOlder
<1> QED BY <1>2, <1>3, <1>4 DEF StoreStep

\* A handler that is not asking, or whose call and answer stay.
LEMMA AskedStays ==
    ASSUME StoreInv, CommandsTyped, [Next]_vars, NEW h \in Handlers, AskedIsKept(h),
           \/ handler'[h] # "asked"
           \/ handler'[h] = handler[h] /\ call'[h] = call[h] /\ answer'[h] = answer[h]
    PROVE  AskedIsKept(h)'
<1>1. request' = request
  BY ScenarioStays DEF request
<1>2. h[1] \in Messages /\ h[2] \in Replicas
  BY WorkerFacts
<1>3. request[h[1]].kind = "write" /\ KeptOn(h[2], h[1]) => KeptOn(h[2], h[1])'
  BY <1>2, KeptOnStays
<1> QED BY <1>1, <1>3 DEF AskedIsKept

\* The store works on a write that is asked for.
LEMMA AskedIsServed ==
    ASSUME StoreInv, CommandsTyped, [Next]_vars, NEW h \in Handlers, AskedIsKept(h), Store(h)
    PROVE  AskedIsKept(h)'
<1> DEFINE m == h[1]
           r == h[2]
<1>1. request' = request /\ handler' = handler
  BY ScenarioStays DEF request, Store, msgVars
<1>2. m \in Messages /\ r \in Replicas /\ h \in Workers /\ Home[h] = r
  BY WorkerFacts
<1>3. CASE ~(handler[h] = "asked" /\ request[m].kind = "write")
  BY <1>1, <1>3 DEF AskedIsKept
<1>4. CASE handler[h] = "asked" /\ request[m].kind = "write"
  <2>1. PICK b \in Boxes, v \in Values : b = request[m].box /\ v = request[m].value
    BY <1>2, <1>4, RequestFacts DEF Requests, CommandsTyped
  <2>2. call[h].at # "idle"
    BY DEF Store, StoreStep, Check, Put, Read, ReadOlder
  <2>3. r \in ShardsOf[b] /\ call[h].kind = "write" /\ call[h].box = b /\ call[h].value = v
    BY <1>4, <2>1, <2>2 DEF AskedIsKept
  <2>4. \/ /\ call'[h].at # "idle" /\ call'[h].kind = "write"
           /\ call'[h].box = b /\ call'[h].value = v
        \/ /\ call'[h].at = "idle"
           /\ answer'[h] = "ok" /\ epoch' <= 1 => Visible(r, b)' = v
    BY <1>2, <2>1, <2>3, WriteStep DEF Store
  <2>5. Visible(r, b)' = Visible(r, request[m].box)'
    BY <1>1, <2>1
  <2> QED BY <1>1, <2>1, <2>3, <2>4, <2>5 DEF AskedIsKept, KeptOn
<1> QED BY <1>3, <1>4

\* A shard that serves a write asks its store for that write.
LEMMA ServeAsks ==
    ASSUME StoreInv, CommandsTyped, [Next]_vars, NEW h \in Handlers, Serve(h)
    PROVE  AskedIsKept(h)'
<1> DEFINE q == request[h[1]]
<1>1. request' = request
  BY ScenarioStays DEF request
<1>2. h[1] \in Messages /\ h[2] \in Replicas /\ h \in Workers /\ q \in Requests
  BY WorkerFacts, RequestFacts DEF CommandsTyped
<1>3. h[2] \in ShardsOf[q.box]
  BY DEF Serve, Shards, GetShards
<1>4. call \in [Workers -> CallType] /\ answer \in [Workers -> Answers] /\ call[h].at = "idle"
  BY DEF StoreInv, StoreTypeOK, CallType, Serve, Call
<1>5. CASE answer' = [answer EXCEPT ![h] = "full"] /\ UNCHANGED call
  BY <1>1, <1>2, <1>3, <1>4, <1>5 DEF AskedIsKept
<1>6. CASE call' = [call EXCEPT ![h] =
                  [at |-> IF q.kind = "read" THEN "read" ELSE "lock", kind |-> q.kind,
                   box |-> q.box, value |-> q.value, cur |-> 0]]
  <2>1. call'[h].at # "idle" /\ call'[h].kind = q.kind /\ call'[h].box = q.box /\ call'[h].value = q.value
    BY <1>2, <1>4, <1>6
  <2> QED BY <1>1, <1>3, <2>1 DEF AskedIsKept
<1> QED BY <1>5, <1>6 DEF Serve, Call

\* A database that fails is no success.
LEMMA FaultIsNoSuccess ==
    ASSUME StoreInv, CommandsTyped, [Next]_vars, NEW h \in Handlers, AskedIsKept(h), DatabaseFails(h),
           handler' = handler
    PROVE  AskedIsKept(h)'
<1>1. request' = request
  BY ScenarioStays DEF request
<1>2. call'[h].at = "idle" /\ answer'[h] = "dbFailure"
  BY WorkerFacts, IdleType DEF StoreInv, StoreTypeOK, DatabaseFails, Return
<1> QED BY <1>1, <1>2 DEF AskedIsKept, DatabaseFails

\* Every step keeps what is said of a handler that asks.
LEMMA AskedStep ==
    ASSUME StoreInv, CommandsTyped, SuccessInv, [Next]_vars, NEW h \in Handlers
    PROVE  AskedIsKept(h)'
<1>1. AskedIsKept(h) /\ h \in Workers /\ h \notin Links
  BY WorkerFacts DEF SuccessInv
<1>2. /\ handler \in [Handlers -> {"idle", "waiting", "running", "asked", "proxying", "done"}]
      /\ DOMAIN call = Workers /\ DOMAIN answer = Workers
  BY DEF CommandsTyped, MessagesTyped, StoreInv, StoreTypeOK
<1> USE DEF storeVars
<1>3. CASE \E w \in Workers : Store(w)
  <2>1. PICK w \in Workers : Store(w)
    BY <1>3
  <2>2. CASE w = h
    BY <1>1, <2>1, <2>2, AskedIsServed
  <2>3. CASE w # h
    <3>1. call'[h] = call[h] /\ answer'[h] = answer[h] /\ handler' = handler
      BY <1>1, <1>2, <2>1, <2>3 DEF Store, StoreStep, Check, Put, Read, ReadOlder, Return, msgVars
    <3> QED BY <1>1, <3>1, AskedStays
  <2> QED BY <2>2, <2>3
<1>4. CASE \E w \in Workers : StoreFault(w)
  <2>1. PICK w \in Workers : StoreFault(w)
    BY <1>4
  <2>2. CASE w = h /\ DatabaseFails(w)
    BY <1>1, <2>1, <2>2, FaultIsNoSuccess DEF StoreFault, msgVars
  <2>3. CASE w # h \/ ~DatabaseFails(w)
    <3>1. call'[h] = call[h] /\ answer'[h] = answer[h] /\ handler' = handler
      BY <1>1, <1>2, <2>1, <2>3 DEF StoreFault, DatabaseFails, RefreshStorageFull, Return, msgVars
    <3> QED BY <1>1, <3>1, AskedStays
  <2> QED BY <2>2, <2>3
<1>5. CASE \E g \in Handlers : Handle(g)
  <2>1. PICK g \in Handlers : Handle(g)
    BY <1>5
  <2>2. CASE g # h
    <3>1. handler'[h] = handler[h]
      BY <1>2, <2>1, <2>2 DEF Handle, TakeSlot, Refuse, Serve, Served, Proxy, ProxyReply, ProxyTimeout, Replied
    <3>2. call'[h] = call[h] /\ answer'[h] = answer[h]
      BY <1>1, <1>2, <2>1, <2>2, WorkerFacts
         DEF Handle, TakeSlot, Refuse, Serve, Served, Proxy, ProxyReply, ProxyTimeout, Call
    <3> QED BY <1>1, <3>1, <3>2, AskedStays
  <2>3. CASE g = h /\ Serve(h)
    BY <2>3, ServeAsks
  <2>4. CASE g = h /\ ~Serve(h)
    <3>1. handler'[h] # "asked"
      BY <1>2, <2>1, <2>4 DEF Handle, TakeSlot, Refuse, Served, Proxy, ProxyReply, ProxyTimeout, Replied
    <3> QED BY <1>1, <3>1, AskedStays
  <2> QED BY <2>1, <2>2, <2>3, <2>4
<1>6. CASE \E l \in Links : PeerLoop(l)
  <2>1. PICK l \in Links : PeerLoop(l)
    BY <1>6
  <2>2. call'[h] = call[h] /\ answer'[h] = answer[h]
    BY <1>1, <1>2, <2>1 DEF PeerLoop, TakeWrite, TakeMessage, WriteReply, Call
  <2>3. handler'[h] = handler[h] \/ handler'[h] = "waiting"
    BY <1>2, <2>1 DEF PeerLoop, TakeWrite, TakeMessage, WriteReply, msgVars
  <2> QED BY <1>1, <2>2, <2>3, AskedStays
<1>7. ASSUME NEW r \in Replicas, Restart(r) PROVE AskedIsKept(h)'
  <2>1. CASE h[2] = r
    BY <1>1, <1>7, <2>1, AskedStays DEF Restart
  <2>2. CASE h[2] # r
    BY <1>1, <1>7, <2>2, WorkerFacts, AskedStays DEF Restart, StoreCrash
  <2> QED BY <2>1, <2>2
<1>8. CASE \E r \in Replicas : Crash(r)
  BY <1>7, <1>8 DEF Crash, Dies
<1>9. CASE \E s \in sending : Panic(s)
  <2>1. PICK s \in sending : Panic(s)
    BY <1>9
  <2>2. s.link[1] \in Replicas
    BY WorkerFacts DEF CommandsTyped, ConnsTyped, SendingType
  <2> QED BY <1>7, <2>1, <2>2 DEF Panic
<1>10. CASE UNCHANGED <<handler, call, answer>>
  BY <1>1, <1>10, AskedStays
<1>11. CASE Weekly \/ Deliver \/ Publish
  BY <1>10, <1>11 DEF Weekly, NextEpoch, WipeStaleBoxes, Deliver, Lookup, SendToChannel, Publish, msgVars
<1>12. CASE \E l \in Links : Connection(l) \/ Break(l) \/ Undelivered(l)
  BY <1>10, <1>12 DEF Connection, Break, Undelivered, SpawnConn, Connect, DrainTake, DrainQueue, OnClosedConn,
                      Pace, EgressSend, EgressRecv, EgressFails, Reauthenticate, Left, msgVars
<1>13. CASE \E r \in Replicas : Retry(r) \/ Pki(r) \/ Boot(r)
  BY <1>10, <1>13 DEF Retry, ProcessRetryQueue, RetryNext, RetryEnds, Pki, Fetch, ProcessDocument,
                      RebalanceNext, RebalanceEnds, Boot, msgVars
<1>14. CASE \E m \in Messages : Arrive(m)
  <2>1. handler'[h] = handler[h] \/ handler'[h] = "waiting"
    BY <1>2, <1>14 DEF Arrive
  <2>2. UNCHANGED <<call, answer>>
    BY <1>14 DEF Arrive
  <2> QED BY <1>1, <2>1, <2>2, AskedStays
<1>15. CASE \E g \in Handlers : CleanupExpiredRequests(g)
  BY <1>10, <1>15 DEF CleanupExpiredRequests
<1>16. CASE UNCHANGED vars
  BY <1>10, <1>16 DEF vars, msgVars
<1> QED BY <1>3, <1>4, <1>5, <1>6, <1>8, <1>9, <1>11, <1>12, <1>13, <1>14, <1>15, <1>16 DEF Next

(* ----------------------------------- the theorems --------------------------------- *)

LEMMA InitSuccess == Init => SuccessInv
<1> SUFFICES ASSUME Init PROVE SuccessInv
  OBVIOUS
<1>1. \A l \in Links : conns[l].got = None
  BY DEF Init, Closed
<1> QED BY <1>1, ReplicaAssumption, WorkerFacts
       DEF Init, SuccessInv, AskedIsKept, PassedOnIsKept, Replies, Answers

LEMMA SuccessStep ==
    ASSUME StoreInv, CommandsTyped, SuccessInv, [Next]_vars
    PROVE  SuccessInv'
<1>1. CommandsTyped'
  BY CommandsStep
<1>2. ASSUME NEW h \in Handlers PROVE AskedIsKept(h)'
  BY <1>2, AskedStep
<1>3. ASSUME NEW h \in Handlers, pending'[h] = "ok" PROVE Kept(h[1])'
  BY <1>3, PendingStep, KeptStays, WorkerFacts
<1>4. ASSUME NEW m \in Messages, reply'[m] = "ok" PROVE Kept(m)'
  BY <1>4, RepliesStep, KeptStays
<1>5. ASSUME NEW l \in Links PROVE PassedOnIsKept(conns[l])'
  <2>1. SUFFICES ASSUME conns'[l].got = "ok", conns'[l].wire.msg # None
                 PROVE  Kept(conns[l].wire.msg[1])'
    BY DEF PassedOnIsKept
  <2>2. conns'[l].wire \in LiveCommands'
    BY <1>1, <2>1, ReplicaAssumption DEF CommandsTyped, ConnsTyped, ConnType, Replies, Answers
  <2>3. LiveCommands' = LiveCommands
    BY SameCommands, ScenarioStays
  <2>4. conns'[l].wire.msg \in Handlers
    BY <2>1, <2>2, <2>3, CommandFacts
  <2>5. PICK m \in Messages : m = conns'[l].wire.msg[1]
    BY <2>4, WorkerFacts
  <2>6. Kept(m)
    BY <2>1, <2>5, WiresStep
  <2>7. Kept(m)'
    BY <2>6, KeptStays
  <2> QED BY <2>5, <2>7 DEF Kept, KeptOn
<1> QED BY <1>2, <1>3, <1>4, <1>5 DEF SuccessInv

LEMMA SuccessFollows ==
    ASSUME SuccessInv PROVE SuccessIsStored
BY DEF SuccessInv, Kept, KeptOn, SuccessIsStored

(* A write of which a courier was told "ok" is on a shard of its box until it is erased or its
   epochs are over, for any replicas, messages, queues, slots, documents and failures. *)
THEOREM SuccessesAreStored == Spec => []SuccessIsStored
<1>1. StoreInv /\ CommandsTyped /\ SuccessInv /\ [Next]_vars => SuccessInv'
  BY SuccessStep
<1>2. SuccessInv => SuccessIsStored
  BY SuccessFollows
<1> QED BY <1>1, <1>2, InitSuccess, CommandsHold, PTL DEF Spec

(* "writes are immutable" (replica/state.go:98) holds of the replicas as they run: what couriers
   write, what the replicas send each other, repeat and copy, and what a crash interrupts, comes
   to the store by the steps of StoreNext only, so what is proved of it is true of them. *)
THEOREM ReplicasKeepWrites == Spec => WrittenOnce
BY StoreIsUsed, WritesAreImmutable, PTL
==================================================================================
