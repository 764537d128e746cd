------------------------------- MODULE ReplicaStore ------------------------------
(* The box store of a storage replica (replica/state.go, state_gc.go): what is written
   under a box ID, once, and for how long it can be read.

   Records are filed by replica epoch (a week) and box; reads and existence checks look
   at the current epoch and the one before it, newest first. Goroutines check and put
   under a lock of the box, read without it, and take the epoch from the clock once, so
   that a put may land in an epoch that is over. RocksDB keeps what it has put across
   a crash. All replicas share one clock.

   Abstracted: a payload and its signature are one value; a record that does not parse
   is an error of the database. Signatures are checked before the store is called.    *)
EXTENDS Naturals, FiniteSets

CONSTANTS Replicas, Boxes,
          Payloads,     \* what may be written under a box
          Workers,      \* goroutines that call the store
          Home,         \* the replica each of them runs on
          Tombstone,    \* the empty payload
          None,         \* no record; no goroutine
          MaxEpoch      \* bound: replica epochs

ASSUME StoreAssumption ==
    /\ Home \in [Workers -> Replicas] /\ MaxEpoch \in Nat /\ Boxes # {}
    /\ None \notin Payloads \cup {Tombstone} \cup Workers /\ Tombstone \notin Payloads

VARIABLES epoch,        \* the replica epoch
          db,           \* the records of each replica
          boxLocks,     \* who holds the lock of a box
          storageFull,  \* the flag of the storage watcher
          call,         \* what each goroutine asks of the store, and how far it is
          answer        \* what it was told

storeVars == <<epoch, db, boxLocks, storageFull, call, answer>>

Epochs  == 0..MaxEpoch
Values  == Payloads \cup {Tombstone}
Answers == {"pending", "ok", "exists", "full", "notFound", "tombstone", "dbFailure"}
Idle    == [at |-> "idle", kind |-> "read", box |-> CHOOSE b \in Boxes : TRUE,
            value |-> None, cur |-> 0]

StoreTypeOK ==
    /\ epoch \in Epochs
    /\ db \in [Replicas -> [Epochs -> [Boxes -> Values \cup {None}]]]
    /\ boxLocks \in [Replicas -> [Boxes -> Workers \cup {None}]]
    /\ storageFull \in [Replicas -> BOOLEAN]
    /\ call \in [Workers -> [at : {"idle", "lock", "put", "read", "readOlder"},
                             kind : {"read", "write"}, box : Boxes,
                             value : Values \cup {None}, cur : Epochs]]
    /\ answer \in [Workers -> Answers]

StoreInit ==
    /\ epoch = 0
    /\ db = [r \in Replicas |-> [e \in Epochs |-> [b \in Boxes |-> None]]]
    /\ boxLocks = [r \in Replicas |-> [b \in Boxes |-> None]]
    /\ storageFull = [r \in Replicas |-> FALSE]
    /\ call = [w \in Workers |-> Idle] /\ answer = [w \in Workers |-> "pending"]

\* The first record found in the kept epochs, newest epoch first.
Found(r, b, cur) ==
    IF db[r][cur][b] # None THEN db[r][cur][b]
    ELSE IF cur > 0 THEN db[r][cur - 1][b] ELSE None

\* What a read that ran at once would find.
Visible(r, b) == Found(r, b, epoch)

(* ------------------------------------- calls ------------------------------------- *)

\* The entry of handleReplicaWrite, handleReplicaTombstone, stateHandleReplicaRead: a
\* write is refused when storage is short, a tombstone never is.
Call(w, kind, b, v) ==
    /\ call[w].at = "idle"
    /\ IF kind = "write" /\ v # Tombstone /\ storageFull[Home[w]]
       THEN answer' = [answer EXCEPT ![w] = "full"] /\ UNCHANGED call
       ELSE /\ call' = [call EXCEPT ![w] =
                  [at |-> IF kind = "read" THEN "read" ELSE "lock", kind |-> kind,
                   box |-> b, value |-> v, cur |-> 0]]
            /\ answer' = [answer EXCEPT ![w] = "pending"]
    /\ UNCHANGED <<epoch, db, boxLocks, storageFull>>

Return(w, a) ==
    /\ call' = [call EXCEPT ![w] = Idle]
    /\ answer' = [answer EXCEPT ![w] = a]

(* Fault: goroutines share the lock of a box. *)
FaultyLockFree(r, b) == TRUE

LockFree(r, b) == boxLocks[r][b] = None

(* Fault: a box that is taken passes for written. *)
FaultyRefusal(old, v) == "ok"

Refusal(old, v) == IF old = v THEN "ok" ELSE "exists"

\* acquireBoxLock, the epoch, and the check of what is stored: the same record again is
\* accepted, another one refused.
Check(w) ==
    LET c == call[w]
        r == Home[w]
        old == Found(r, c.box, epoch) IN
    /\ c.at = "lock" /\ LockFree(r, c.box)
    /\ \/ /\ c.value = Tombstone \/ old = None
          /\ boxLocks' = [boxLocks EXCEPT ![r][c.box] = w]
          /\ call' = [call EXCEPT ![w].at = "put", ![w].cur = epoch]
          /\ UNCHANGED answer
       \/ /\ c.value # Tombstone /\ old # None
          /\ Return(w, Refusal(old, c.value))
          /\ UNCHANGED boxLocks
    /\ UNCHANGED <<epoch, db, storageFull>>

\* The put, in the epoch read before, and releaseBoxLock.
Put(w) ==
    LET c == call[w]
        r == Home[w] IN
    /\ c.at = "put"
    /\ db' = [db EXCEPT ![r][c.cur][c.box] = c.value]
    /\ Return(w, "ok")
    /\ boxLocks' = [boxLocks EXCEPT ![r][c.box] = None]
    /\ UNCHANGED <<epoch, storageFull>>

ReadAnswer(v) == IF v = Tombstone THEN "tombstone" ELSE "ok"

\* The two lookups of a read: the record of the current epoch, then the older one.
Read(w) ==
    LET c == call[w]
        new == db[Home[w]][epoch][c.box] IN
    /\ c.at = "read"
    /\ IF new # None THEN Return(w, ReadAnswer(new))
       ELSE IF epoch = 0 THEN Return(w, "notFound")
       ELSE call' = [call EXCEPT ![w].at = "readOlder", ![w].cur = epoch] /\ UNCHANGED answer
    /\ UNCHANGED <<epoch, db, boxLocks, storageFull>>

ReadOlder(w) ==
    LET c == call[w]
        old == db[Home[w]][c.cur - 1][c.box] IN
    /\ c.at = "readOlder"
    /\ Return(w, IF old = None THEN "notFound" ELSE ReadAnswer(old))
    /\ UNCHANGED <<epoch, db, boxLocks, storageFull>>

\* RocksDB fails a lookup or the put; the lock of the box, if held, is released.
DatabaseFails(w) ==
    LET c == call[w]
        r == Home[w] IN
    /\ \/ c.at \in {"put", "read", "readOlder"}
       \/ c.at = "lock" /\ c.value # Tombstone /\ LockFree(r, c.box)
    /\ boxLocks' = [boxLocks EXCEPT ![r][c.box] = IF @ = w THEN None ELSE @]
    /\ Return(w, "dbFailure")
    /\ UNCHANGED <<epoch, db, storageFull>>

StoreStep(w) == Check(w) \/ Put(w) \/ Read(w) \/ ReadOlder(w)

(* ----------------------------- workers of the replica ---------------------------- *)

\* WipeStaleBoxes, by the GC worker and at the start.
WipeStaleBoxes(r) ==
    /\ \E e \in Epochs, b \in Boxes : e + 1 < epoch /\ db[r][e][b] # None
    /\ db' = [db EXCEPT ![r] = [e \in Epochs |-> [b \in Boxes |->
                 IF e + 1 < epoch THEN None ELSE db[r][e][b]]]]
    /\ UNCHANGED <<epoch, boxLocks, storageFull, call, answer>>

\* refreshStorageFull: the database grows, is compacted, and shares its disk.
RefreshStorageFull(r) ==
    /\ storageFull' = [storageFull EXCEPT ![r] = ~@]
    /\ UNCHANGED <<epoch, db, boxLocks, call, answer>>

NextEpoch ==
    /\ epoch < MaxEpoch /\ epoch' = epoch + 1
    /\ UNCHANGED <<db, boxLocks, storageFull, call, answer>>

\* The process dies and comes back with what was put, on the disk it had.
StoreCrash(r) ==
    /\ call' = [w \in Workers |-> IF Home[w] = r THEN Idle ELSE call[w]]
    /\ answer' = [w \in Workers |-> IF Home[w] = r THEN "pending" ELSE answer[w]]
    /\ boxLocks' = [boxLocks EXCEPT ![r] = [b \in Boxes |-> None]]
    /\ UNCHANGED <<epoch, db, storageFull>>

(* The store with callers that may ask anything at any time: what is proved of it holds
   for every module that reaches the store by these steps only. *)
StoreNext ==
    \/ \E w \in Workers :
          \/ StoreStep(w) \/ DatabaseFails(w)
          \/ \E b \in Boxes : Call(w, "read", b, None) \/ \E v \in Values : Call(w, "write", b, v)
    \/ \E r \in Replicas : WipeStaleBoxes(r) \/ RefreshStorageFull(r) \/ StoreCrash(r)
    \/ NextEpoch

StoreSpec == StoreInit /\ [][StoreNext]_storeVars

(* ----------------------------------- properties ---------------------------------- *)

(* "writes are immutable" (replica/state.go:98): what a replica shows of a box changes
   only from nothing to a record, from a record to its tombstone, and to nothing when
   the epoch moves on: never to another payload, and never from a tombstone back to
   what it erased, whoever writes at the same time and whenever the epoch changes. *)
WrittenOnce ==
    [][\A r \in Replicas, b \in Boxes :
          LET old == Visible(r, b)
              new == Visible(r, b)' IN
          old # new => \/ old = None
                       \/ new = Tombstone
                       \/ new = None /\ epoch' # epoch]_storeVars
=================================================================================
