------------------------------ MODULE WireSession ------------------------------
(***************************************************************************)
(* A session of the wire protocol between two peers (core/wire/session.go): *)
(* the handshake in four messages, the finalisation, and the commands that  *)
(* goroutines on either side send.  The direction of a stream has a cipher  *)
(* state, a key and a nonce, of which both sides keep a copy; they agree as *)
(* long as both encrypt and decrypt the same parts in the same order.       *)
(***************************************************************************)
EXTENDS Integers, Sequences, FiniteSets

CONSTANTS Senders,     \* goroutines that call SendCommand
          Home,        \* sender -> the side it is on
          MaxSends     \* commands each of them sends

Sides == {"initiator", "responder"}

ASSUME SessionAssumption ==
    /\ Home \in [Senders -> Sides] /\ MaxSends \in [Senders -> Nat]
    /\ Sides \cap Senders = {}

VARIABLES valid,       \* IsPeerValid of each side
          step,        \* what each side does in Initialize: the message it is at, or the outcome
          state,       \* Session.state
          tx, rx,      \* the cipher states
          stream,      \* what each side has written and its peer not read
          open,        \* is the connection open
          calls,       \* the calls of SendCommand: where they are, and toSend
          sends,       \* how many commands each goroutine has still to send
          recv,        \* how far the call of RecvCommand has come that each side makes
          closing,     \* how far Close has come on each side, and what was written when it began
          written,     \* the commands each side has written and its peer can read, in that order
          read,        \* the commands each side has read
          garbled      \* the sides that could not decrypt what their peer had written

wireVars == <<valid, step, state, tx, rx, stream, open, calls, sends, recv, closing, written, read,
              garbled>>

Peer(s)  == IF s = "initiator" THEN "responder" ELSE "initiator"
Callers  == Senders \cup Sides              \* the sides themselves send the NoOp
HomeOf(c) == IF c \in Sides THEN c ELSE Home[c]
Failed   == 0     \* a side is at a message, or
Finalize == 5     \* ... where the responder sends a NoOp and the initiator waits for it,
Ready    == 6     \* ... has returned from Initialize,
Closed   == 7     \* ... has closed the session
Fresh    == [key |-> 0, nonce |-> 0]
Idle     == [at |-> "idle", toSend |-> <<>>]
NotClosing == [at |-> "no", sent |-> 0]

SessionInit ==
    /\ valid \in [Sides -> BOOLEAN]
    /\ step = [s \in Sides |-> 1] /\ state = [s \in Sides |-> "init"]
    /\ tx = [s \in Sides |-> Fresh] /\ rx = [s \in Sides |-> Fresh]
    /\ stream = [s \in Sides |-> <<>>] /\ open = TRUE
    /\ calls = [c \in Callers |-> Idle] /\ sends = MaxSends
    /\ recv = [s \in Sides |-> "idle"] /\ closing = [s \in Sides |-> NotClosing]
    /\ written = [s \in Sides |-> <<>>] /\ read = [s \in Sides |-> <<>>] /\ garbled = {}

-------------------------------------------------------------------------------
(* handshake: the initiator writes messages 1 and 3, the responder 2 and 4.  A message is
   known by its number; a side reads the peer's credentials in message 2 or 3 and
   authenticates them before it goes on. *)

Messages    == 1..4
Writes(s)   == IF s = "initiator" THEN {1, 3} ELSE {2, 4}
Checks(s)   == IF s = "initiator" THEN 2 ELSE 3
Completes(s, n) == n = 4

Advance(s, n) ==
    /\ step' = [step EXCEPT ![s] = IF Completes(s, n) THEN Finalize ELSE n + 1]
    /\ state' = [state EXCEPT ![s] = IF Completes(s, n) THEN "established" ELSE @]

(* handshake fails: the session becomes invalid, and who called Initialize closes it. *)
Fails(s) ==
    /\ step' = [step EXCEPT ![s] = Failed]
    /\ state' = [state EXCEPT ![s] = "invalid"]
    /\ open' = FALSE

WriteMessage(s) ==
    /\ step[s] \in Messages /\ step[s] \in Writes(s)
    /\ IF open
       THEN /\ stream' = [stream EXCEPT ![s] = Append(@, <<step[s]>>)]
            /\ Advance(s, step[s]) /\ UNCHANGED open
       ELSE Fails(s) /\ UNCHANGED stream
    /\ UNCHANGED <<valid, tx, rx, calls, sends, recv, closing, written, read, garbled>>

ReadMessage(s) ==
    /\ step[s] \in Messages \ Writes(s) /\ stream[Peer(s)] # <<>>
    /\ stream' = [stream EXCEPT ![Peer(s)] = Tail(@)]
    /\ IF step[s] = Checks(s) /\ ~valid[s] THEN Fails(s) ELSE Advance(s, step[s]) /\ UNCHANGED open
    /\ UNCHANGED <<valid, tx, rx, calls, sends, recv, closing, written, read, garbled>>

(* The stream ends, or the deadline passes, before the message has come. *)
NoMessage(s) ==
    /\ step[s] \in Messages \ Writes(s) /\ stream[Peer(s)] = <<>> /\ ~open
    /\ Fails(s)
    /\ UNCHANGED <<valid, tx, rx, stream, calls, sends, recv, closing, written, read, garbled>>

-------------------------------------------------------------------------------
(* SendCommand: the header, the body and the change of the key are three sections of the
   lock, and the write is none. *)

(* The responder's finalisation, and afterwards whoever has a session that is ready. *)
Start(c) ==
    LET s == HomeOf(c) IN
    /\ calls[c].at = "idle"
    /\ IF c \in Sides THEN c = "responder" /\ step[c] = Finalize
                      ELSE step[s] = Ready /\ sends[c] > 0
    /\ sends' = IF c \in Sides THEN sends ELSE [sends EXCEPT ![c] = @ - 1]
    /\ calls' = [calls EXCEPT ![c] = [at |-> IF state[s] = "established" THEN "header" ELSE "error",
                                      toSend |-> <<>>]]
    /\ UNCHANGED <<valid, step, state, tx, rx, stream, open, recv, closing, written, read, garbled>>

Encrypt(c, at, next) ==
    LET s == HomeOf(c) IN
    /\ calls[c].at = at
    /\ calls' = [calls EXCEPT ![c] = [at |-> next, toSend |-> Append(@.toSend, tx[s])]]
    /\ tx' = [tx EXCEPT ![s].nonce = @ + 1]
    /\ UNCHANGED <<valid, step, state, rx, stream, open, sends, recv, closing, written, read, garbled>>

Header(c) == Encrypt(c, "header", "body")
Body(c)   == Encrypt(c, "body", "rekey")

Rekeyed(k) == [k EXCEPT !.key = @ + 1]

RekeyTx(c) ==
    /\ calls[c].at = "rekey"
    /\ calls' = [calls EXCEPT ![c].at = "write"]
    /\ tx' = [tx EXCEPT ![HomeOf(c)] = Rekeyed(@)]
    /\ UNCHANGED <<valid, step, state, rx, stream, open, sends, recv, closing, written, read, garbled>>

EndClosed(s) == closing[s].at \in {"state", "done"}    \* this side has closed its end

(* After the other side has closed its end a write fails, or is taken and comes to nobody. *)
Write(c) ==
    LET s == HomeOf(c) IN
    /\ calls[c].at = "write"
    /\ \/ /\ open
          /\ stream' = [stream EXCEPT ![s] = Append(@, calls[c].toSend \o <<c>>)]
          /\ written' = [written EXCEPT ![s] = Append(@, c)]
          /\ calls' = [calls EXCEPT ![c] = [at |-> "ok", toSend |-> <<>>]]
          /\ UNCHANGED state
       \/ /\ ~open /\ ~EndClosed(s)
          /\ calls' = [calls EXCEPT ![c] = [at |-> "ok", toSend |-> <<>>]]
          /\ UNCHANGED <<state, stream, written>>
       \/ /\ ~open
          /\ state' = [state EXCEPT ![s] = "invalid"]
          /\ calls' = [calls EXCEPT ![c] = [at |-> "error", toSend |-> <<>>]]
          /\ UNCHANGED <<stream, written>>
    /\ UNCHANGED <<valid, step, tx, rx, open, sends, recv, closing, read, garbled>>

(* The call returns.  A goroutine that gets an error sends no more; the responder's
   Initialize returns. *)
Return(c) ==
    LET failed == calls[c].at = "error" IN
    /\ calls[c].at \in {"ok", "error"}
    /\ calls' = [calls EXCEPT ![c] = Idle]
    /\ IF c \in Sides
       THEN /\ step' = [step EXCEPT ![c] = IF failed THEN Failed ELSE Ready]
            /\ state' = IF failed THEN [state EXCEPT ![c] = "invalid"] ELSE state
            /\ open' = (open /\ ~failed) /\ UNCHANGED sends
       ELSE /\ sends' = IF failed THEN [sends EXCEPT ![c] = 0] ELSE sends
            /\ UNCHANGED <<step, state, open>>
    /\ UNCHANGED <<valid, tx, rx, stream, recv, closing, written, read, garbled>>

-------------------------------------------------------------------------------
(* RecvCommand: the state is looked at, the header is read and decrypted, then the body, and
   the key changes; each of them is a section of its own, and the reads are in none.  A
   command stays on the stream until its body has been decrypted. *)
Advanced(k) == [k EXCEPT !.nonce = @ + 1]
FaultyTaken(k) == k                             \* the key is not changed
Taken(k)    == Rekeyed(k)

Reading(s)  == step[s] = Ready \/ (s = "initiator" /\ step[s] = Finalize)

Receive(s) ==
    /\ recv[s] = "idle" /\ Reading(s) /\ state[s] = "established"
    /\ recv' = [recv EXCEPT ![s] = "header"]
    /\ UNCHANGED <<valid, step, state, tx, rx, stream, open, calls, sends, closing, written, read, garbled>>

(* An error is fatal: the session becomes invalid and its reader stops, and an Initialize that
   waits for the NoOp fails. *)
Stops(s) ==
    /\ recv' = [recv EXCEPT ![s] = "stopped"]
    /\ state' = [state EXCEPT ![s] = "invalid"]
    /\ step' = [step EXCEPT ![s] = IF @ = Finalize THEN Failed ELSE @]
    /\ open' = (open /\ step[s] # Finalize)

(* One part, the n-th of the command, is read and decrypted with the nonce that comes next. *)
Decrypt(s, at, n, next) ==
    LET ok == Head(stream[Peer(s)])[n] = rx[s] IN
    /\ recv[s] = at /\ stream[Peer(s)] # <<>> /\ ~EndClosed(s)
    /\ rx' = IF ok THEN [rx EXCEPT ![s] = Advanced(@)] ELSE rx
    /\ garbled' = IF ok THEN garbled ELSE garbled \cup {s}
    /\ IF ok THEN recv' = [recv EXCEPT ![s] = next] /\ UNCHANGED <<step, state, open>> ELSE Stops(s)
    /\ UNCHANGED <<valid, tx, stream, calls, sends, closing, written, read>>

RecvHeader(s) == Decrypt(s, "header", 1, "body")
RecvBody(s)   == Decrypt(s, "body", 2, "rekey")

RekeyRx(s) ==
    LET c == Head(stream[Peer(s)])[3]
        refused == step[s] = Finalize /\ c # "responder" IN
    /\ recv[s] = "rekey"
    /\ rx' = [rx EXCEPT ![s] = Taken(@)]
    /\ stream' = [stream EXCEPT ![Peer(s)] = Tail(@)]
    /\ read' = [read EXCEPT ![s] = Append(@, c)]
    /\ IF refused THEN Stops(s)
       ELSE /\ recv' = [recv EXCEPT ![s] = "idle"]
            /\ step' = [step EXCEPT ![s] = IF @ = Finalize THEN Ready ELSE @]
            /\ UNCHANGED <<state, open>>
    /\ UNCHANGED <<valid, tx, calls, sends, closing, written, garbled>>

(* The connection ends while a header or a body is waited for; what was still on its way is
   lost when the connection is reset, or closed by the side that reads. *)
EndOfStream(s) ==
    /\ recv[s] \in {"header", "body"} /\ ~open
    /\ Stops(s)
    /\ UNCHANGED <<valid, tx, rx, stream, calls, sends, closing, written, read, garbled>>

-------------------------------------------------------------------------------
(* Close, by whoever owns the session, while other goroutines send and receive: the keys
   change, each in a section of its own, the connection is closed, and only then is the
   session invalid. *)
Closes(s, at, next) ==
    /\ closing[s].at = at
    /\ closing' = [closing EXCEPT ![s].at = next]
    /\ UNCHANGED <<valid, stream, calls, sends, recv, written, read, garbled>>

CloseTx(s) ==
    /\ step[s] = Ready /\ closing[s].at = "no"
    /\ closing' = [closing EXCEPT ![s] = [at |-> "rx", sent |-> Len(written[s])]]
    /\ tx' = [tx EXCEPT ![s] = Rekeyed(@)]
    /\ UNCHANGED <<valid, step, state, rx, stream, open, calls, sends, recv, written, read, garbled>>

CloseRx(s) ==
    /\ Closes(s, "rx", "conn")
    /\ rx' = [rx EXCEPT ![s] = Rekeyed(@)]
    /\ UNCHANGED <<step, state, tx, open>>

CloseConn(s) == Closes(s, "conn", "state") /\ open' = FALSE /\ UNCHANGED <<step, state, tx, rx>>

CloseState(s) ==
    /\ Closes(s, "state", "done")
    /\ step' = [step EXCEPT ![s] = Closed]
    /\ state' = [state EXCEPT ![s] = "invalid"]
    /\ UNCHANGED <<tx, rx, open>>

RecvCommand(s) == Receive(s) \/ RecvHeader(s) \/ RecvBody(s) \/ RekeyRx(s) \/ EndOfStream(s)
Close(s)       == CloseTx(s) \/ CloseRx(s) \/ CloseConn(s) \/ CloseState(s)
SendCommand(c) == Start(c) \/ Header(c) \/ Body(c) \/ RekeyTx(c) \/ Write(c) \/ Return(c)

SessionNext ==
    \/ \E s \in Sides : WriteMessage(s) \/ ReadMessage(s) \/ NoMessage(s) \/ RecvCommand(s)
                        \/ Close(s)
    \/ \E c \in Callers : SendCommand(c)

SessionSpec == SessionInit /\ [][SessionNext]_wireVars

-------------------------------------------------------------------------------
(* Each side reads what the other has written, in that order and without a gap, over the
   changes of the keys.  Close changes the keys under the calls of other goroutines, so a side
   may be unable to decrypt what it reads when it closes itself, or when its peer has begun to
   close: but then it has read all that the peer had written before Close began.  It holds
   when one goroutine sends on each side.  With two, the sections of their calls of
   SendCommand mix, and the peer cannot decrypt what they have written. *)
PeerDecrypts ==
    \A s \in Sides :
        /\ s \in garbled =>
              \/ closing[s].at \notin {"no", "rx"}
              \/ closing[Peer(s)].at # "no" /\ Len(read[s]) >= closing[Peer(s)].sent
        /\ read[s] = SubSeq(written[Peer(s)], 1, Len(read[s]))

(* The same without Close: it fails when Close changes the key between the header and the
   body of another goroutine's SendCommand, which then writes before the connection is
   closed (courier/server/outgoing_conn.go:362 is a Close beside a sender). *)
NeverGarbled == garbled = {}

(* An initiator that has a session is one the responder has authenticated, and has
   authenticated the responder; a responder with a session has authenticated its peer. *)
BothAreValid ==
    /\ step["initiator"] = Ready => valid["initiator"] /\ valid["responder"]
    /\ step["responder"] = Ready => valid["responder"]
===============================================================================
