------------------------------ MODULE CopyStream ------------------------------
(***************************************************************************)
(* The format of a copy stream (pigeonhole/copy_stream.go).  A client      *)
(* packs the envelopes of one Copy into elements, one for each box of a    *)
(* temporary channel; the courier reads the boxes in order and takes the   *)
(* envelopes out again.  An envelope is written as a length and that many  *)
(* units, an element carries at most ChunkSize units, so envelopes start   *)
(* and end anywhere in an element.  A stream may be made by several calls  *)
(* to the daemon, which hands the unwritten rest of the encoder's buffer   *)
(* to the client and gets it back with the next call.                      *)
(***************************************************************************)
EXTENDS Integers, SequencesExt

CONSTANTS ChunkSize,     \* maxChunkSize: what an element carries, in units
          SizeOf         \* how many units each envelope is

ASSUME StreamAssumption == ChunkSize \in Nat \ {0}

(* One unit of the serialized stream: the length prefix of an envelope is its unit 0. *)
Units(e) == [i \in 1..SizeOf[e] + 1 |-> [env |-> e, at |-> i - 1]]

(* What AddEnvelope and Flush have written when `units` are cut into elements; the last
   piece stays in the buffer, it is the one that Flush marks. *)
Pieces(units) ==
    IF units = <<>> THEN 0 ELSE (Len(units) + ChunkSize - 1) \div ChunkSize

Piece(units, k) ==
    SubSeq(units, (k - 1) * ChunkSize + 1,
           IF k * ChunkSize < Len(units) THEN k * ChunkSize ELSE Len(units))

(* AddEnvelope for each envelope of one call, `units` in all, on a buffer that SetBuffer has
   restored, and Flush when it is the last call: the elements of the call and the buffer left. *)
EncodeCall(buffer, units, isLast) ==
    LET all == buffer \o units
        n   == Pieces(all)
    IN  [elements |-> [k \in 1..(IF isLast THEN n ELSE n - 1) |->
                          [data |-> Piece(all, k), final |-> isLast /\ k = n]],
         buffer   |-> IF isLast \/ n = 0 THEN <<>> ELSE Piece(all, n)]

(* The stream of a whole Copy, made by calls of one envelope each. *)
Calls(envelopes) ==
    LET call[i \in 0..Len(envelopes)] ==
            IF i = 0 THEN [elements |-> <<>>, buffer |-> <<>>]
            ELSE LET next == EncodeCall(call[i - 1].buffer, Units(envelopes[i]),
                                        i = Len(envelopes))
                 IN  [elements |-> call[i - 1].elements \o next.elements,
                      buffer   |-> next.buffer]
    IN  call

Encode(envelopes) == Calls(envelopes)[Len(envelopes)].elements

(* DecodeEnvelopes: while the buffer holds the length at its head and that many units, take
   them off as one envelope.  What they hold must be that envelope, or the courier's parse
   of it fails. *)
Size(u)  == SizeOf[u[1].env] + 1
Whole(u) == u # <<>> /\ Size(u) <= Len(u)

TakeFirst(s) ==
    IF s.failed \/ ~Whole(s.rest) THEN s
    ELSE IF SubSeq(s.rest, 1, Size(s.rest)) # Units(s.rest[1].env)
    THEN [s EXCEPT !.failed = TRUE]
    ELSE [s EXCEPT !.envelopes = Append(@, s.rest[1].env),
                   !.rest = SubSeq(@, Size(@) + 1, Len(@))]

Rounds(units) ==
    LET round[n \in 0..Len(units)] ==
            IF n = 0 THEN [envelopes |-> <<>>, rest |-> units, failed |-> FALSE]
            ELSE TakeFirst(round[n - 1])
    IN  round

Decode(units) == Rounds(units)[Len(units)]
=============================================================================
