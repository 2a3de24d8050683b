----------------------------- MODULE Web4Codec -----------------------------
(***************************************************************************)
(* The byte formats of the wire: values and transfers (crypto/encode.go,   *)
(* crypto/decode.go), payloads and messages (protocol/*.go), frames and    *)
(* handshakes (transport/transport.go, transport/tcp.go).                  *)
(*                                                                         *)
(* A byte string is a sequence of 0..255.  The widths of the fixed-size    *)
(* fields are parameters, so that short instances go through every branch. *)
(* A reader takes the data and an offset and returns the value and the     *)
(* next offset, Short when the data ends before the value does; a reader   *)
(* that starts at Short stays there, as every error is returned at once.   *)
(***************************************************************************)
EXTENDS Integers, Sequences, SequencesExt

CONSTANTS
    W16, W32, W64,   \* bytes in a uint16, a uint32 and a 64-bit integer
    HashLen, IDLen,  \* bytes in a Hash and in a MessageID
    MaxFrame,        \* maxFrameSize
    MaxAddr          \* maxHandshakeAddrLen

ASSUME CodecAssumption ==
    /\ {W16, W32, W64, HashLen, IDLen} \subseteq Nat \ {0}
    /\ MaxFrame \in Nat /\ MaxAddr \in Nat

Short == -1
INVType == 0
GETType == 1
TXType == 2
PROOF_REQType == 3
PROOF_RESPType == 4
ACKType == 5
ERRORType == 6

----------------------------------------------------------------------------
(* Integers, fixed-size fields and byte strings.                           *)

Byte == 0..255

\* 256^w.
Pow256[w \in Nat] == IF w = 0 THEN 1 ELSE 256 * Pow256[w - 1]

\* digits[w][n]: n in w bytes, big endian; a negative number is its two's
\* complement.
digits[w \in Nat] ==
    [n \in Int |-> IF w = 0 THEN <<>> ELSE Append(digits[w - 1][n \div 256], n % 256)]

\* The unsigned number that the bytes of b stand for.
number(b) ==
    LET value[i \in 0..Len(b)] == IF i = 0 THEN 0 ELSE 256 * value[i - 1] + b[i]
    IN  value[Len(b)]

appendUint(w, n) == digits[w][n]

appendBytes(b) == appendUint(W32, Len(b)) \o b

appendBool(b) == <<IF b THEN 1 ELSE 0>>

fixedAt(w, data, at) ==
    IF at = Short \/ Len(data) - at < w THEN [val |-> <<>>, next |-> Short]
    ELSE [val |-> SubSeq(data, at + 1, at + w), next |-> at + w]

decodeUintAt(w, data, at) ==
    LET field == fixedAt(w, data, at)
    IN  [val |-> number(field.val), next |-> field.next]

decodeIntAt(w, data, at) ==
    LET bits == decodeUintAt(w, data, at)
    IN  [bits EXCEPT !.val = IF 2 * @ >= Pow256[w] THEN @ - Pow256[w] ELSE @]

decodeBytesAt(data, at) ==
    LET length == decodeUintAt(W32, data, at)
    IN  fixedAt(length.val, data, length.next)

\* Mutant: any byte but 0 is true.
decodeBoolLoosely(data, at) ==
    LET byte == fixedAt(1, data, at) IN [byte EXCEPT !.val = @ # <<0>>]

decodeBoolAt(data, at) ==
    LET byte == fixedAt(1, data, at)
    IN  [val |-> byte.val = <<1>>, next |-> IF byte.val \in {<<0>>, <<1>>} THEN byte.next ELSE Short]

\* Where a reader may stand in the data.
offsets(data) == {Short} \cup 0..Len(data)

\* n elements, where element[p] is what is read at offset p; no element is
\* empty, so there are not more of them than bytes.  The memory that the code
\* reserves for n elements before it reads the first is not modelled.
decodeMany(element, n, data, at) ==
    LET read[i \in 0..n] ==
            IF i = 0 THEN [val |-> <<>>, next |-> at]
            ELSE LET before == read[i - 1]
                     item   == element[before.next]
                 IN  [val |-> Append(before.val, item.val), next |-> item.next]
    IN  IF n > Len(data) THEN [val |-> <<>>, next |-> Short] ELSE read[n]

\* A decoder takes the whole of its data or fails.
whole(data, read) == [ok |-> read.next = Len(data), val |-> read.val]

----------------------------------------------------------------------------
(* Values and transfers.  Signature and timestamp are not encoded, so they *)
(* are not part of what an ID stands for.                                  *)

appendValueEncoding(v) ==
    appendUint(W64, v.amount) \o appendBytes(v.unit) \o appendBytes(v.owner)
        \o appendUint(W64, v.expiry) \o appendUint(W64, v.depth)

EncodeTransfer(t) ==
    appendUint(W32, Len(t.inputs)) \o FlattenSeq(t.inputs)
        \o appendUint(W32, Len(t.outputs))
        \o FlattenSeq([i \in DOMAIN t.outputs |-> appendValueEncoding(t.outputs[i])])

decodeValue(data, at) ==
    LET amount == decodeUintAt(W64, data, at)
        unit   == decodeBytesAt(data, amount.next)
        owner  == decodeBytesAt(data, unit.next)
        expiry == decodeIntAt(W64, data, owner.next)
        depth  == decodeIntAt(W64, data, expiry.next)
    IN  [val  |-> [amount |-> amount.val, unit |-> unit.val, owner |-> owner.val,
                   expiry |-> expiry.val, depth |-> depth.val],
         next |-> depth.next]

DecodeTransfer(data) ==
    LET nIn     == decodeUintAt(W32, data, 0)
        inputs  == decodeMany([p \in offsets(data) |-> fixedAt(HashLen, data, p)],
                              nIn.val, data, nIn.next)
        nOut    == decodeUintAt(W32, data, inputs.next)
        outputs == decodeMany([p \in offsets(data) |-> decodeValue(data, p)],
                              nOut.val, data, nOut.next)
    IN  whole(data, [val  |-> [inputs |-> inputs.val, outputs |-> outputs.val],
                     next |-> outputs.next])

----------------------------------------------------------------------------
(* Payloads, by message type.                                              *)

\* INV, GET and PROOF_REQ carry a transfer ID, ACK a message ID.
EncodePayload(type, p) ==
    CASE type = TXType -> appendBytes(EncodeTransfer(p.transfer)) \o appendBytes(p.sig)
      [] type = PROOF_RESPType ->
            p.target \o appendBool(p.seen) \o appendUint(W64, p.seenTime)
                \o appendBool(p.conflict) \o appendUint(W64, p.distance)
      [] type = ERRORType -> p.id \o appendBytes(p.code)
      [] OTHER -> p

DecodeTXPayload(data) ==
    LET transferBytes == decodeBytesAt(data, 0)
        signature     == decodeBytesAt(data, transferBytes.next)
        transfer      == DecodeTransfer(transferBytes.val)
    IN  [ok  |-> signature.next = Len(data) /\ transfer.ok,
         val |-> [transfer |-> transfer.val, sig |-> signature.val]]

DecodeProofResponsePayload(data) ==
    LET target   == fixedAt(HashLen, data, 0)
        seen     == decodeBoolAt(data, target.next)
        seenTime == decodeIntAt(W64, data, seen.next)
        conflict == decodeBoolAt(data, seenTime.next)
        distance == decodeIntAt(W64, data, conflict.next)
    IN  whole(data, [val  |-> [target |-> target.val, seen |-> seen.val,
                               seenTime |-> seenTime.val, conflict |-> conflict.val,
                               distance |-> distance.val],
                     next |-> distance.next])

DecodeErrorPayload(data) ==
    LET id   == fixedAt(IDLen, data, 0)
        code == decodeBytesAt(data, id.next)
    IN  whole(data, [val |-> [id |-> id.val, code |-> code.val], next |-> code.next])

DecodePayload(type, data) ==
    CASE type = TXType         -> DecodeTXPayload(data)
      [] type = PROOF_RESPType -> DecodeProofResponsePayload(data)
      [] type = ERRORType      -> DecodeErrorPayload(data)
      [] type = ACKType        -> whole(data, fixedAt(IDLen, data, 0))
      [] OTHER                 -> whole(data, fixedAt(HashLen, data, 0))

----------------------------------------------------------------------------
(* Messages, frames and handshakes.                                        *)

\* The numbers that w bytes hold, unsigned and signed.
Uints(w) == 0..(Pow256[w] - 1)
Ints(w) == {n \in Int : -Pow256[w] <= 2 * n /\ 2 * n < Pow256[w]}

\* type Message: an array, integers of 64 and 32 bits and a slice.
Messages ==
    [id : {b \in Seq(Byte) : Len(b) = IDLen}, timestamp : Ints(W64), ttl : Ints(W64),
     type : 0..ERRORType, payload : Seq(Byte)]

EncodeMessage(m) ==
    m.id \o appendUint(W64, m.timestamp) \o appendUint(W64, m.ttl)
        \o appendUint(W32, m.type) \o appendBytes(m.payload)

DecodeMessage(data) ==
    LET id        == fixedAt(IDLen, data, 0)
        timestamp == decodeIntAt(W64, data, id.next)
        ttl       == decodeIntAt(W64, data, timestamp.next)
        type      == decodeUintAt(W32, data, ttl.next)
        payload   == decodeBytesAt(data, type.next)
    IN  [ok  |-> payload.next = Len(data) /\ type.val <= ERRORType,
         val |-> [id |-> id.val, timestamp |-> timestamp.val, ttl |-> ttl.val,
                  type |-> type.val, payload |-> payload.val]]

EncodeMessageFrame(m) == appendBytes(EncodeMessage(m))

\* io.ReadFull on the front of a stream: complete, impossible, or not yet.
DecodeMessageFrame(stream) ==
    LET length == decodeUintAt(W32, stream, 0)
        body   == fixedAt(length.val, stream, length.next)
    IN  [arrived |-> body.next # Short,
         refused |-> length.next # Short /\ length.val > MaxFrame,
         body    |-> body.val, rest |-> body.next]

encodeHandshake(addr) == appendUint(W16, Len(addr)) \o addr

decodeHandshake(stream) ==
    LET length == decodeUintAt(W16, stream, 0)
        addr   == fixedAt(length.val, stream, length.next)
    IN  [arrived |-> addr.next # Short,
         refused |-> length.next # Short /\ (length.val = 0 \/ length.val > MaxAddr),
         addr    |-> addr.val, rest |-> addr.next]

=============================================================================
