---------------------------- MODULE MCWeb4Wire -----------------------------
(***************************************************************************)
(* Instances of Web4Wire for TLC: one message of every type, a transfer    *)
(* with a negative expiry and an empty owner, and noise that differs from  *)
(* a good frame by one byte changed, added or missing.                     *)
(***************************************************************************)
EXTENDS Web4Wire, TLC

Change == {0, 1, 2, 7, 255}

Value(amount, unit, expiry) ==
    [amount |-> amount, unit |-> unit, owner |-> <<>>, expiry |-> expiry, depth |-> 1]

Payload(type) ==
    CASE type = TXType ->
            [transfer |-> [inputs |-> <<<<1>>, <<2>>>>, outputs |-> <<Value(2, <<7>>, -1)>>],
             sig |-> <<9>>]
      [] type = PROOF_RESPType ->
            [target |-> <<1>>, seen |-> TRUE, seenTime |-> 2, conflict |-> FALSE, distance |-> 1]
      [] type = ERRORType -> [id |-> <<3>>, code |-> <<>>]
      [] OTHER -> <<1>>

Message(type, id) ==
    [id |-> <<id>>, timestamp |-> 0, ttl |-> -2, type |-> type,
     payload |-> EncodePayload(type, Payload(type))]

\* A message one byte longer than the longest frame that is read.
Oversize ==
    LET m == Message(ERRORType, 3)
        n == MaxFrame + 1 - Len(EncodeMessage(m))
    IN  [m EXCEPT !.payload = EncodePayload(ERRORType, [id |-> <<3>>, code |-> [i \in 1..n |-> 8]])]

\* The transfer just fits into a frame.
MCSamples == {Message(INVType, 1), Message(TXType, 2), Oversize}

\* One edit of the byte string b.
Edits(b) ==
         {[b EXCEPT ![i] = x] : i \in DOMAIN b, x \in Change}
    \cup {RemoveAt(b, i) : i \in DOMAIN b}
    \cup {InsertAt(b, i, x) : i \in 1..(Len(b) + 1), x \in {0, 1}}

\* Edited frames, and frames around edited bodies and payloads.
MCNoise ==
    UNION {LET m == Message(type, 4)
           IN  Edits(EncodeMessageFrame(m))
               \cup {appendBytes(b) : b \in Edits(EncodeMessage(m))}
               \cup {EncodeMessageFrame([m EXCEPT !.payload = b]) : b \in Edits(m.payload)}
           : type \in {TXType, PROOF_RESPType, ERRORType, ACKType}}

MCAddr == <<5, 6>>

=============================================================================
