--------------------------- MODULE BinaryProtocol ---------------------------
(***************************************************************************)
(* src/src/binary-protocol.ts: the packets a node with SASL credentials    *)
(* builds and the answers it takes apart.                                  *)
(*                                                                         *)
(* A packet is a sequence of words.  The 24 bytes of the header are two of *)
(* them, so that a chunk can end inside a header; elsewhere a word is four *)
(* bytes, 2^32 of the code being Base.  Keys and values are sequences of   *)
(* such words: what matters here is how long they are, and that a reader   *)
(* finds its way by the lengths the header states and by nothing else.     *)
(***************************************************************************)
EXTENDS Integers, Sequences

CONSTANT Base      \* one more than the largest word

ASSUME BaseAssumption == Base \in Nat /\ Base > 1

HeaderSize == 2

\* The operations of a key that carry a value, a counter's arguments, or
\* neither, and the ones without a key.  An opcode is its operation's name.
StoreOps   == {"set", "add", "replace"}
ConcatOps  == {"append", "prepend"}
CounterOps == {"incr", "decr"}
KeyOps     == {"get", "delete"}
BareOps    == {"version", "stat", "quit"}

Statuses == {"success", "notFound", "exists", "invalid", "notStored", "authError"}

Number(n) == [is |-> "body", number |-> n]
Words(ns) == [i \in DOMAIN ns |-> Number(ns[i])]
Numbers(words) == [i \in DOMAIN words |-> words[i].number]

\* serializeHeader().  `of` is the request a packet belongs to: the code
\* leaves the opaque field that could say so at zero, and nothing reads it.
SerializeHeader(of, opcode, status, extrasLength, keyLength, totalBodyLength) ==
    << [is |-> "first", of |-> of, opcode |-> opcode, status |-> status,
        extrasLength |-> extrasLength, keyLength |-> keyLength],
       [is |-> "second", totalBodyLength |-> totalBodyLength] >>

\* deserializeHeader() of a buffer that starts with a header.
DeserializeHeader(buf) ==
    [of |-> buf[1].of, opcode |-> buf[1].opcode, status |-> buf[1].status,
     extrasLength |-> buf[1].extrasLength, keyLength |-> buf[1].keyLength,
     totalBodyLength |-> buf[2].totalBodyLength]

-----------------------------------------------------------------------------
\* Requests.  Every builder states its lengths itself.

\* buildSaslPlainRequest(): the mechanism is the key, the credentials the value.
BuildSaslPlain(of, mechanism, credentials) ==
    SerializeHeader(of, "auth", "success", 0, Len(mechanism),
                    Len(mechanism) + Len(credentials))
        \o Words(mechanism) \o Words(credentials)

\* buildGetRequest(), buildDeleteRequest()
BuildKey(of, opcode, key) ==
    SerializeHeader(of, opcode, "success", 0, Len(key), Len(key)) \o Words(key)

\* buildSetRequest(), buildAddRequest(), buildReplaceRequest(): flags and expiration.
BuildStore(of, opcode, key, value) ==
    SerializeHeader(of, opcode, "success", 2, Len(key), 2 + Len(key) + Len(value))
        \o Words(<<0, 0>>) \o Words(key) \o Words(value)

\* (mutant) a 64-bit number whose low half is not cut to 32 bits.
UncutLow(n) == <<n \div Base, n>>

\* A 64-bit number, written as two words: Math.floor(n / 2^32) and n >>> 0.
Split64(n) == <<n \div Base, n % Base>>

\* buildIncrementRequest(), buildDecrementRequest(): delta, initial value and
\* expiration.
BuildCounter(of, opcode, key, delta, initial) ==
    SerializeHeader(of, opcode, "success", 5, Len(key), 5 + Len(key))
        \o Words(Split64(delta) \o Split64(initial) \o <<0>>) \o Words(key)

\* buildAppendRequest(), buildPrependRequest()
BuildConcat(of, opcode, key, value) ==
    SerializeHeader(of, opcode, "success", 0, Len(key), Len(key) + Len(value))
        \o Words(key) \o Words(value)

\* buildTouchRequest(): the expiration.
BuildTouch(of, key) ==
    SerializeHeader(of, "touch", "success", 1, Len(key), 1 + Len(key))
        \o Words(<<0>>) \o Words(key)

\* buildFlushRequest(): the expiration.
BuildFlush(of) ==
    SerializeHeader(of, "flush", "success", 1, 0, 1) \o Words(<<0>>)

\* buildVersionRequest(), buildStatRequest() without a key, buildQuitRequest()
BuildBare(of, opcode) == SerializeHeader(of, opcode, "success", 0, 0, 0)

-----------------------------------------------------------------------------
\* Answers.  A result that may be undefined is a sequence: empty when it is.

Between(buf, first, end) == SubSeq(buf, HeaderSize + first + 1, HeaderSize + end)

\* parseGetResponse().  A value of no bytes is undefined: valueEnd > keyEnd
\* does not hold.
ParseGetResponse(buf) ==
    LET header == DeserializeHeader(buf)
        keyEnd == header.extrasLength + header.keyLength
    IN  IF header.status = "success" /\ header.totalBodyLength > keyEnd
        THEN <<Numbers(Between(buf, keyEnd, header.totalBodyLength))>>
        ELSE <<>>

\* parseIncrDecrResponse().  (Above 2^53 the sum is rounded; Base * Base is
\* below that here.)
ParseIncrDecrResponse(buf) ==
    LET header == DeserializeHeader(buf)
        halves == Numbers(Between(buf, 0, 2))
    IN  IF header.status = "success" /\ header.totalBodyLength >= 2
        THEN <<halves[1] * Base + halves[2]>>
        ELSE <<>>

=============================================================================
