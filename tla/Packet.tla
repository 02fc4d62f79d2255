------------------------------- MODULE Packet -------------------------------
(***************************************************************************)
(* packet/packet.go and encode.go: a tile and its headers as bytes.        *)
(*                                                                         *)
(* Base is 256 in the code; TLC takes a smaller one, so that the fields of *)
(* one, two and four bytes wrap around within reach.  The checksum's 32    *)
(* bytes are one element that holds what was summed: two packets with      *)
(* different contents have different checksums.                            *)
(***************************************************************************)
EXTENDS Integers, Sequences, FiniteSets

CONSTANT Base

ASSUME BaseAssumption == Base \in Nat \ {0, 1}

Bytes == 0..(Base - 1)

SizeBytes == 4      \* of the tile's size
CountBytes == 1     \* of the number of headers
LengthBytes == 2    \* of the length of a name or a value

-----------------------------------------------------------------------------
\* What one more in the byte after the first i adds to a number: Base ^ i.
Weight[i \in 0..SizeBytes] == IF i = 0 THEN 1 ELSE Base * Weight[i - 1]

\* Faulty variant: the most significant byte comes first, but Number is not told.
PutBigEndian(n, width) == [i \in 1..width |-> (n \div Weight[width - i]) % Base]

\* PutUint16 and PutUint32 of a number cut to the field: the low byte first.
Put(n, width) == [i \in 1..width |-> (n \div Weight[i - 1]) % Base]

Number(s) ==
    LET value[i \in 0..Len(s)] ==
            IF i = 0 THEN 0 ELSE value[i - 1] + s[i] * Weight[i - 1]
    IN  value[Len(s)]

\* Headers are written in the order in which a range visits their map.
Orders(headers) ==
    {s \in [1..Cardinality(DOMAIN headers) -> DOMAIN headers] :
        \A i, j \in DOMAIN s : s[i] = s[j] => i = j}

Sealed(contents) == <<[sum |-> contents]>> \o contents

Encode(tile, headers, order) ==
    LET chunk(text) == Put(Len(text), LengthBytes) \o text
        lines[i \in 0..Len(order)] ==
            IF i = 0 THEN <<>>
            ELSE lines[i - 1] \o chunk(order[i]) \o chunk(headers[order[i]])
    IN  Sealed(Put(Len(tile), SizeBytes) \o Put(Len(order), CountBytes)
               \o lines[Len(order)] \o tile)

-----------------------------------------------------------------------------
\* Faulty variant: only the length is checked.
ValidateLength(t) == Len(t) >= 1

\* Bytes fewer than a checksum's are the empty sequence here.
Validate(t) == Len(t) >= 1 /\ t[1] = [sum |-> Tail(t)]

HeaderAt == 1 + SizeBytes + CountBytes

TileDataSize(t) == Number(SubSeq(t, 2, 1 + SizeBytes))

LenHeaders(t) == Number(SubSeq(t, 2 + SizeBytes, HeaderAt))

\* A length and as many bytes, from behind offset.  What reaches beyond the end
\* of the packet is not fit to use, whatever the slice holds there.
Chunk(t, offset) ==
    IF offset + LengthBytes <= Len(t)
      THEN LET from == offset + LengthBytes
               length == Number(SubSeq(t, offset + 1, from))
           IN  IF from + length <= Len(t)
                 THEN [fit |-> TRUE, offset |-> from + length,
                       text |-> SubSeq(t, from + 1, from + length)]
                 ELSE [fit |-> FALSE, offset |-> offset, text |-> <<>>]
      ELSE [fit |-> FALSE, offset |-> offset, text |-> <<>>]

\* A map with one header set.
SetHeader(map, key, val) ==
    [k \in {key} \cup DOMAIN map |-> IF k = key THEN val ELSE map[k]]

Headers(t) ==
    LET read[i \in 0..LenHeaders(t)] ==
            IF i = 0 THEN [fit |-> TRUE, offset |-> HeaderAt, map |-> <<>>]
            ELSE LET key == Chunk(t, read[i - 1].offset)
                     val == Chunk(t, key.offset)
                 IN  [fit |-> read[i - 1].fit /\ key.fit /\ val.fit,
                      offset |-> val.offset,
                      map |-> SetHeader(read[i - 1].map, key.text, val.text)]
    IN  read[LenHeaders(t)]

TileData(t) == SubSeq(t, Len(t) - TileDataSize(t) + 1, Len(t))

\* What a reader of the packet gets: its tile and headers, if it holds them.
Decoded(t) ==
    IF Len(t) < HeaderAt \/ TileDataSize(t) > Len(t) \/ ~Headers(t).fit
      THEN [fit |-> FALSE, tile |-> <<>>, headers |-> <<>>]
      ELSE [fit |-> TRUE, tile |-> TileData(t), headers |-> Headers(t).map]

-----------------------------------------------------------------------------
(***************************************************************************)
(* The numbers that the fields can hold.                                   *)
(***************************************************************************)
Encodable(tile, headers) ==
    /\ Len(tile) < Weight[SizeBytes]
    /\ Cardinality(DOMAIN headers) < Weight[CountBytes]
    /\ \A k \in DOMAIN headers :
          Len(k) < Weight[LengthBytes] /\ Len(headers[k]) < Weight[LengthBytes]
=============================================================================
