----------------------------- MODULE MCDelivery -----------------------------
(***************************************************************************)
(* Three byte values: three headers, a text of nine bytes and a tile of    *)
(* eighty-one are the smallest too large for their fields.                 *)
(***************************************************************************)
EXTENDS Delivery, TLC

MCType == <<1>>
MCEncoding == <<0, 1>>
MCNames == {MCType, MCEncoding, <<2, 2, 2, 2, 2, 2, 2, 2, 2>>, <<2>>}
MCDefault == <<1, 0>>
MCValues == {<<>>, MCDefault, <<2, 0, 1>>, [i \in 1..10 |-> 1]}
MCBodies == {<<>>, <<1>>, <<0, 1, 2>>, [i \in 1..81 |-> 1]}
MCPlain == [n \in MCNames |-> <<>>]
MCRich == [MCPlain EXCEPT ![MCType] = <<2, 0, 1>>, ![MCEncoding] = MCDefault]
MCAnswers ==
    [code : {200}, body : {<<>>, <<1>>, <<0, 1, 2>>}, headers : {MCPlain, MCRich}]
    \cup [code : {204, 500}, body : {<<>>}, headers : {MCPlain}]
MCPulled == {MCType, MCEncoding}
MCDeleted == {MCEncoding}
MCSymmetry == Permutations(Clients)
=============================================================================
