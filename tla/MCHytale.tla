------------------------------ MODULE MCHytale ------------------------------
(* HytaleStream with a few messages; the peer's Connect encoder is not part *)
(* of the code.                                                             *)
EXTENDS HytaleStream

Fill(n) == [i \in 1..n |-> 0]
Packet(id, data) == [id |-> id, data |-> data]
Connect(lang, token, name, referral, strings, rest) ==
  [packet |-> Packet(PacketConnect, <<9, 2, 8>> \o WriteString(lang) \o WriteString(token)
                                    \o WriteString(name) \o referral),
   meaning |-> [err |-> "none", hash |-> <<9>>, clientType |-> 2, uuid |-> <<8>>,
                strings |-> strings, referral |-> rest]]

\* A packet of the largest size with all fields and the longest token; a token
\* beyond the limit, which ends the parse; no reason; a reason; a packet that
\* is much too large, with an ID of two bytes.
MCMessages ==
  { Connect(<<>>, <<5, 5>>, <<>>, <<7>>, <<<<>>, <<5, 5>>, <<>>>>, <<7>>),
    Connect(<<>>, <<5, 5, 5>>, <<>>, <<>>, <<<<>>>>, <<>>),
    [packet |-> Packet(PacketDisconnect, <<>>), meaning |-> [err |-> "none", strings |-> <<>>]],
    [packet |-> Packet(PacketDisconnect, WriteString(<<3>>)),
     meaning |-> [err |-> "none", strings |-> <<<<3>>>>]],
    [packet |-> Packet(256, Fill(22)), meaning |-> [err |-> "InvalidPacketID"]] }
=============================================================================
