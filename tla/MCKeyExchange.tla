--------------------------- MODULE MCKeyExchange ---------------------------
(* KeyExchange for TLC: keys by where their zero bytes are.                *)
EXTENDS KeyExchange
AnyKeys  == {<<a, b, c, d>> : a, b, c, d \in {0, 1}}
=============================================================================
