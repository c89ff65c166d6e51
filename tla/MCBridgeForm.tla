---------------------------- MODULE MCBridgeForm ----------------------------
(***************************************************************************)
(* Small instances of BridgeForm: a whole address, one with its last       *)
(* characters missing, one that is too long, and one of another alphabet.  *)
(***************************************************************************)
EXTENDS BridgeForm

CONSTANTS alice, bob, whole, cut, long, hex

MCBytes == [r \in {whole, cut, long, hex} |->
              CASE r = whole -> 32 [] r = cut -> 31 [] r = long -> 33 [] r = hex -> None]
=============================================================================
