------------------------------ MODULE MCPadBus ------------------------------
(* Small instances of PadBus for TLC: one padder of the library, one that  *)
(* has its name, one more and one without a name.                          *)
EXTENDS PadBus, TLC

CONSTANTS pkcs7, shadow, other, nameless

MCEntries == {pkcs7, shadow, other, nameless}

MCName ==
  pkcs7 :> "pkcs7" @@ shadow :> "pkcs7"
    @@ other :> "other" @@ nameless :> NULL

MCBuiltins == {pkcs7}
=============================================================================
