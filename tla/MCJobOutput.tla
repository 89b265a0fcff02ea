---------------------------- MODULE MCJobOutput ----------------------------
(* JobOutput on documents of at most two members over two keys.            *)
EXTENDS JobOutput, TLC

(* key.to_uppercase() of every key the instances use.                      *)
UpperTable ==
    ("foo" :> "FOO") @@ ("Foo" :> "FOO") @@ ("bar" :> "BAR")
        @@ ("caf\\u00e9" :> "CAF\\u00c9")
MCUpperOf == [k \in Keys |-> UpperTable[k]]

(* Two keys that stay apart once upper-cased.                              *)
KeysDistinct == {"foo", "bar"}
(* A key written with a \u escape, as json.dumps writes a non-ASCII name.  *)
KeysEscaped == {"foo", "caf\\u00e9"}
EscapedOne == {"caf\\u00e9"}
(* Two keys that differ only in case.                                      *)
KeysCase == {"foo", "Foo"}
NoEscaped == {}
(* Two keys that differ only in case, and one apart from them.            *)
KeysMixed == {"foo", "Foo", "bar"}
=============================================================================
