---------------------------- MODULE MCBSONValues ----------------------------
(* Small instance of BSONValues: an int of three bits and a UUID of two bytes. *)
EXTENDS BSONValues

MCPlain == {"string", "null", "bool"}

MCScripted ==
  {Value("Timestamp", v) : v \in {<<0, 0>>, <<0, 1>>, <<2, 1>>, <<-2, 0>>, <<4, 0>>, <<1, 5>>}}
    \union {Value("BinData", v) : v \in {<<0, 1>>, <<2, 1>>, <<3, 1>>, <<3, 2>>, <<3, 3>>,
                                         <<127, 1>>, <<128, 1>>}}
    \union {Value("number", <<3>>), Value("NumberInt", <<-4>>), Value("NumberLong", <<9>>),
            Value("NumberLong", <<2>>)}
    \union {Value(kind, << >>) : kind \in {"string", "function", "undefined"}}

MCForeign ==
  {Value("timestamp", <<0, 1>>), Value("binary", <<2, 1>>), Value("binary", <<255, 1>>),
   Value("int32", <<3>>)}
    \union {Value(kind, << >>) : kind \in {"symbol", "codeWScope", "undefined", "bool"}}

=============================================================================
