-------------------------- MODULE MCResponseParser --------------------------
(***************************************************************************)
(* Small pipelines for ResponseParser: values that are empty, that hold a  *)
(* line end, and that read like the end of an answer.                      *)
(***************************************************************************)
EXTENDS ResponseParser, FiniteSets

MCWords == {"CR", "LF", "VALUE", "CONFIG", "STAT", "END", "ERROR", "STORED", "NOT_STORED",
            "7", "x", "a", "b", "c"}

Byte == [word |-> "x"]
Stat(text) == [word |-> "STAT", text |-> text]

MCValues == {<<>>, <<Byte>>, <<CR, LF>>, <<[word |-> "END"], CR, LF>>}
MCKeys   == {1, 2}

MCHits ==
    {<<>>} \cup {<<[key |-> 1, value |-> v]>> : v \in MCValues}
           \cup {<<[key |-> 1, value |-> v], [key |-> 2, value |-> w]>> :
                     v, w \in MCValues}

MCCommands ==
    {MultiGet(MCKeys, hits, fails) : hits \in MCHits, fails \in BOOLEAN}
        \cup {Stats(<<>>, FALSE), Stats(<<Stat("a"), Stat("b")>>, FALSE), Stats(<<>>, TRUE)}
        \cup {Config(v, FALSE) : v \in MCValues \ {<<>>}} \cup {Config(<<Byte>>, TRUE)}
        \cup {Single(l) : l \in {"STORED", "NOT_STORED", "7", "ERROR"}}

\* Behind each command comes one of each kind that collects data.
MCFollowers ==
    {MultiGet(MCKeys, <<[key |-> 2, value |-> <<Byte>>]>>, FALSE), Stats(<<Stat("c")>>, FALSE),
     Config(<<Byte, Byte>>, FALSE), Single("STORED")}

MCPipelines == {<<c, d>> : c \in MCCommands, d \in MCFollowers}

=============================================================================
