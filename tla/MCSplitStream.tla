--------------------------- MODULE MCSplitStream ---------------------------
(* SplitStream for TLC: what the unified stream may hand over to split(). *)
EXTENDS SplitStream

Handed(messages, parseError) ==
    [messages |-> messages, data |-> FALSE, parseError |-> parseError, closed |-> FALSE,
     compressed |-> FALSE]

Nothing == Handed(<<>>, FALSE)

Fresh == {Nothing}

\* Nothing, a Close with a parse error behind it and unparsed bytes, a closed stream; and a
\* compressed stream.
AnyHandover ==
    {Nothing, [Handed(<<"Close">>, TRUE) EXCEPT !.data = TRUE], [Nothing EXCEPT !.closed = TRUE],
     [Nothing EXCEPT !.compressed = TRUE, !.data = TRUE]}
=============================================================================
