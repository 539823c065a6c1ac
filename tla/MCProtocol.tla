----------------------------- MODULE MCProtocol -----------------------------
(* Protocol for TLC: the frames a peer sends. *)
EXTENDS Protocol

F(opcode, fin, payload) ==
    [opcode |-> opcode, fin |-> fin, rsv1 |-> FALSE, payload |-> payload, fault |-> "none"]

\* The halves of U+00E9, a lead byte and the rest of U+20AC, the start of a surrogate and of
\* an overlong form; four and five bytes for the extended lengths.
Starts == {F("Text", FALSE, t) : t \in {<<97>>, <<195>>, <<226>>}}
Wholes == {F("Text", TRUE, t) : t \in {<<>>, <<195, 169>>, <<226, 130>>, <<237, 160>>, <<97, 192>>,
                                       <<97, 226, 130, 172>>, <<240, 144, 128, 128, 97>>}}
Ends == {F("Continuation", TRUE, t) : t \in {<<>>, <<169>>, <<130, 172>>, <<172, 195>>}}
Continuations == {F("Continuation", FALSE, t) : t \in {<<169>>, <<130>>}} \cup Ends

\* Code 1000 with a reason and none at all, an undefined code, a truncated one, bad text.
Closes == {F("Close", TRUE, p) : p \in {<<>>, <<3, 232, 97>>, <<3, 237>>, <<3>>, <<3, 232, 195>>}}

Others == {F("Ping", TRUE, <<97>>), F("Binary", FALSE, <<195>>), F("Binary", TRUE, <<255, 255>>)}

Compressed == {[F("Text", fin, <<1, 2>>) EXCEPT !.rsv1 = TRUE] : fin \in BOOLEAN}

Broken == {F("Reserved", TRUE, <<>>), F("Ping", FALSE, <<97>>),
           F("Ping", TRUE, <<97, 97, 97, 97>>), F("Binary", TRUE, <<1, 1, 1, 1, 1, 1>>),
           [F("Ping", TRUE, <<>>) EXCEPT !.rsv1 = TRUE]}
        \cup {[F("Binary", TRUE, <<97>>) EXCEPT !.fault = x] : x \in {"mask", "rsv", "length"}}

Valid == F("Text", TRUE, <<195, 169>>)
Ping == F("Ping", TRUE, <<97>>)
AnyFrame == Starts \cup Wholes \cup Continuations \cup Closes \cup Others \cup Compressed \cup Broken

\* Every frame on its own and the whole ones after a Ping; a message of two and of three
\* fragments, with a Ping or another message between or before; two Close frames.
AnyScript ==
    {<<f>> : f \in AnyFrame}
    \cup {<<a, b>> : a \in Starts \cup Compressed, b \in Continuations}
    \cup {<<a, b, c>> : a \in Starts, b \in {e \in Continuations : ~e.fin}, c \in Ends}
    \cup {<<a, b, c>> : a \in Starts, b \in {Ping, Valid},
                       c \in {e \in Ends : e.payload \in {<<169>>, <<130, 172>>}}}
    \cup {<<Valid, a, b>> : a \in Starts, b \in {e \in Ends : e.payload = <<169>>}}
    \cup {<<a, b>> : a, b \in {F("Close", TRUE, <<3, 232, 97>>), F("Close", TRUE, <<>>), Valid}}
    \cup {<<Ping, b>> : b \in Broken \cup Wholes}

E(k, server, validate) == [kind |-> k, server |-> server, validate |-> validate]
Endpoints == {E("plain", TRUE, TRUE), E("plain", FALSE, TRUE), E("plain", TRUE, FALSE),
              E("compressed", FALSE, TRUE)}
Inflated == {<<97>>, <<195>>, <<97, 97, 97, 97, 97, 97, 97, 97>>}
=============================================================================
