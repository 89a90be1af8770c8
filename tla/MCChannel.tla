----------------------------- MODULE MCChannel -----------------------------
(* A small instance of Channel for TLC: a rendezvous channel and one that is *)
(* buffered or a ticker's, and the calls that mix their cases.              *)
EXTENDS Channel
CONSTANTS r, b

On(kind, c) == [kind |-> kind, ch |-> c]
Plain(kind, c) == [cases |-> <<On(kind, c)>>, default |-> FALSE, handler |-> FALSE]
Select(cases) == [cases |-> cases, default |-> FALSE, handler |-> TRUE]
Default(cases) == [cases |-> cases, default |-> TRUE, handler |-> TRUE]

\* A rendezvous channel, and one that is buffered, for one value or two, or a ticker's.
MCChans == {r, b}
MCMakes == {[c \in MCChans |-> IF c = r THEN [cap |-> 0, ticker |-> FALSE] ELSE m] :
              m \in {[cap |-> 1, ticker |-> FALSE], [cap |-> 2, ticker |-> FALSE], [cap |-> 1, ticker |-> TRUE]}}
MCCalls == {Plain("send", r),
            Select(<<On("recv", r), On("recv", b)>>),
            Select(<<On("send", r), On("send", r)>>),
            Select(<<On("send", r), On("recv", r)>>),
            Select(<<On("send", b), On("timer", b)>>),
            Default(<<On("send", r)>>)}
=============================================================================
