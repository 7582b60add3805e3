------------------------------- MODULE MCCmd --------------------------------
(***************************************************************************)
(* Requests that reach each handler with an effect, that reach one through *)
(* the root level, and that reach none.                                    *)
(***************************************************************************)
EXTENDS CmdServer

Words(argv) == [form |-> "words", argv |-> argv]

MCRequest == {
    Words(<<"SET", "debug", "1">>), Words(<<"debug", "x", "off">>),
    Words(<<"SET", "logpkt", "on">>), Words(<<"GET", "pktstats">>),
    Words(<<"SET", "interval", "5">>),
    [form |-> "oversized", argv |-> <<>>] }
=============================================================================
