---------------------------- MODULE MCEpollServer ----------------------------
(* EpollServer on small instances.  The receive and send buffers are larger *)
(* than the parser's payload buffer.                                        *)
EXTENDS EpollServer

Sizes == [recv |-> 2, send |-> 2, payload |-> 1]
=============================================================================
