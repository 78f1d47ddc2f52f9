---------------------------- MODULE MCMessageTurn ----------------------------
(* MessageTurn for TLC: which messages are sent to which deployments. *)
EXTENDS MessageTurn

CONSTANTS t1, t2, t3

\* Every kind of message, with and without cookie.
Anything == [kind : Messages, cookie : BOOLEAN]

\* A third message, to stop a search that waits for another.
Stop == [kind : {"stop"}, cookie : {TRUE}]

\* The deployment it is sent to: the internal interface of Java, and one repair
\* of a malformed output.
Internal == [repairs |-> 1, key |-> TRUE, browser |-> FALSE, cookieRequired |-> FALSE,
             cookieHost |-> TRUE]

TwoAndAStop ==
    [s \in Settings |->
        [t \in Turns |-> IF t # t3 THEN Anything ELSE IF s = Internal THEN Stop ELSE {}]]
=============================================================================
