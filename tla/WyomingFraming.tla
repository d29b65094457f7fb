--------------------------- MODULE WyomingFraming ---------------------------
(***************************************************************************)
(* How the events of the Wyoming protocol lie in the byte stream between   *)
(* the driver and the speech services (internal/wyoming/client.go): a line *)
(* of JSON that counts the bytes of the data and of the payload after it.  *)
(* The line is one element of the stream, a byte is another.               *)
(***************************************************************************)
EXTENDS Naturals, Sequences

Header(type, data, payload) ==
    [type |-> type, data_length |-> Len(data), payload_length |-> Len(payload)]

\* An event without data still has the four bytes of null; the payload may be empty.
WriteEvent(type, data, payload) == <<Header(type, data, payload)>> \o data \o payload

NoEvent == [type |-> "error"]

\* What ReadEvent takes from a stream that begins with a line. Where the stream ends too
\* early it waits, and fails when the connection is closed. Data inside the line, which the
\* protocol allows as well, is parsed and dropped.
ReadEvent(stream) ==
    LET line == Head(stream)
        body == Tail(stream)
        size == line.data_length + line.payload_length
    IN IF Len(body) < size
       THEN NoEvent
       ELSE [type |-> line.type,
             data |-> SubSeq(body, 1, line.data_length),
             payload |-> SubSeq(body, line.data_length + 1, size),
             rest |-> SubSeq(body, size + 1, Len(body))]
=============================================================================
