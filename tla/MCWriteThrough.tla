-------------------------- MODULE MCWriteThrough --------------------------
(* Small instances of WriteThrough for TLC: who sends what.                 *)
EXTENDS WriteThrough, Sequences

CONSTANTS
    wrk, operator,    \* a worker terminal; a sender that is no terminal
    sup, peer,        \* a seat's mailbox and another terminal
    x, y,             \* payloads
    s1, s2, s3, old1, old2

(* A worker's callback to its caller's mailbox.                             *)
Callback(payload) ==
    [sender |-> wrk, receiver |-> sup, payload |-> payload,
     locks |-> {"watchdog", "mailbox"}, dedup |-> TRUE]

(* A message of an operator or a service: only a mailbox brings a lock.       *)
Notify(receiver, payload) ==
    [sender |-> operator, receiver |-> receiver, payload |-> payload,
     locks |-> IF receiver = sup THEN {"mailbox"} ELSE {}, dedup |-> FALSE]

NoRows == << >>

TwoRows == <<old1, old2>>

(* A worker's callback and its repeat, and another callback.                 *)
Callbacks == [s \in Sends |-> IF s = s3 THEN Callback(y) ELSE Callback(x)]

(* A callback and two notices of different text, over legacy rows of which     *)
(* the first names no receiver.                                             *)
Mixed ==
    [s \in Sends |->
        CASE s = s1 -> Callback(x)
          [] s = s2 -> Notify(sup, y)
          [] s = s3 -> Notify(peer, y)
          [] s = old1 -> Notify(NoReceiver, x)
          [] s = old2 -> Notify(sup, x)]

(* One text to two receivers at once.                                       *)
Broadcast == [s \in Sends |-> IF s = s1 THEN Notify(sup, x) ELSE Notify(peer, x)]
=============================================================================
