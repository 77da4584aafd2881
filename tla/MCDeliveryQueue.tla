-------------------------- MODULE MCDeliveryQueue --------------------------
(* Small instances of DeliveryQueue for TLC: what senders may ask for.       *)
EXTENDS DeliveryQueue

CONSTANTS
    sup,    \* a supervisor seat
    wrk     \* a worker terminal

(* A worker's callback to the seat.                                        *)
Callbacks == {[receiver |-> sup, sender |-> wrk, expire |-> NoTime, cancel |-> FALSE]}

(* A supervisor's steer to the worker, some cancelled by its completion.     *)
Steers == {[receiver |-> wrk, sender |-> sup, expire |-> NoTime, cancel |-> c] : c \in BOOLEAN}

(* A steer from a service (watchdog:<terminal>) that may carry an expiry.    *)
ServiceSteers ==
    {[receiver |-> wrk, sender |-> ServiceSender, expire |-> x, cancel |-> FALSE]
        : x \in {NoTime, 0, 2}}

(* A service's message to the seat, which opens an epoch.                   *)
ServiceNotices ==
    {[receiver |-> sup, sender |-> ServiceSender, expire |-> NoTime, cancel |-> FALSE]}

(* Everything but a steer that its completion cancels: seats and workers are *)
(* served in one tick, and a death is announced to a sender or to nobody.    *)
Traffic ==
    Callbacks \cup {d \in Steers : ~ d.cancel} \cup ServiceSteers \cup ServiceNotices
=============================================================================
