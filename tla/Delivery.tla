------------------------------ MODULE Delivery ------------------------------
(***************************************************************************)
(* What the store-and-forward path promises about a detection, whatever    *)
(* carries it: one that was queued waits until the server has judged it,   *)
(* it is settled according to that judgement, and the server keeps only    *)
(* detections that were queued.  How often the server sees one is not      *)
(* promised: delivery is at least once.                                    *)
(***************************************************************************)
CONSTANT Detections

VARIABLES
  queued,     \* the detections the receiver took charge of
  delivered,  \* those it considers delivered
  setAside,   \* those it will not offer again, because the server refused them
  kept,       \* those the server has stored
  refused     \* those the server has refused

deliveryVars == <<queued, delivered, setAside, kept, refused>>

DeliveryInit == /\ queued = {} /\ delivered = {} /\ setAside = {}
                /\ kept = {} /\ refused = {}

Take(d) == /\ d \in Detections \ queued
           /\ queued' = queued \cup {d}
           /\ UNCHANGED <<delivered, setAside, kept, refused>>

\* The server judges some of what waits: each detection is stored or refused,
\* and never first the one and then the other.
Judge(good, bad) == /\ good \cup bad \subseteq queued
                    /\ good \cap (bad \cup refused) = {}
                    /\ bad \cap kept = {}
                    /\ kept' = kept \cup good
                    /\ refused' = refused \cup bad
                    /\ UNCHANGED <<queued, delivered, setAside>>

Settle(good, bad) == /\ good \subseteq kept /\ bad \subseteq refused
                     /\ delivered' = delivered \cup good
                     /\ setAside' = setAside \cup bad
                     /\ UNCHANGED <<queued, kept, refused>>

DeliveryNext == \/ \E d \in Detections : Take(d)
                \/ \E good, bad \in SUBSET queued : Judge(good, bad) \/ Settle(good, bad)

DeliverySpec == DeliveryInit /\ [][DeliveryNext]_deliveryVars
=============================================================================
