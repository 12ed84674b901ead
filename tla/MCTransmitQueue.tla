-------------------------- MODULE MCTransmitQueue --------------------------
(* Model values and the entries' lanes and keys for checking TransmitQueue. *)
EXTENDS TransmitQueue, TLC

CONSTANTS w1, w2, det, msg, frm, chainKey, otherKey

MCLane == [e \in Entries |-> CASE e \in {w1, w2}     -> "high"
                               [] e = det            -> "detail"
                               [] OTHER              -> "low"]
\* The two warnings belong to one chain.
MCKey  == [e \in Entries |-> CASE e \in {w1, w2} -> chainKey
                               [] OTHER          -> otherKey]
=============================================================================
