-------------------------- MODULE ImmutableObjects --------------------------
(***************************************************************************)
(* What a caller of objectstore.Store relies on: a name is given bytes     *)
(* once, and an object whose creation was acknowledged or whose audit      *)
(* succeeded outlives any crash of the store.  An object may vanish in a   *)
(* power cut only while nobody has evidence of it.                         *)
(***************************************************************************)
CONSTANT Keys

VARIABLES
    slot,      \* key -> "free", "intact" or "decayed"
    evidence   \* keys a caller has evidence of

Init ==
    /\ slot = [k \in Keys |-> "free"]
    /\ evidence = {}

Create(k) ==
    /\ slot[k] = "free"
    /\ slot' = [slot EXCEPT ![k] = "intact"]
    /\ UNCHANGED evidence

Acknowledge(k) ==
    /\ slot[k] = "intact"
    /\ evidence' = evidence \cup {k}
    /\ UNCHANGED slot

\* A power cut: objects without evidence may vanish or turn out unwritten.
PowerCut ==
    /\ \A k \in Keys :
           \/ slot'[k] = slot[k]
           \/ k \notin evidence /\ slot[k] # "free" /\ slot'[k] \in {"free", "decayed"}
    /\ DOMAIN slot' = Keys
    /\ UNCHANGED evidence

\* The medium decays; evidence from before says nothing about the object now.
Decay(k) ==
    /\ slot[k] = "intact"
    /\ slot' = [slot EXCEPT ![k] = "decayed"]
    /\ evidence' = evidence \ {k}

Next ==
    \/ \E k \in Keys : Create(k) \/ Acknowledge(k) \/ Decay(k)
    \/ PowerCut

Spec == Init /\ [][Next]_<<slot, evidence>>
=============================================================================
