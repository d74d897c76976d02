---------------------------- MODULE DeviceAccess ----------------------------
(* What the agent promises about access to its devices, whatever goroutines *)
(* do the work: a device has one holder at a time, a holder is granted the  *)
(* device only while the operator allows it, and the device becomes free    *)
(* before anybody else can hold it.                                         *)
CONSTANTS Device, Holder, Nobody

VARIABLES holder,   \* who holds a device: a session, open or being opened
          granted,  \* devices whose holder was given access
          allowed   \* devices the operator exposes

vars == <<holder, granted, allowed>>

Init == /\ holder = [d \in Device |-> Nobody]
        /\ granted = {}
        /\ allowed \in SUBSET Device

Allow(d) == /\ allowed' = allowed \cup {d}
            /\ UNCHANGED <<holder, granted>>

Forbid(d) == /\ allowed' = allowed \ {d}
             /\ UNCHANGED <<holder, granted>>

Hold(d, h) == /\ d \in allowed
              /\ holder[d] = Nobody
              /\ \A other \in Device : holder[other] # h
              /\ holder' = [holder EXCEPT ![d] = h]
              /\ UNCHANGED <<granted, allowed>>

Grant(d) == /\ d \in allowed \ granted
            /\ holder[d] # Nobody
            /\ granted' = granted \cup {d}
            /\ UNCHANGED <<holder, allowed>>

(* The holder gives up, or loses the device, granted or not.               *)
Free(d) == /\ holder[d] # Nobody
           /\ holder' = [holder EXCEPT ![d] = Nobody]
           /\ granted' = granted \ {d}
           /\ UNCHANGED allowed

Next == \E d \in Device : \/ Allow(d) \/ Forbid(d) \/ Grant(d) \/ Free(d)
                          \/ \E h \in Holder : Hold(d, h)

Spec == Init /\ [][Next]_vars
=============================================================================
