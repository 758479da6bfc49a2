------------------------------ MODULE Privacy ------------------------------
(***************************************************************************)
(* What the customer use cases promise about personal data: it is held     *)
(* from the registration to the erasure, it goes all at once, and it never *)
(* comes back (usecases/customers.py: register_customer, forget_customer). *)
(***************************************************************************)
CONSTANT Customers

VARIABLE data  \* per customer: "none", "held" or "erased"

Init == data = [k \in Customers |-> "none"]

Collect(k) == data[k] = "none" /\ data' = [data EXCEPT ![k] = "held"]

Erase(k) == data[k] = "held" /\ data' = [data EXCEPT ![k] = "erased"]

Next == \E k \in Customers : Collect(k) \/ Erase(k)

Spec == Init /\ [][Next]_data
=============================================================================
