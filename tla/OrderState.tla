----------------------------- MODULE OrderState -----------------------------
(***************************************************************************)
(* The order state machine of domain/order_state.py, shared by every       *)
(* module about orders.  Only data: which statuses exist and which moves   *)
(* ensure_transition lets through.                                         *)
(***************************************************************************)

OrderStatus == {"created", "paid", "shipped", "delivered", "cancelled", "refunded"}

\* _TRANSITIONS: the statuses an order may enter from each status.
Transitions ==
  [ created   |-> {"paid", "cancelled"},
    paid      |-> {"shipped", "cancelled"},
    shipped   |-> {"delivered"},
    delivered |-> {"refunded"},
    cancelled |-> {},
    refunded  |-> {} ]

\* ensure_transition raises InvalidTransition exactly where this is FALSE.
CanTransition(current, target) == target \in Transitions[current]

\* Statuses in which the reserved stock of an order is not on the shelf: only
\* cancel_order puts it back, refund_order does not.
Reserving == OrderStatus \ {"cancelled"}

\* Statuses only a paid order can be in.
PaidStatuses == {"paid", "shipped", "delivered", "refunded"}
=============================================================================
