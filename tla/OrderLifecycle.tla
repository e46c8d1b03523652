--------------------------- MODULE OrderLifecycle ---------------------------
(***************************************************************************)
(* The saga state machine of an order as the header of the order service's  *)
(* consumers documents it.  A timeout may cancel several orders at once,    *)
(* because the sweeper commits a batch.                                     *)
(***************************************************************************)

CONSTANT Orders

VARIABLE status     \* order -> its status, "NONE" before it exists

Open == {"PENDING", "STOCK_RESERVED"}
Settled == {"CONFIRMED", "CANCELLED", "CANCELLED_NO_STOCK"}
Statuses == {"NONE"} \union Open \union Settled

LifecycleInit == status = [o \in Orders |-> "NONE"]

\* The orders of S leave one of the statuses in from for to.
Move(S, from, to) ==
    /\ \A o \in S : status[o] \in from
    /\ status' = [o \in Orders |-> IF o \in S THEN to ELSE status[o]]

LifecycleNext ==
    \/ \E o \in Orders : \/ Move({o}, {"NONE"}, "PENDING")
                         \/ Move({o}, {"PENDING"}, "STOCK_RESERVED")
                         \/ Move({o}, {"STOCK_RESERVED"}, "CONFIRMED")
                         \/ Move({o}, Open, "CANCELLED_NO_STOCK")
    \/ \E S \in SUBSET Orders : Move(S, Open, "CANCELLED")

LifecycleSpec == LifecycleInit /\ [][LifecycleNext]_status

=============================================================================
