---------------------------- MODULE OrderChannel ----------------------------
(***************************************************************************)
(* The websocket over which the exchange tells the order update thread     *)
(* about the account's orders: messages arrive in the order they were      *)
(* sent, each once (WebSocketSecure.hpp reads a TLS stream).               *)
(***************************************************************************)
EXTENDS Integers, Sequences

VARIABLE ws_orders  \* the messages sent and not yet read

\* What ordStatus says of an order, as far as the program tells it apart: it was
\* executed, or it is over.
Executed == {"Filled", "PartiallyFilled"}
Ended    == {"Canceled", "Rejected"}

\* The fields the program reads: clOrdID, ordStatus, cumQty, leavesQty.
OrderMsgs == [id : Nat, status : Executed \cup Ended, cumQty : Nat, leavesQty : Nat]

Tell(id, status, cum, leaves) ==
  ws_orders' = Append(ws_orders, [id |-> id, status |-> status,
                                  cumQty |-> cum, leavesQty |-> leaves])
=============================================================================
