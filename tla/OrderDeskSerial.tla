-------------------------- MODULE OrderDeskSerial ---------------------------
(***************************************************************************)
(* OrderDeskTxn with one request in flight at a time implements OrderDesk, *)
(* crashes included.  The one request of two transactions, the start of    *)
(* work, gives up the shelf before it changes the status: until it has, or *)
(* has died, the atomic counter still shows the order on its shelf.        *)
(***************************************************************************)
EXTENDS OrderDeskTxn

\* What starts of work in flight have released ahead of their status change.
ReleasedEarly ==
    UNION {{<<req[w].o, s>> : s \in req[w].left} : w \in Workers}

\* The records and the slots as the atomic counter shows them.
ShownStored == stored \cup ReleasedEarly
ShownSlot == [s \in Slots |-> IF \E w \in Workers : s \in req[w].left
                              THEN "OCCUPIED" ELSE slot[s]]

Desk == INSTANCE OrderDesk WITH stored <- ShownStored, slot <- ShownSlot

\* Every committed step of a request that runs alone is a step of OrderDesk: the
\* statements, the saves that write only changed columns, the second read of the
\* shelves by a start of work and a crash between its two transactions add
\* nothing a client could not obtain from whole requests.
ImplementsDesk == Desk!Spec

=============================================================================
