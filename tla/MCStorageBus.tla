----------------------------- MODULE MCStorageBus -----------------------------
(* A bare handle over the whole chip, as the overlay manager's, beside a    *)
(* partition in its middle.                                                 *)
EXTENDS StorageBus

CONSTANTS manager, noodle

MCView == [c \in Clients |->
    IF c = manager THEN [base_offset |-> 0, size |-> CAPACITY, partition |-> FALSE]
                   ELSE [base_offset |-> 2, size |-> 2, partition |-> TRUE]]

=============================================================================
