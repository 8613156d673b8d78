------------------------------ MODULE MCOutbox ------------------------------
(* Small instances of Outbox: two events, one or two dispatchers.          *)
EXTENDS Outbox, TLC

\* SQS: send_message raises unless the queue has the message.
Acknowledged == {"accepted", "refused", "unsure"}

\* Dispatchers are interchangeable.
Symmetry == Permutations(Dispatcher)

=============================================================================
