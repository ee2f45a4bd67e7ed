------------------------------- MODULE LogFifo -------------------------------
(***************************************************************************)
(* What the logger of src/src/tvhlog.c promises its callers, without its  *)
(* queue bound, mutex or thread: while the logger runs, an accepted       *)
(* message waits in a FIFO and reaches the sinks once, in the order       *)
(* tvhlogv accepted it; once tvhlog_end has closed the logger, tvhlogv    *)
(* writes synchronously, so a message accepted then may overtake one      *)
(* still on its way.  Nothing is written that was not accepted.           *)
(***************************************************************************)
EXTENDS Sequences

CONSTANT Ids      \* the messages, identified by their tvhlogv call

VARIABLES
  pending,   \* accepted, not yet written, oldest first
  written,   \* what the sinks received, in order
  open       \* the logger thread still serves the queue

avars == <<pending, written, open>>

Init ==
  /\ pending = <<>>
  /\ written = <<>>
  /\ open = TRUE

(* tvhlogv accepts a message into the FIFO while the logger runs. *)
Accept(m) ==
  /\ open
  /\ pending' = Append(pending, m)
  /\ UNCHANGED <<written, open>>

(* tvhlogv writes a message directly once the logger is closed. *)
AcceptSync(m) ==
  /\ ~open
  /\ written' = Append(written, m)
  /\ UNCHANGED <<pending, open>>

(* The oldest waiting message reaches the sinks. *)
Deliver ==
  /\ pending # <<>>
  /\ written' = Append(written, Head(pending))
  /\ pending' = Tail(pending)
  /\ UNCHANGED open

(* tvhlog_end stops the logger thread. *)
Close ==
  /\ open
  /\ open' = FALSE
  /\ UNCHANGED <<pending, written>>

Next ==
  \/ \E m \in Ids : Accept(m) \/ AcceptSync(m)
  \/ Deliver
  \/ Close

Spec == Init /\ [][Next]_avars

=============================================================================
