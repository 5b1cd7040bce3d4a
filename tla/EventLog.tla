------------------------------ MODULE EventLog ------------------------------
(***************************************************************************)
(* The events of builds (domain_events) and the streams that report them.  *)
(* A row takes its sequence from a database sequence when it is flushed    *)
(* and is visible when its transaction commits; a stream asks again and    *)
(* again for the rows after the last sequence it has sent.                 *)
(***************************************************************************)
EXTENDS Naturals, FiniteSets

CONSTANT Builds

VARIABLES
    sequence,        \* the last value the database sequence gave out
    log,             \* the committed rows
    position,        \* position[b]: Last-Event-ID of the client that follows b
    seen             \* seen[b]: the rows that client was sent

events == <<sequence, log, position, seen>>
streams == <<position, seen>>

Kinds == {"execution", "candidate", "approved", "published"}
IsEvent(e) == e.build \in Builds /\ e.kind \in Kinds /\ e.sequence \in 1..sequence
OfBuild(b) == {e \in log : e.build = b}

LogTypeOK ==
    /\ sequence \in Nat
    /\ \A e \in log : IsEvent(e)
    /\ \A d, e \in log : d.sequence = e.sequence => d = e
    /\ position \in [Builds -> 0..sequence]
    /\ DOMAIN seen = Builds /\ \A b \in Builds : seen[b] \subseteq OfBuild(b)

LogInit ==
    /\ sequence = 0 /\ log = {}
    /\ position = [b \in Builds |-> 0] /\ seen = [b \in Builds |-> {}]

\* A flushed row has its place, whatever becomes of its transaction.
Numbered == sequence' = sequence + 1
Recorded(e) == log' = log \cup {e}

\* One round of a stream, up to a disconnection: the client resumes after what it got.
Follow(b) ==
    /\ \E last \in {e.sequence : e \in OfBuild(b)} :
         /\ last > position[b]
         /\ position' = [position EXCEPT ![b] = last]
         /\ seen' = [seen EXCEPT ![b] =
              @ \cup {e \in OfBuild(b) : e.sequence > position[b] /\ e.sequence <= last}]
    /\ UNCHANGED <<sequence, log>>

Missed(b) == {e \in OfBuild(b) : e.sequence <= position[b]} \ seen[b]

=============================================================================
