---------------------------- MODULE OutboundQueue ----------------------------
(***************************************************************************)
(* What a session promises about its outbound traffic (the spec, 4.2 and   *)
(* "Ordering"): per connection, what reaches the socket is the messages    *)
(* the session accepted, in the order it accepted them, several at a time  *)
(* if need be, while its writer runs.  No accepted message is skipped, and *)
(* while the writer runs every accepted message is eventually written:     *)
(* a message is lost only by the writer stopping for good.                 *)
(***************************************************************************)
EXTENDS Naturals, Sequences

CONSTANTS
    Conns,     \* the connections
    Msgs       \* the messages

VARIABLES
    accepted,  \* accepted[c]: messages the session took, in order
    wire,      \* wire[c]: messages written to the client, in order
    writer     \* writer[c]: "before" it starts, "live", or "gone"

qvars == <<accepted, wire, writer>>

QInit ==
    /\ accepted = [c \in Conns |-> << >>]
    /\ wire = [c \in Conns |-> << >>]
    /\ writer = [c \in Conns |-> "before"]

\* A message is accepted whatever the writer does; one accepted after the
\* writer is gone is never written.
Accept(c, m) ==
    /\ accepted' = [accepted EXCEPT ![c] = Append(@, m)]
    /\ UNCHANGED <<wire, writer>>

StartWriter(c) ==
    /\ writer[c] = "before"
    /\ writer' = [writer EXCEPT ![c] = "live"]
    /\ UNCHANGED <<accepted, wire>>

\* The writer writes the next one or more accepted messages.
Deliver(c) ==
    /\ writer[c] = "live"
    /\ \E n \in (Len(wire[c]) + 1)..Len(accepted[c]) :
          wire' = [wire EXCEPT ![c] = SubSeq(accepted[c], 1, n)]
    /\ UNCHANGED <<accepted, writer>>

StopWriter(c) ==
    /\ writer[c] = "live"
    /\ writer' = [writer EXCEPT ![c] = "gone"]
    /\ UNCHANGED <<accepted, wire>>

QNext ==
    \E c \in Conns :
        \/ \E m \in Msgs : Accept(c, m)
        \/ StartWriter(c) \/ Deliver(c) \/ StopWriter(c)

QSpec == QInit /\ [][QNext]_qvars /\ \A c \in Conns : WF_qvars(Deliver(c))

=============================================================================
