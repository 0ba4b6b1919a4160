------------------------------- MODULE Handoff -------------------------------
(***************************************************************************)
(* What Connect, Disconnect and Close promise each other about the session *)
(* of a gotd client: the right to cancel its Run and to receive the one    *)
(* value that tells that Run has ended is handed from one to the next, is  *)
(* never shared, and is given up only after Run was told to end.  The one  *)
(* way to lose it is to publish another session over it.                   *)
(***************************************************************************)
CONSTANTS
  Callers,   \* goroutines of the host, none of which is called as below
  Sessions   \* names for sessions

VARIABLES
  owner,     \* who has the right: a caller, the "field" of the client, "nobody",
             \* or "lost" when it was overwritten in the field
  phase,     \* "unused", "live" until Run has ended, "over" from then on, and
             \* "told" once somebody has received that
  cancelled  \* Run has been told to end

handoffVars == <<owner, phase, cancelled>>

Init ==
  /\ owner = [s \in Sessions |-> "nobody"]
  /\ phase = [s \in Sessions |-> "unused"]
  /\ cancelled = [s \in Sessions |-> FALSE]

(* A caller begins a session, which has no Run yet, and may think better   *)
(* of it.                                                                  *)
Reserve(p, s) ==
  /\ phase[s] = "unused" /\ owner[s] = "nobody"
  /\ \A t \in Sessions : owner[t] # p
  /\ owner' = [owner EXCEPT ![s] = p]
  /\ UNCHANGED <<phase, cancelled>>

Drop(p, s) ==
  /\ phase[s] = "unused" /\ owner[s] = p
  /\ owner' = [owner EXCEPT ![s] = "nobody"]
  /\ UNCHANGED <<phase, cancelled>>

Start(p, s) ==
  /\ phase[s] = "unused" /\ owner[s] = p
  /\ phase' = [phase EXCEPT ![s] = "live"]
  /\ UNCHANGED <<owner, cancelled>>

(* From the caller to the client, and to another caller.                   *)
Publish(p, s) ==
  /\ phase[s] \in {"live", "over"} /\ owner[s] = p /\ ~cancelled[s]
  /\ owner' = [t \in Sessions |-> IF t = s THEN "field"
                                  ELSE IF owner[t] = "field" THEN "lost"
                                  ELSE owner[t]]
  /\ UNCHANGED <<phase, cancelled>>

Take(p, s) ==
  /\ owner[s] = "field"
  /\ \A t \in Sessions : owner[t] # p
  /\ owner' = [owner EXCEPT ![s] = p]
  /\ UNCHANGED <<phase, cancelled>>

CancelRun(p, s) ==
  /\ phase[s] \in {"live", "over"} /\ owner[s] = p
  /\ cancelled' = [cancelled EXCEPT ![s] = TRUE]
  /\ UNCHANGED <<owner, phase>>

(* Run ends by itself or because it was cancelled.                         *)
End(s) ==
  /\ phase[s] = "live"
  /\ phase' = [phase EXCEPT ![s] = "over"]
  /\ UNCHANGED <<owner, cancelled>>

(* The owner is told, once; whatever hung on the context is released.      *)
Receive(p, s) ==
  /\ phase[s] = "over" /\ owner[s] = p
  /\ owner' = [owner EXCEPT ![s] = "nobody"]
  /\ phase' = [phase EXCEPT ![s] = "told"]
  /\ cancelled' = [cancelled EXCEPT ![s] = TRUE]

(* The owner does not wait for the end of what it has cancelled.           *)
GiveUp(p, s) ==
  /\ owner[s] = p /\ cancelled[s]
  /\ owner' = [owner EXCEPT ![s] = "nobody"]
  /\ UNCHANGED <<phase, cancelled>>

(* A session that is over and that nobody owns leaves nothing behind.      *)
Reuse(s) ==
  /\ phase[s] \in {"over", "told"} /\ owner[s] \in {"nobody", "lost"}
  /\ owner' = [owner EXCEPT ![s] = "nobody"]
  /\ phase' = [phase EXCEPT ![s] = "unused"]
  /\ cancelled' = [cancelled EXCEPT ![s] = FALSE]

Next ==
  \/ \E p \in Callers, s \in Sessions :
       \/ Reserve(p, s) \/ Drop(p, s) \/ Start(p, s)
       \/ Publish(p, s) \/ Take(p, s)
       \/ CancelRun(p, s) \/ Receive(p, s) \/ GiveUp(p, s)
  \/ \E s \in Sessions : End(s) \/ Reuse(s)

Spec == Init /\ [][Next]_handoffVars
=============================================================================
