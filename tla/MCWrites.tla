------------------------------- MODULE MCWrites -------------------------------
EXTENDS Writes, TLC

CONSTANTS g, c, name

Symmetry == Permutations(Callers)

Client(confirm, dry, peers) ==
  [confirmWrites |-> confirm, dryRun |-> dry, allowed |-> peers]

(* Clients with a channel and with a username on the allowlist; one that   *)
(* has no allowlist and asks for no confirmation; and one on dry-run.      *)
Clients == {Client(TRUE, FALSE, {c}), Client(TRUE, FALSE, {name}),
            Client(FALSE, FALSE, {}), Client(TRUE, TRUE, {})}
=============================================================================
