------------------------------- MODULE Service -------------------------------
(***************************************************************************)
(* What an isle promises its callers, blocking (handle.rs, thread.rs) or   *)
(* async (async_isle.rs): requests are begun in the order they were        *)
(* accepted, one that occupies the thread alone; each is served unless it  *)
(* panics or the isle stopped before its turn; and the isle stops behind a *)
(* stop message, by the panic of a request that occupies it, or with       *)
(* nothing left to do.                                                     *)
(***************************************************************************)
EXTENDS Sequences

CONSTANTS
  Requests,  \* the requests that may be made
  Serial,    \* those that occupy the thread until they end
  Stop       \* the message to stop

VARIABLES
  line,      \* what was accepted and not begun, oldest first
  running,   \* the requests begun and not ended
  fate,      \* request -> what became of it
  phase      \* of the isle; "ended" once a caller was told it is over

vars == <<line, running, fate, phase>>

Init ==
  /\ line = <<>>
  /\ running = {}
  /\ fate = [r \in Requests |-> "new"]
  /\ phase = "serving"

Becomes(r, f) == fate' = [fate EXCEPT ![r] = f]
Takes == phase \in {"serving", "stopping"}
Waits(r) == \E i \in DOMAIN line : line[i] = r
Free == running \cap Serial = {}

Accept(r) ==
  /\ Takes
  /\ fate[r] = "new"
  /\ Becomes(r, "open")
  /\ line' = Append(line, r)
  /\ UNCHANGED <<running, phase>>

Refuse(r) ==
  /\ fate[r] = "new"
  /\ Becomes(r, "refused")
  /\ UNCHANGED <<line, running, phase>>

AskStop ==
  /\ Takes
  /\ line' = Append(line, Stop)
  /\ UNCHANGED <<running, fate, phase>>

Advance ==
  /\ phase = "serving"
  /\ Free
  /\ line # <<>>
  /\ line' = Tail(line)
  /\ UNCHANGED fate

Begin ==
  /\ Advance
  /\ Head(line) # Stop
  /\ running' = running \cup {Head(line)}
  /\ UNCHANGED phase

TakeStop ==
  /\ Advance
  /\ Head(line) = Stop
  /\ phase' = "stopping"
  /\ UNCHANGED running

Serve(r) ==
  /\ r \in running
  /\ running' = running \ {r}
  /\ Becomes(r, "served")
  /\ UNCHANGED <<line, phase>>

(* A panic loses its own request, and stops the isle if it occupied it.    *)
Crash(r) ==
  /\ r \in running
  /\ running' = running \ {r}
  /\ Becomes(r, "lost")
  /\ phase' = IF r \in Serial THEN "stopping" ELSE phase
  /\ UNCHANGED line

(* What a stopping isle has not begun is lost; what runs beside it is not. *)
Fall ==
  /\ phase = "stopping"
  /\ Free
  /\ phase' = "over"
  /\ line' = <<>>
  /\ fate' = [r \in Requests |-> IF Waits(r) THEN "lost" ELSE fate[r]]
  /\ UNCHANGED running

(* An isle with nothing left to begin is left by its callers, or never     *)
(* came up.                                                                *)
Retire ==
  /\ phase = "serving"
  /\ Free
  /\ line = <<>>
  /\ phase' = "over"
  /\ UNCHANGED <<line, running, fate>>

(* shutdown returns: nothing runs any more.                                *)
Return ==
  /\ phase = "over"
  /\ running = {}
  /\ phase' = "ended"
  /\ UNCHANGED <<line, running, fate>>

Next ==
  \/ AskStop \/ Begin \/ TakeStop \/ Fall \/ Retire \/ Return
  \/ \E r \in Requests : Accept(r) \/ Refuse(r) \/ Serve(r) \/ Crash(r)

Spec == Init /\ [][Next]_vars
===============================================================================
