------------------------------ MODULE JobSlot -------------------------------
(***************************************************************************)
(* What the queue promises about the work behind a jobKey, without saying  *)
(* how: at any time there is none, or it is queued, running or ended; only *)
(* queued work can be withdrawn, and only ended work forgotten; work that  *)
(* runs ends or is given back, and one submission is given back less than  *)
(* MaxUses times.                                                          *)
(***************************************************************************)
EXTENDS Naturals

CONSTANTS Keys, MaxUses

VARIABLES
  slot,   \* per key: "idle", "queued", "running" or "ended"
  used    \* per key: how often the work of the present submission was given back

Init ==
  /\ slot = [k \in Keys |-> "idle"]
  /\ used = [k \in Keys |-> 0]

Move(k, from, to, n) ==
  /\ slot[k] = from
  /\ slot' = [slot EXCEPT ![k] = to]
  /\ used' = [used EXCEPT ![k] = n]

Submit(k)   == Move(k, "idle", "queued", 0) \/ Move(k, "ended", "queued", 0)
Withdraw(k) == Move(k, "queued", "idle", 0)
Start(k)    == used[k] < MaxUses /\ Move(k, "queued", "running", used[k])
GiveBack(k) == Move(k, "running", "queued", used[k] + 1)
Finish(k)   == Move(k, "running", "ended", 0)
Forget(k)   == Move(k, "ended", "idle", 0)

Next == \E k \in Keys :
  Submit(k) \/ Withdraw(k) \/ Start(k) \/ GiveBack(k) \/ Finish(k) \/ Forget(k)

Spec == Init /\ [][Next]_<<slot, used>>

=============================================================================
