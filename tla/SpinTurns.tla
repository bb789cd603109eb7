------------------------------ MODULE SpinTurns ------------------------------
(***************************************************************************)
(* What a customer may count on who spins the wheel, with nothing of the   *)
(* requests, locks and rows behind it.  A customer takes one turn at a     *)
(* time: it begins when the cooldown in force has passed since the last    *)
(* one, draws something that is on the wheel then, and is recorded and     *)
(* paid in one step, or comes to nothing.  What was recorded stays, with   *)
(* its account, whatever becomes of the wheel.                             *)
(*                                                                         *)
(* SpinWheel implements this module: any number of requests to spin, and   *)
(* saves of the wheel that overlap them, act as such turns.                *)
(***************************************************************************)
EXTENDS Integers, Sequences

CONSTANT Users  \* customers at the start

VARIABLES clock,     \* the time, in hours
          accounts,  \* customers that have an account
          cooldown,  \* the cooldown in force
          wheel,     \* the rewards that can be drawn
          begun,     \* the cooldown of the turn a customer has begun, if any
          drawn,     \* the turn a customer has drawn and not taken, if any
          taken,     \* the turns each customer has taken, oldest first
          paid       \* what each customer was paid for them

vars == <<clock, accounts, cooldown, wheel, begun, drawn, taken, paid>>

Reward == [type : {"points", "multiplier"}, value : Nat]

Init ==
  /\ clock = 0
  /\ accounts = Users
  /\ cooldown \in Nat
  /\ wheel \subseteq Reward
  /\ begun = [u \in Users |-> {}]
  /\ drawn = [u \in Users |-> {}]
  /\ taken = [u \in Users |-> <<>>]
  /\ paid = [u \in Users |-> <<>>]

\* The last turn of u is at least wait hours ago.
Rested(u, wait) ==
  taken[u] # <<>> => taken[u][Len(taken[u])].at + wait <= clock

\* A multiplier of one would pay nothing.
Payable(reward) == reward.type = "multiplier" => reward.value > 1

\* One turn at a time, and not before the last one is a cooldown ago.
Begin(u) ==
  /\ begun[u] = {} /\ drawn[u] = {}
  /\ Rested(u, cooldown)
  /\ begun' = [begun EXCEPT ![u] = {cooldown}]
  /\ UNCHANGED <<clock, accounts, cooldown, wheel, drawn, taken, paid>>

Draw(u) ==
  /\ \E wait \in begun[u], reward \in wheel :
        drawn' = [drawn EXCEPT ![u] =
                    {[at |-> clock, wait |-> wait, reward |-> reward]}]
  /\ begun' = [begun EXCEPT ![u] = {}]
  /\ UNCHANGED <<clock, accounts, cooldown, wheel, taken, paid>>

\* The turn counts and pays, at once.
Take(u) ==
  /\ u \in accounts
  /\ \E turn \in drawn[u] :
        /\ Payable(turn.reward)
        /\ taken' = [taken EXCEPT ![u] = Append(@, turn)]
        /\ paid' = [paid EXCEPT ![u] = Append(@, turn.reward)]
  /\ drawn' = [drawn EXCEPT ![u] = {}]
  /\ UNCHANGED <<clock, accounts, cooldown, wheel, begun>>

\* The turn comes to nothing: nothing is paid and the customer may spin.
Abandon(u) ==
  /\ begun' = [begun EXCEPT ![u] = {}]
  /\ drawn' = [drawn EXCEPT ![u] = {}]
  /\ UNCHANGED <<clock, accounts, cooldown, wheel, taken, paid>>

\* The administrators change the wheel.
Configure ==
  /\ cooldown' \in Nat
  /\ wheel' \subseteq Reward
  /\ UNCHANGED <<clock, accounts, begun, drawn, taken, paid>>

\* An account that has spun stays.
Close(u) ==
  /\ u \in accounts
  /\ taken[u] = <<>>
  /\ accounts' = accounts \ {u}
  /\ UNCHANGED <<clock, cooldown, wheel, begun, drawn, taken, paid>>

Tick ==
  /\ clock' = clock + 1
  /\ UNCHANGED <<accounts, cooldown, wheel, begun, drawn, taken, paid>>

Next ==
  \/ \E u \in Users :
        Begin(u) \/ Draw(u) \/ Take(u) \/ Abandon(u) \/ Close(u)
  \/ Configure
  \/ Tick

Spec == Init /\ [][Next]_vars
=============================================================================
