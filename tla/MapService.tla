------------------------------ MODULE MapService ------------------------------
(***************************************************************************)
(* What a map that is a service of its own promises the processes that     *)
(* call it, dbserver_get2() of the daemon map among them, whatever happens *)
(* on the way between them: a call returns either the answer that the      *)
(* service gave to this call's key while it lasted, or "gave up" after as  *)
(* many refusals as the option max_retry says, or an error.  Only a caller *)
(* that was misled, and asked for something that another process had sent  *)
(* it, may return an answer to another key.                                *)
(***************************************************************************)
EXTENDS Naturals

CONSTANTS
  Callers,    \* the processes that call
  patience    \* refusals before a caller gives up

VARIABLES
  phase,      \* caller: "idle" or "asking"
  number,     \* caller: number of the current or latest call
  served,     \* caller: has the service answered the current call?
  misled,     \* caller: has the latest call asked for another key than its own?
  refusals,   \* caller: how often the service was not there in this call
  outcome     \* caller: how its latest call ended, with the key of an answer

svars == <<phase, number, served, misled, refusals, outcome>>

Answered(c) == [how |-> "answer", key |-> [who |-> c, n |-> number[c]]]
Failed(how) == [how |-> how]
Mistaken == Failed("mistaken")

ServiceInit ==
  /\ phase = [c \in Callers |-> "idle"]
  /\ number = [c \in Callers |-> 0]
  /\ served = [c \in Callers |-> FALSE]
  /\ misled = [c \in Callers |-> FALSE]
  /\ refusals = [c \in Callers |-> 0]
  /\ outcome = [c \in Callers |-> Failed("none")]

Call(c) ==
  /\ phase[c] = "idle"
  /\ phase' = [phase EXCEPT ![c] = "asking"]
  /\ number' = [number EXCEPT ![c] = @ + 1]
  /\ misled' = [misled EXCEPT ![c] = FALSE]
  /\ outcome' = [outcome EXCEPT ![c] = Failed("none")]
  /\ UNCHANGED <<served, refusals>>

\* the call fails before it has begun
CallFails(c) ==
  /\ phase[c] = "idle"
  /\ number' = [number EXCEPT ![c] = @ + 1]
  /\ misled' = [misled EXCEPT ![c] = FALSE]
  /\ outcome' = [outcome EXCEPT ![c] = Failed("error")]
  /\ UNCHANGED <<phase, served, refusals>>

Serve(c) ==
  /\ phase[c] = "asking"
  /\ served' = [served EXCEPT ![c] = TRUE]
  /\ UNCHANGED <<phase, number, misled, refusals, outcome>>

Mislead(c) ==
  /\ phase[c] = "asking"
  /\ misled' = [misled EXCEPT ![c] = TRUE]
  /\ UNCHANGED <<phase, number, served, refusals, outcome>>

Refuse(c) ==
  /\ phase[c] = "asking"
  /\ refusals' = [refusals EXCEPT ![c] = @ + 1]
  /\ UNCHANGED <<phase, number, served, misled, outcome>>

\* the call is over, and nothing of it is left for the next one
Return(c, how) ==
  /\ phase[c] = "asking"
  /\ how = Failed("gave_up") => refusals[c] >= patience
  /\ how = Answered(c) => served[c]
  /\ how = Mistaken => misled[c]
  /\ phase' = [phase EXCEPT ![c] = "idle"]
  /\ served' = [served EXCEPT ![c] = FALSE]
  /\ refusals' = [refusals EXCEPT ![c] = 0]
  /\ outcome' = [outcome EXCEPT ![c] = how]
  /\ UNCHANGED <<number, misled>>

ServiceNext ==
  \E c \in Callers :
    \/ Call(c) \/ CallFails(c) \/ Serve(c) \/ Mislead(c) \/ Refuse(c)
    \/ \E how \in {Answered(c), Mistaken, Failed("gave_up"), Failed("error")} :
         Return(c, how)

ServiceSpec == ServiceInit /\ [][ServiceNext]_svars
=============================================================================
