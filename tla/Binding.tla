--------------------------------- MODULE Binding ---------------------------------
(***************************************************************************)
(* What block structure promises, without lists to search: each open block *)
(* has an environment that says for every name which declaration it means. *)
(* A block begins with the environment of the one around it, a declaration *)
(* changes the innermost environment only, and the end of a block forgets  *)
(* its own.  HIR construction is shown to implement it (Scopes).           *)
(***************************************************************************)
EXTENDS Integers, Sequences

CONSTANT Names

VARIABLES
  envs,        \* the environments of the open blocks, outermost first
  next_local   \* the number of the next declaration

vars == <<envs, next_local>>
Unbound == -1
Unknown == [n \in Names |-> Unbound]
Here == IF envs = <<>> THEN Unknown ELSE envs[Len(envs)]
Around == IF Len(envs) < 2 THEN Unknown ELSE envs[Len(envs) - 1]

Init == envs = <<>> /\ next_local = 0

\* A function: declarations are numbered anew.
Begin == envs = <<>> /\ envs' = <<Unknown>> /\ next_local' = 0

Declare ==
  /\ envs # <<>>
  /\ \E n \in Names : envs' = [envs EXCEPT ![Len(envs)] = [@ EXCEPT ![n] = next_local]]
  /\ next_local' = next_local + 1

Open == envs # <<>> /\ envs' = Append(envs, Here) /\ UNCHANGED next_local
Close ==
  /\ \E k \in {1, 2} : Len(envs) >= k /\ envs' = SubSeq(envs, 1, Len(envs) - k)
  /\ UNCHANGED next_local
\* One block ends and the next begins where it began.
NextArm == envs # <<>> /\ envs' = [envs EXCEPT ![Len(envs)] = Around] /\ UNCHANGED next_local

Next == Begin \/ Declare \/ Open \/ Close \/ NextArm
Spec == Init /\ [][Next]_vars

===============================================================================
