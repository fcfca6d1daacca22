------------------------------- MODULE Mirror -------------------------------
(***************************************************************************)
(* What the synchronisation of an object promises, without controllers,    *)
(* caches or requests: the provider cluster holds a copy of the user's     *)
(* object.  A copy is made only of an object that exists, it only moves on *)
(* to later writes, and in the end there is one exactly if there is an     *)
(* object.  Module ObjectSync implements this specification.               *)
(***************************************************************************)
EXTENDS Integers

CONSTANT MaxWrites     \* bound on the user's writes

VARIABLES
  writes,   \* the number of the user's writes
  born,     \* the write that created the object, 0 if there is none
  copy      \* the write that the copy is of, 0 if there is no copy

vars == <<writes, born, copy>>

Init == writes = 0 /\ born = 0 /\ copy = 0

\* The user creates the object, or writes it again.
UserWrites ==
  /\ writes < MaxWrites
  /\ writes' = writes + 1
  /\ born' = IF born = 0 THEN writes + 1 ELSE born
  /\ copy' = copy

\* The object goes.
ObjectGoes ==
  /\ born # 0
  /\ born' = 0
  /\ UNCHANGED <<writes, copy>>

\* A copy of the object is made, as one of its writes has left it.
CopyIsMade ==
  /\ copy = 0
  /\ born # 0
  /\ copy' \in born .. writes
  /\ UNCHANGED <<writes, born>>

\* The copy moves on to a later write.
CopyMovesOn ==
  /\ copy # 0
  /\ copy' \in copy + 1 .. writes
  /\ UNCHANGED <<writes, born>>

\* The copy goes: the user's object has gone, or the provider has deleted it.
CopyGoes ==
  /\ copy # 0
  /\ copy' = 0
  /\ UNCHANGED <<writes, born>>

Next == UserWrites \/ ObjectGoes \/ CopyIsMade \/ CopyMovesOn \/ CopyGoes

\* Each has the other, once nobody writes any more.
Settles == <>[](born = 0 <=> copy = 0)

Safe == Init /\ [][Next]_vars
Spec == Safe /\ Settles
=============================================================================
