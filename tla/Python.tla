--------------------------------- MODULE Python ---------------------------------
(* What the modules of one instance share: Python's None, and its for loop.  A  *)
(* constant that all of them take from here is one constant for TLC, whichever  *)
(* of them uses it.                                                             *)
LOCAL INSTANCE Naturals
LOCAL INSTANCE Sequences

CONSTANT None

\* What is left of s when each element of the sequence in turn has changed it by a step.
ForEach(step(_, _), s, seq) ==
    LET after[n \in 0..Len(seq)] ==
            IF n = 0 THEN s ELSE step(after[n - 1], seq[n])
    IN after[Len(seq)]
================================================================================
