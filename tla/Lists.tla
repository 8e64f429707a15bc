------------------------------- MODULE Lists -------------------------------
(* What the code filters a list by, as a recursive function.               *)
EXTENDS Naturals, Sequences

(* What is left of a sequence when only the members of T stay.             *)
Only(s, T) ==
    LET f[n \in 0..Len(s)] ==
            IF n = 0 THEN <<>> ELSE IF s[n] \in T THEN Append(f[n - 1], s[n]) ELSE f[n - 1]
    IN  f[Len(s)]
=============================================================================
