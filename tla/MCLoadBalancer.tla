--------------------------- MODULE MCLoadBalancer ---------------------------
(* Two requests over two sources.  The first source takes two connections, *)
(* the second one; r1 has one URL at i1 and two at i2, r2 is only at i1.   *)
EXTENDS LoadBalancer

CONSTANTS i1, i2, r1, r2, u1, u2

MCIndexOrder == <<i1, i2>>
MCMax == [i \in {i1, i2} |-> IF i = i1 THEN 2 ELSE 1]
MCSubUrls(r, i) ==
    IF i = i1 THEN <<u1>> ELSE IF r = r1 THEN <<u1, u2>> ELSE <<>>

=============================================================================
