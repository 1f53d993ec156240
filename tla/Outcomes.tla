------------------------------ MODULE Outcomes ------------------------------
(***************************************************************************)
(* The calls of the SysLink wrappers run to their end within one task, and *)
(* every library call they make may fail.  An operation maps the state of  *)
(* its object, a record with the return code rc, to the set of the states  *)
(* it can leave.                                                           *)
(***************************************************************************)
Return(s, code) == [s EXCEPT !.rc = code]
Bad(s) == s.rc # "OK"

\* The operation goes on with Op unless it has failed; or in any case.
Then(S, Op(_)) == UNION {IF Bad(s) THEN {s} ELSE Op(s) : s \in S}
Always(S, Op(_)) == UNION {Op(s) : s \in S}
=============================================================================
