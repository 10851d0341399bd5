------------------------------ MODULE IpaDriver ------------------------------
(***************************************************************************)
(* The wrappers around the IPA driver's ioctls (IPACM_Filtering,           *)
(* IPACM_Routing, IPACM_Header), as the interface objects see them.        *)
(*                                                                         *)
(* A function of the code is an operator from the caller's state s to the  *)
(* set of its outcomes [st, ok].  s is a record with at least              *)
(*   hw      the bag of rules and headers the driver holds                 *)
(*   hdl     the filter rules whose handle variable is not 0; the code     *)
(*           does not zero it when it deletes the rule: hdl may outlive hw *)
(*   faults  how many more ioctls may fail (a bound)                       *)
(* A rule that the code adds and deletes as one array is one element.      *)
(***************************************************************************)
EXTENDS Naturals, Sequences, SequencesExt, Bags

CONSTANTS MayFail   \* the ioctls that may fail

Ok(s) == {[st |-> s, ok |-> TRUE]}
Fail(s) == {[st |-> s, ok |-> FALSE]}

\* "if (f() == IPACM_FAILURE) return IPACM_FAILURE; ..."
AndThen(outcomes, F(_)) ==
    UNION {IF o.ok THEN F(o.st) ELSE {o} : o \in outcomes}

\* "f(); ...": the result is ignored.
Anyway(outcomes, F(_)) == UNION {F(o.st) : o \in outcomes}

\* "for (...) if (f(x) == IPACM_FAILURE) return IPACM_FAILURE;" over a sequence.
EachOf(s, xs, F(_, _)) ==
    FoldLeft(LAMBDA outcomes, x : AndThen(outcomes, LAMBDA t : F(t, x)), Ok(s), xs)

\* "for (...) f(x);"
EachAnyway(s, xs, F(_, _)) ==
    FoldLeft(LAMBDA outcomes, x : Anyway(outcomes, LAMBDA t : F(t, x)), Ok(s), xs)

Upto(n) == [i \in 1..n |-> i]

\* The states f() may leave, when nobody looks at its result.
States(outcomes) == {o.st : o \in outcomes}

Ioctl(s, name, t) ==
    Ok(t) \cup IF name \in MayFail /\ s.faults > 0
               THEN Fail([s EXCEPT !.faults = @ - 1]) ELSE {}

Install(s, r) == [s EXCEPT !.hw = @ (+) SetToBag({r})]
Uninstall(s, r) == [s EXCEPT !.hw = @ (-) SetToBag({r})]
Installed(s, r) == BagIn(r, s.hw)

----------------------------------------------------------------------------
(* IPACM_Filtering *)

AddFilteringRule(s, r) ==
    Ioctl(s, "ADD_FLT_RULE", [Install(s, r) EXCEPT !.hdl = @ \cup {r}])

\* The driver refuses a handle it does not know.
DeleteFilteringRule(s, r) ==
    IF Installed(s, r) THEN Ioctl(s, "DEL_FLT_RULE", Uninstall(s, r)) ELSE Fail(s)

\* A handle of 0 is skipped and reported as success.
DeleteFilteringHdls(s, r) ==
    IF r \notin s.hdl THEN Ok(s) ELSE DeleteFilteringRule(s, r)

ModifyFilteringRule(s, r) ==
    IF Installed(s, r) THEN Ioctl(s, "MDFY_FLT_RULE", s) ELSE Fail(s)

\* The modem is told which filter rules it may use.
SendFilteringRuleIndex(s) == Ioctl(s, "ADD_FLT_RULE_INDEX", s)

----------------------------------------------------------------------------
(* IPACM_Routing *)

AddRoutingRule(s, r) == Ioctl(s, "ADD_RT_RULE", Install(s, r))

\* Mutant: a rule is deleted only in name.
DeleteRoutingHdl_Kept(s, r) == Ok(s)

\* A handle of 0 is skipped, and a failure is reported as success: the
\* "res = false" follows the goto.
DeleteRoutingHdl(s, r) ==
    IF ~Installed(s, r) THEN Ok(s)
    ELSE {[o EXCEPT !.ok = TRUE] : o \in Ioctl(s, "DEL_RT_RULE", Uninstall(s, r))}

GetRoutingTable(s) == Ioctl(s, "GET_RT_TBL", s)

----------------------------------------------------------------------------
(* IPACM_Header *)

CopyHeader(s) == Ioctl(s, "COPY_HDR", s)
AddHeader(s, r) == Ioctl(s, "ADD_HDR", Install(s, r))

\* Unlike the others this one refuses a handle of 0 as the driver does a stale one.
DeleteHeaderHdl(s, r) ==
    IF Installed(s, r) THEN Ioctl(s, "DEL_HDR", Uninstall(s, r)) ELSE Fail(s)

=============================================================================
