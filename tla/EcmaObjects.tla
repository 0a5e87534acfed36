----------------------------- MODULE EcmaObjects -----------------------------
(***************************************************************************)
(* Objects whose properties are defined by the letter of ECMA-262 8.12.9:  *)
(* the abstract specification of Objects.                                  *)
(***************************************************************************)
EXTENDS Objects

EcmaDefined(x, n, d) ==
    IF n \in DOMAIN x.props
    THEN [x EXCEPT !.props[n] =
            IF EcmaVerdict(@, d) = "merge" THEN EcmaMerge(@, d) ELSE @]
    ELSE IF x.extensible THEN [x EXCEPT !.props = Bind(@, n, NewSlot(d))] ELSE x

\* The definition of n by d on o does what 8.12.9 says: it is refused if and
\* only if it is to be refused, and leaves what it is to leave.
AsEcma(x, n, d) ==
    /\ Defined(x, n, d) = EcmaDefined(x, n, d)
    /\ n \in DOMAIN x.props =>
        (Verdict(x.props[n], d) = "reject" <=> EcmaVerdict(x.props[n], d) = "reject")

\* An accessor property is redefined as a data property without a value: the
\* one case in which merge leaves something else than 8.12.9 does.
KeepsAccessorAsValue(x, n, d) ==
    /\ n \in DOMAIN x.props
    /\ x.props[n].kind = "accessor"
    /\ Kind(d) = "data" /\ "value" \notin d.has

\* In every other case is_defined_property_accepted (whose comment names this
\* section of the standard), merge_with_no_effect, merge and StoredSlot::new
\* together do exactly what 8.12.9 says.
FollowsEcmaOtherwise ==
    \A o \in Objects, n \in Names, d \in Descriptors :
        Exists(o) /\ ~KeepsAccessorAsValue(object[o], n, d) => AsEcma(object[o], n, d)
=============================================================================
