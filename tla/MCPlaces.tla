------------------------------ MODULE MCPlaces ------------------------------
(***************************************************************************)
(* What is tried in the arena of the allocation: profiles of applicants    *)
(* and sets of rules.                                                      *)
(***************************************************************************)
EXTENDS MCArenas, Places

\* A rule reads the class or the form field that it names.
Of(src) == [source |-> IF src = "CLASS" THEN src ELSE "FORM_FIELD", field |-> src]
Guarantee(i, src, vals, q) ==
    [id |-> i, order |-> i, type |-> "GROUP_GUARANTEE", values |-> vals, quota |-> q] @@ Of(src)
Priority(i, src, vals) ==
    [id |-> i, order |-> i, type |-> "PRIORITY", values |-> vals, quota |-> 0] @@ Of(src)

\* What an applicant fills in: every class and answer, and each left out once.
MCProfiles == {<<k1, [county |-> x, club |-> y]>>, <<k1, [county |-> y]>>,
               <<k2, [county |-> x, club |-> x]>>, <<k2, [club |-> y]>>,
               <<NoValue, [county |-> y, club |-> x]>>}

\* Rule sets: none, one guarantee (with a quota of 1 and 2), a guarantee for one value
\* only, guarantees that compete, a priority, two that overlap, and a mix of fields.
MCRuleSets == {
    {},
    {Guarantee(1, "county", {}, 1)},
    {Guarantee(1, "CLASS", {}, 2)},
    {Guarantee(1, "county", {x}, 2)},
    {Guarantee(1, "county", {}, 1), Guarantee(2, "CLASS", {}, 1)},
    {Guarantee(1, "county", {}, 1), Guarantee(2, "club", {}, 1)},
    {Priority(1, "county", {x})},
    {Priority(2, "county", {x}), Priority(1, "CLASS", {k1})},
    {Priority(2, "club", {x}), Priority(1, "CLASS", {k1}),
     Guarantee(3, "county", {}, 1)}}
=============================================================================
