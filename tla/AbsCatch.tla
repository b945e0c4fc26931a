------------------------------ MODULE AbsCatch ------------------------------
(***************************************************************************)
(* What *catch, *throw and errors promise a Lisp program: the catches it is *)
(* in the dynamic scope of, each at its level, outer ones lower, are left   *)
(* from the inside, in order, or all at once up to the innermost one that   *)
(* is for what is raised.                                                   *)
(***************************************************************************)
EXTENDS Integers

CONSTANTS Tags, errobj, all,
          Levels   \* numbers; levels may be left out, as other calls have them

VARIABLES scopes,  \* the tag of each level at which a *catch form is open
          raised   \* what the last step raised: a tag, "error" or "none"

NoScopes == [l \in {} |-> all]

Init == scopes = NoScopes /\ raised = "none"

\* The scopes that are left when control goes out of the one at level l.
Outside(l) == [k \in {k \in DOMAIN scopes : k < l} |-> scopes[k]]

Enter(t) == \E l \in Levels :
              /\ \A k \in DOMAIN scopes : k < l
              /\ scopes' = [k \in DOMAIN scopes \union {l} |->
                              IF k = l THEN t ELSE scopes[k]]
              /\ raised' = "none"

Leave == \E l \in DOMAIN scopes :
           /\ \A k \in DOMAIN scopes : k <= l
           /\ scopes' = Outside(l)
           /\ raised' = "none"

\* Control goes out of the scope at level l, and no inner one was for it.
To(l, tags) == /\ scopes[l] \in tags
               /\ \A k \in DOMAIN scopes : l < k => scopes[k] \notin tags
               /\ scopes' = Outside(l)

Throw(t) == /\ \E l \in DOMAIN scopes : To(l, {t, all})
            /\ raised' = t

\* An error nobody catches goes to the top level.
Error == /\ \/ \E l \in DOMAIN scopes : To(l, {errobj, all})
            \/ /\ \A l \in DOMAIN scopes : scopes[l] \notin {errobj, all}
               /\ scopes' = NoScopes
         /\ raised' = "error"

Calm == raised' = "none" /\ UNCHANGED scopes

Next == \/ Leave \/ Error \/ Calm
        \/ \E t \in Tags : Enter(t) \/ Throw(t)

Spec == Init /\ [][Next]_<<scopes, raised>>
=============================================================================
