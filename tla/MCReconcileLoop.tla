--------------------------- MODULE MCReconcileLoop ---------------------------
(* Model values and bounds for checking ReconcileLoop with TLC.              *)
EXTENDS ReconcileLoop, FiniteSets

CONSTANTS i1, i2, t1, t2, t3

MCInstances == {i1, i2}
MCTokens    == {t1, t2, t3}

\* Fully tagged, or tagged for another target of the same account.
MCTags == {ContractTags, {"managed", "account"}}

\* At most one observation per instance, at most two instances.
MCListings ==
    LET Seen(i) == [id : {i}, lifecycle : Lifecycles, tags : MCTags]
    IN  {s1 \cup s2 : s1 \in {{}} \cup {{o} : o \in Seen(i1)},
                     s2 \in {{}} \cup {{o} : o \in Seen(i2)}}

\* A token without its deadline; a deadline without its token.
MCDamaged ==
    {[present |-> TRUE, target |-> TRUE, lifecycle |-> "provisioning",
      instance |-> i1, attempt |-> [token |-> t1, validTo |-> 0]],
     [present |-> TRUE, target |-> TRUE, lifecycle |-> "provisioning",
      instance |-> NoInstance, attempt |-> [token |-> NoToken, validTo |-> 2]]}
=============================================================================
