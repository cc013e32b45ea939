------------------------------- MODULE MCIndex -------------------------------
(* Two instances of the index.  In one, two tasks add and remove            *)
(* subscriptions at once: a filter written in three holds of the authors    *)
(* lock, one filed by kind, one by tag and a match-all filter.  In the      *)
(* other, one subscription, with two overlapping filters or a match-all     *)
(* filter, is added and replaced while two tasks distribute two events.     *)
EXTENDS IndexInvariant, IndexDelivery, TLC

CONSTANTS e1, e2, p1, p2, p3, k1, v1, u1, w1, w2, d1, d2

VARIABLE working   \* the tasks at work

MkFilter(as, ks, ts) ==
    [ids |-> {}, authors |-> as, kinds |-> ks, tags |-> ts, since |-> 0, until |-> 10]

Overlapping == <<MkFilter({p1, p2, p3}, {}, <<>>), MkFilter({}, {k1}, <<>>)>>
ByTag       == <<MkFilter({}, {}, <<{v1}>>)>>
All         == <<MkFilter({}, {}, <<>>)>>

MCFilterLists == {Overlapping, ByTag, All}

MCEvents ==
    {[id |-> e1, pubkey |-> p1, kind |-> k1, tags |-> {}, created_at |-> 1],
     [id |-> e2, pubkey |-> p2, kind |-> k1, tags |-> {}, created_at |-> 2]}

mcVars == <<deliveryVars, working>>

MCInit ==
    /\ DInit
    /\ working \in {Writers} \cup {{w} \cup Distributors : w \in Writers}

(* Bounds beside distributions: one subscription, two filters, two groups. *)
MayAdd(t) ==
    working # Writers =>
        /\ key'[t][3] = u1 /\ todo'[t] # ByTag
        /\ next_filter_id + Len(todo'[t]) <= 3 /\ nextGroup <= 2

MCNext ==
    /\ UNCHANGED working
    /\ \/ \E t \in Writers \cap working : (DCallAdd(t) /\ MayAdd(t)) \/ DCallRemove(t)
       \/ \E t \in Distributors \cap working : DCallDistribute(t) \/ DReturn(t)
       \/ \E t \in working : DCallStep(t)

MCSpec == MCInit /\ [][MCNext]_mcVars

TaskSymmetry == Permutations({w1, w2}) \cup Permutations({d1, d2})
=============================================================================
