-------------------------- MODULE MCNavigationLoad --------------------------
EXTENDS NavigationLoad
CONSTANTS p1, p2, n1, t1, l1, l2

Group(nav, children) == [nav |-> nav, children |-> children]
MCTrees == {[type |-> "Post", groups |-> <<Group("notes", <<>>), Group("tags", <<>>)>>],
            [type |-> "Note", groups |-> <<Group("post", <<Group("tags", <<>>)>>)>>]}
MCStore == [fk |-> [n \in {n1} |-> p1], links |-> {<<p1, t1>>}]
Willing == [key |-> None, nav |-> "post", left |-> 0]
MCStarts ==
    {[store |-> MCStore, held |-> <<p1, n1, t1>>, own |-> <<>>, refuser |-> r] :
        r \in {Willing, [key |-> p1, nav |-> "notes", left |-> 0]}}
    \cup {[store |-> MCStore, held |-> <<>>, own |-> <<n1>>, refuser |-> r] :
        r \in {Willing, [key |-> n1, nav |-> "post", left |-> 1]}}
=============================================================================
