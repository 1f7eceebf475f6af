--------------------------- MODULE MCServiceShard ---------------------------
(* Instances of ServiceShard: every division of two resources between two  *)
(* documents and a register, and a few layouts with every choice of levels *)
(* that declare the setting.                                               *)
EXTENDS ServiceShard

Doc == Docs \cup {NoDoc}

(* With a register.                                                        *)
Divided ==
  {[protocol |-> "http", resourcesRef |-> TRUE, serviceRef |-> d, register |-> reg,
    registerDoc |-> rd, ownDoc |-> own, paths |-> paths,
    listed |-> [x \in Docs |-> Resources], declared |-> {"service"}] :
     d \in Doc, reg \in {Resources, {"r1"}}, rd \in Doc,
     own \in [Resources -> Doc], paths \in [Docs -> SUBSET Resources]}

(* Without one.                                                            *)
Listing ==
  {[protocol |-> p, resourcesRef |-> FALSE, serviceRef |-> d, register |-> {},
    registerDoc |-> NoDoc, ownDoc |-> [r \in Resources |-> NoDoc],
    paths |-> paths, listed |-> listed, declared |-> {"service"}] :
     p \in {"http", "local_templated"}, d \in {"d1", NoDoc},
     paths \in [Docs -> SUBSET Resources],
     listed \in {[x \in Docs |-> l] : l \in SUBSET Resources}}

(* Either, with two resources in two documents.                            *)
Levelled ==
  {[protocol |-> p, resourcesRef |-> ref, serviceRef |-> "d1", register |-> Resources,
    registerDoc |-> NoDoc, ownDoc |-> [r \in Resources |-> IF r = "r1" THEN "d2" ELSE NoDoc],
    paths |-> [x \in Docs |-> Resources], listed |-> [x \in Docs |-> Resources],
    declared |-> levels] :
     p \in {"http", "local_templated"}, ref \in BOOLEAN, levels \in SUBSET Level}

AllLayouts == Divided \cup Listing \cup Levelled
=============================================================================
