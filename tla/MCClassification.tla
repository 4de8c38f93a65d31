-------------------------- MODULE MCClassification --------------------------
(* Every predicate on two values and two errors, every closure on options. *)
EXTENDS Classification

MCClassifiers ==
  Predicated \cup {DefaultResult, DefaultOption, DefaultControlFlow}
    \cup {Until(OkMatching(m)) : m \in SUBSET Values}
    \cup {When(ErrorMatching(m)) : m \in SUBSET Errors}
    \cup {When(AnyError)} \cup Closures(Options)
=============================================================================
