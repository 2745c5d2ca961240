-------------------------- MODULE MCServiceLoader --------------------------
(* Instances of ServiceLoader for TLC. *)
EXTENDS ServiceLoader

\* Bound: the .dep files of a tree, and those of them that say false.
MaxFiles == 4
MaxFalse == 1

Edges == {e \in Names \X (Names \ {Default}) : e[1] # e[2]}

UpTo(n, S) == {T \in SUBSET S : Cardinality(T) <= n}

\* At most one service is disabled or broken.
Kinds == {[m \in Names |-> IF m = n THEN k ELSE "enabled"] :
            n \in Names \ {Default}, k \in {"enabled", "disabled", "broken"}}

\* Circles included.
Graphs ==
  {t \in [kind : Kinds, files : UpTo(MaxFiles, Edges), yes : UpTo(MaxFiles, Edges),
          limit : {Cardinality(Names) - 1, Cardinality(Names)}] :
     t.yes \subseteq t.files /\ Cardinality(t.files \ t.yes) <= MaxFalse}

\* Nothing is disabled or broken.
PlainGraphs == {t \in Graphs : \A n \in Names : t.kind[n] = "enabled"}
=============================================================================
