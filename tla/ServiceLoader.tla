--------------------------- MODULE ServiceLoader ---------------------------
(***************************************************************************)
(* The load phase of cinit: load_service_with_deps, which loads a service, *)
(* then recursively every service its `<name>.dep' files name, and builds  *)
(* the start order (src/cinit/cinit.c).                                    *)
(*                                                                         *)
(* Services are named by their directories.  The recursion is a stack of   *)
(* frames.  The working directory is part of the state: load_service       *)
(* enters the directory of the service it loads and nothing goes back, yet *)
(* the value of a .dep file is read relative to it.                        *)
(***************************************************************************)
EXTENDS Naturals, Sequences, FiniteSets, SequencesExt

CONSTANTS
  Names,        \* names of services, found below the services directory
  Default,      \* the group every load starts from
  Trees         \* the service directories to load from

\* The services directory: what each service is, the pairs <<s, d>> such that
\* s has a file `d.dep', and those of the files that say true; and the size of
\* the table, MAX_NUM_SERVICES, which is 64 in the code.
Tree == [kind : [Names -> {"enabled", "disabled", "broken"}],
         files : SUBSET (Names \X Names), yes : SUBSET (Names \X Names),
         limit : Nat \ {0}]

ASSUME LoaderAssumption ==
  /\ IsFiniteSet(Names) /\ Default \in Names
  /\ Trees \subseteq Tree

VARIABLES
  tree,      \* the services directory (never changes)
  pc,        \* "call", "scan", "loaded" or "failed"
  arg,       \* arguments of the call in progress
  stack,     \* frames: service, and the .dep files readdir has still to return
  cwd,       \* the service whose directory is the working directory
  table,     \* g_ctx.services, in the order of loading
  order,     \* g_ctx.start_order
  followed   \* history: the dependencies that were followed

vars == <<tree, pc, arg, stack, cwd, table, order, followed>>

Root == [service |-> Default, dependent |-> Default]

DepFiles(s) == {d \in Names : <<s, d>> \in tree.files}

Init ==
  /\ tree \in Trees
  /\ pc = "call" /\ arg = Root
  /\ stack = << >> /\ cwd = Default
  /\ table = << >> /\ order = << >> /\ followed = {}

Position(s) == CHOOSE i \in DOMAIN order : order[i] = s

\* add_to_start_order: right before the dependent, if there is one.
\* (Mutant: right after it.)
add_after(s, dependent) ==
  IF order = << >> THEN <<s>> ELSE InsertAt(order, Position(dependent) + 1, s)
add_to_start_order(s, dependent) ==
  IF order = << >> THEN <<s>> ELSE InsertAt(order, Position(dependent), s)

\* (Mutant of the test that the service is loaded already: only a service
\* whose own dependencies are being loaded is recognised.)
IsBeingLoaded(s) == \E i \in DOMAIN stack : stack[i].service = s
IsLoaded(s) == \E i \in DOMAIN table : table[i] = s

\* load_service throws, and nothing catches it before main does.
LoadFails(s) == tree.kind[s] = "broken" \/ Len(table) = tree.limit

\* A call returns to the frame below, the first one to main.
Return(rest) == pc' = IF rest = << >> THEN "loaded" ELSE "scan"

AlreadyLoaded ==
  /\ pc = "call" /\ IsLoaded(arg.service)
  /\ Return(stack)
  /\ UNCHANGED <<tree, arg, stack, cwd, table, order, followed>>

Failed ==
  /\ pc = "call" /\ ~IsLoaded(arg.service) /\ LoadFails(arg.service)
  /\ pc' = "failed"
  /\ UNCHANGED <<tree, arg, stack, cwd, table, order, followed>>

\* load_service; a disabled service is in the table but not in the order.
LoadDisabled ==
  /\ pc = "call" /\ ~IsLoaded(arg.service) /\ ~LoadFails(arg.service)
  /\ tree.kind[arg.service] = "disabled"
  /\ cwd' = arg.service
  /\ table' = Append(table, arg.service)
  /\ Return(stack)
  /\ UNCHANGED <<tree, arg, stack, order, followed>>

Load ==
  /\ pc = "call" /\ ~IsLoaded(arg.service) /\ ~LoadFails(arg.service)
  /\ tree.kind[arg.service] = "enabled"
  /\ cwd' = arg.service
  /\ table' = Append(table, arg.service)
  /\ order' = add_to_start_order(arg.service, arg.dependent)
  /\ stack' = <<[service |-> arg.service, todo |-> DepFiles(arg.service)]>> \o stack
  /\ pc' = "scan"
  /\ UNCHANGED <<tree, arg, followed>>

\* What load_value_as_bool leaves in the uninitialised `depends': the value
\* of the file of that name in the working directory or, if there is none
\* there, whatever the stack held.
Depends(d) ==
  {b \in BOOLEAN : <<cwd, d>> \in tree.files => (b <=> <<cwd, d>> \in tree.yes)}

\* readdir goes on after the file it has returned.  (Mutant: it starts over.)
Rewound(d)   == stack[1].todo
Remaining(d) == stack[1].todo \ {d}

\* readdir returns the .dep files of the frame's directory in any order.
Scan ==
  /\ pc = "scan" /\ stack[1].todo # {}
  /\ \E d \in stack[1].todo : \E depends \in Depends(d) :
       /\ stack' = [stack EXCEPT ![1].todo = Remaining(d)]
       /\ IF depends
          THEN /\ pc' = "call"
               /\ arg' = [service |-> d, dependent |-> stack[1].service]
               /\ followed' = followed \cup {<<stack[1].service, d>>}
          ELSE UNCHANGED <<pc, arg, followed>>
  /\ UNCHANGED <<tree, cwd, table, order>>

\* The directory is read to its end; cwd stays where the last load left it.
EndOfScan ==
  /\ pc = "scan" /\ stack[1].todo = {}
  /\ stack' = Tail(stack)
  /\ Return(Tail(stack))
  /\ UNCHANGED <<tree, arg, cwd, table, order, followed>>

Next == AlreadyLoaded \/ Failed \/ LoadDisabled \/ Load \/ Scan \/ EndOfScan

Spec == Init /\ [][Next]_vars /\ WF_vars(Next)

-----------------------------------------------------------------------------
(* Properties. *)

Frame == [service : Names, todo : SUBSET Names]

\* Type invariant of the loader.
TypeOK ==
  /\ tree \in Tree
  /\ pc \in {"call", "scan", "loaded", "failed"}
  /\ arg \in [service : Names, dependent : Names]
  /\ stack \in Seq(Frame) /\ (pc = "scan" => stack # << >>)
  /\ cwd \in Names
  /\ table \in Seq(Names) /\ order \in Seq(Names)
  /\ followed \subseteq Names \X Names

Distinct(seq) == \A i, j \in DOMAIN seq : seq[i] = seq[j] => i = j
EnabledLoaded == {s \in Names : IsLoaded(s) /\ tree.kind[s] = "enabled"}

\* The table never overflows nor lists a service twice, and the start order
\* is a permutation of its services that are not disabled.
OrderOfTable ==
  /\ Len(table) <= tree.limit /\ Distinct(table)
  /\ Distinct(order) /\ ToSet(order) = EnabledLoaded

\* The services whose dependencies are still being loaded are the end of the
\* order, innermost first: whatever is loaded next comes before all of them
\* and after everything that is complete.
StackIsSuffix ==
  /\ Len(stack) <= Len(order)
  /\ \A i \in DOMAIN stack : order[Len(order) - Len(stack) + i] = stack[i].service

Before(s, t) == \E i, j \in DOMAIN order : i < j /\ order[i] = s /\ order[j] = t

\* The dependencies of dependencies, along a set of edges.
Closure(edges, from) ==
  LET step[n \in 0 .. Cardinality(Names)] ==
        IF n = 0 THEN {from}
        ELSE step[n - 1] \cup {t \in Names : \E s \in step[n - 1] : <<s, t>> \in edges}
  IN  step[Cardinality(Names)]

\* A dependency that was followed starts first, unless it leads back to the
\* service that depends on it.
FollowedFirst ==
  pc = "loaded" =>
    \A e \in followed :
      tree.kind[e[2]] = "enabled" /\ e[1] \notin Closure(followed, e[2])
        => Before(e[2], e[1])

\* Loading ends, also when services depend on each other in a circle.
Terminates == <>(pc \in {"loaded", "failed"})

\* README.md:473 "`srvB.dep` means `srvB` must start first": a dependency
\* whose file says true is honoured, unless it leads back.
DeclaredFirst ==
  pc = "loaded" =>
    \A e \in tree.yes :
      e[1] \in ToSet(order) /\ tree.kind[e[2]] = "enabled"
        /\ e[1] \notin Closure(tree.yes, e[2])
      => Before(e[2], e[1])
=============================================================================
