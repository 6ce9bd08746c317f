---------------------------- MODULE Composition ----------------------------
(***************************************************************************)
(* How dialects are made and combined (src/core/define-dialect.ts): packs  *)
(* of operations added, blocked and overridden, and the router that picks  *)
(* a dialect by the extension of a file, at run time and in its type.      *)
(*                                                                         *)
(* A file is its base name, a sequence of characters, of which only "."    *)
(* matters.  Operations are functions from names to what they run.         *)
(***************************************************************************)
EXTENDS Naturals, Sequences, FiniteSets, SequencesExt

CONSTANTS
  BaseVerbs,   \* what every handle has: then, read, modify, ...
  Retired      \* raw: reserved, and no verb any longer

ReservedHandleNames == BaseVerbs \cup Retired   \* RESERVED_HANDLE_NAMES

Refused == [refused |-> TRUE]
Blocked == "blocked"

Dialect(extensions, ops) == [extensions |-> extensions, ops |-> ops]

(* Object.assign: what the one says, and what the other says besides.      *)
Over(new, old) == [o \in DOMAIN new \cup DOMAIN old |-> IF o \in DOMAIN new THEN new[o] ELSE old[o]]

-----------------------------------------------------------------------------
(* Files and handles.                                                      *)

Stem(base, extension) == SubSeq(base, 1, Len(base) - Len(extension))

(* A name that is all extension, or has a dot before it, has none.         *)
HasDeclaredExtension(base, extensions) ==
  \E e \in extensions :
     IsSuffix(e, base) /\ Stem(base, e) # <<>> /\ Last(Stem(base, e)) # "."

(* createDialectHandle: the operations go over the base verbs.             *)
Handle(ops) == Over(ops, [v \in BaseVerbs |-> v])

Find(dialect, base) ==
  IF HasDeclaredExtension(base, dialect.extensions) THEN Handle(dialect.ops) ELSE Refused

-----------------------------------------------------------------------------
(* Composition.  Later packs and overrides win.                            *)

AssertNoCompositionCollision(dialect, packs) ==
  /\ \A i \in DOMAIN packs : DOMAIN packs[i] \cap (ReservedHandleNames \cup DOMAIN dialect.ops) = {}
  /\ \A i, j \in DOMAIN packs : i # j => DOMAIN packs[i] \cap DOMAIN packs[j] = {}

WithOps(dialect, packs) ==
  IF dialect = Refused \/ ~AssertNoCompositionCollision(dialect, packs) THEN Refused
  ELSE Dialect(dialect.extensions, FoldLeft(LAMBDA ops, pack : Over(pack, ops), dialect.ops, packs))

AssertKnownOps(dialect, names) == names \subseteq DOMAIN dialect.ops

WithoutOps(dialect, names) ==
  IF dialect = Refused \/ ~AssertKnownOps(dialect, names) THEN Refused
  ELSE Dialect(dialect.extensions, Over([o \in names |-> Blocked], dialect.ops))

OverrideOps(dialect, overrides) ==
  IF dialect = Refused \/ ~AssertKnownOps(dialect, DOMAIN overrides) THEN Refused
  ELSE Dialect(dialect.extensions, Over(overrides, dialect.ops))

-----------------------------------------------------------------------------
(* Routing: routes map extensions to dialects.                             *)

ByExtension(routes) == \A e \in DOMAIN routes : e \in routes[e].extensions

(* A slip: the order of the lengths is the wrong way round.                *)
RouteShortest(routes, base) ==
  LET matching == {e \in DOMAIN routes : HasDeclaredExtension(base, {e})}
  IN CHOOSE e \in matching : \A f \in matching : Len(e) <= Len(f)

(* The longest of the extensions that match.                               *)
Route(routes, base) ==
  LET matching == {e \in DOMAIN routes : HasDeclaredExtension(base, {e})}
  IN CHOOSE e \in matching : \A f \in matching : Len(f) <= Len(e)

RouterFind(routes, base) ==
  IF \E e \in DOMAIN routes : HasDeclaredExtension(base, {e})
  THEN Find(routes[Route(routes, base)], base)
  ELSE Refused

MatchingKey(routes, base) == {e \in DOMAIN routes : IsSuffix(e, base)}

LongestKey(keys) == {e \in keys : \A f \in keys \ {e} : ~IsSuffix(e, f)}

(* The handles that the type of find(base) allows.                         *)
RoutedHandle(routes, base) ==
  {Handle(routes[e].ops) : e \in LongestKey(MatchingKey(routes, base))}

-----------------------------------------------------------------------------
(* The longest key is all there is of the name, or follows a dot: the type *)
(* takes it for the extension, find does not.                              *)
Dotted(routes, base) ==
  \E e \in LongestKey(MatchingKey(routes, base)) : ~HasDeclaredExtension(base, {e})

(* Packs can be added one by one or together, in any order, and are taken  *)
(* or refused alike; no composition changes a verb that every handle has,  *)
(* or an operation that it does not name; and what a router finds has the  *)
(* type that the compiler gives it.                                        *)
DialectsCompose(dialect, p, q, routes, base) ==
  LET both == WithOps(dialect, <<p, q>>)
      derived == {both, WithoutOps(dialect, DOMAIN p), OverrideOps(dialect, p)} \ {Refused}
  IN /\ both = WithOps(WithOps(dialect, <<p>>), <<q>>)
     /\ both = WithOps(dialect, <<q, p>>)
     /\ \A d \in derived : Find(d, base) # Refused =>
          /\ \A v \in BaseVerbs : Find(d, base)[v] = v
          /\ \A o \in DOMAIN dialect.ops \ DOMAIN p : Find(d, base)[o] = dialect.ops[o]
     /\ ByExtension(routes) /\ ~Dotted(routes, base) =>
          IF MatchingKey(routes, base) = {} THEN RouterFind(routes, base) = Refused
          ELSE {RouterFind(routes, base)} = RoutedHandle(routes, base)
=============================================================================
