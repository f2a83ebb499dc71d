--------------------------- MODULE SupervisorTree ---------------------------
(***************************************************************************)
(* The hierarchy of supervisors (SupervisorTree, supervisor.rs).  The      *)
(* parent of a supervisor is stored twice, in the supervisor and in its    *)
(* parent's list, and a subtree is removed by walking the lists.  A list   *)
(* is how often it holds each supervisor: nothing depends on the order.    *)
(* Of a supervisor's children only the names that are up or stopped are    *)
(* kept; what their exits do is the subject of module Supervisor.          *)
(***************************************************************************)
EXTENDS Integers, FiniteSetsExt

CONSTANTS Ids, Root, NoParent, ChildNames

ASSUME SupervisorTreeAssumption == Root \in Ids /\ NoParent \notin Ids

VARIABLES parent,               \* of the supervisors there are
          supervisor_children,  \* the lists: how often it is in them, per supervisor
          tree_children         \* the children: name -> "up" or "stopped", per supervisor

tree_vars == <<parent, supervisor_children, tree_children>>

supervisors == DOMAIN parent

EmptyList == [t \in Ids |-> 0]

TreeInit ==
  /\ parent = [s \in {Root} |-> NoParent]
  /\ supervisor_children = [s \in {Root} |-> EmptyList]
  /\ tree_children = [s \in {Root} |-> <<>>]

WithEntry(f, x, v) == [y \in DOMAIN f \cup {x} |-> IF y = x THEN v ELSE f[y]]

Keep(f, S) == [x \in DOMAIN f \cap S |-> f[x]]

(* add_supervisor: s is the new id *)
AddSupervisor(p, s) ==
  /\ p \in supervisors /\ s \notin supervisors
  /\ parent' = WithEntry(parent, s, p)
  /\ tree_children' = WithEntry(tree_children, s, <<>>)
  /\ supervisor_children' =
       WithEntry([supervisor_children EXCEPT ![p][s] = @ + 1], s, EmptyList)

StartChildUnder(s, n) ==
  /\ s \in supervisors /\ n \notin DOMAIN tree_children[s]
  /\ tree_children' = [tree_children EXCEPT ![s] = WithEntry(@, n, "up")]
  /\ UNCHANGED <<parent, supervisor_children>>

-----------------------------------------------------------------------------
Listed(s) == {t \in Ids : supervisor_children[s][t] > 0}

(* Fault: only the direct children. *)
CollectOneLevel(s) == {s} \cup Listed(s)

(* collect_subtree: the walk down the lists from s meets the members of the
   smallest set that holds s and whatever is listed under a member. *)
CollectSubtree(s) ==
  {t \in Ids : \A S \in SUBSET Ids :
                 (s \in S /\ \A u \in S \cap supervisors : Listed(u) \subseteq S) => t \in S}

(* Fault: a removed supervisor stays in its parent's list. *)
TerminateTreeListed(s) ==
  LET gone == CollectSubtree(s) \ {Root} IN
  /\ s \in supervisors
  /\ parent' = Keep(parent, supervisors \ gone)
  /\ tree_children' = [t \in supervisors \ gone |->
                         IF t \in CollectSubtree(s) THEN [n \in DOMAIN tree_children[t] |-> "stopped"]
                         ELSE tree_children[t]]
  /\ supervisor_children' = Keep(supervisor_children, supervisors \ gone)

(* terminate_tree: every child in the subtree is stopped, every supervisor of
   it but the root is removed, with its place in the lists. *)
TerminateTree(s) ==
  LET subtree == CollectSubtree(s)
      gone == subtree \ {Root}
  IN
  /\ s \in supervisors
  /\ parent' = Keep(parent, supervisors \ gone)
  /\ tree_children' = [t \in supervisors \ gone |->
                         IF t \in subtree THEN [n \in DOMAIN tree_children[t] |-> "stopped"]
                         ELSE tree_children[t]]
  /\ supervisor_children' = [t \in supervisors \ gone |->
                               [u \in Ids |-> IF u \in gone THEN 0 ELSE supervisor_children[t][u]]]

TreeNext ==
  \E s \in Ids :
    \/ \E p \in Ids : AddSupervisor(p, s)
    \/ \E n \in ChildNames : StartChildUnder(s, n)
    \/ TerminateTree(s)

TreeSpec == TreeInit /\ [][TreeNext]_tree_vars

-----------------------------------------------------------------------------
(* calculate_depth *)
Depth[s \in Ids] ==
  IF s \notin supervisors \/ Listed(s) = {} THEN 0
  ELSE 1 + Max({Depth[t] : t \in Listed(s)})

(* Fault: the depth of the shortest branch. *)
LeastDepth[s \in Ids] ==
  IF s \notin supervisors \/ Listed(s) = {} THEN 0
  ELSE 1 + Min({LeastDepth[t] : t \in Listed(s)})
TreeDepthLeast == LeastDepth[Root]

TreeDepth == Depth[Root]

-----------------------------------------------------------------------------
(* Properties *)

TreeTypeOK ==
  /\ Root \in supervisors /\ supervisors \subseteq Ids
  /\ DOMAIN supervisor_children = supervisors /\ DOMAIN tree_children = supervisors
  /\ \A s \in supervisors : /\ parent[s] \in Ids \cup {NoParent}
                            /\ supervisor_children[s] \in [Ids -> Nat]
                            /\ DOMAIN tree_children[s] \subseteq ChildNames

(* The two records of the hierarchy agree after every sequence of additions
   and removals: t is listed under s, once, exactly when s is t's parent and
   both are there.  (The state stays well typed.) *)
ListsAgree ==
  /\ TreeTypeOK
  /\ \A s \in supervisors, t \in Ids :
       supervisor_children[s][t] = IF t \in supervisors /\ parent[t] = s THEN 1 ELSE 0

(* s is above t, or is t, by the parent fields: it is in every set that holds
   t and the parents of its members. *)
Above(s, t) ==
  \A S \in SUBSET supervisors :
    (t \in S /\ \A u \in S : parent[u] \in supervisors => parent[u] \in S) => s \in S

(* Every supervisor is below the root, so no removal leaves one that
   terminate_tree and tree_depth no longer see. *)
AllReachable == \A s \in supervisors : Above(Root, s)

(* tree_depth, computed down the lists, is the largest number of supervisors
   above one of them. *)
DepthExact ==
  TreeDepth = Max({Cardinality({t \in supervisors : Above(t, s)}) - 1 : s \in supervisors})

=============================================================================
