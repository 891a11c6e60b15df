------------------------------ MODULE Resolution ------------------------------
(***************************************************************************)
(* ResolveNodes of internal/opcua/client.go: the configured entries become *)
(* the list of nodes to monitor.  An entry "f" stands for the variables    *)
(* directly in folder f, an entry "f.*" for those in all folders below it  *)
(* as well, and an entry without variables for itself.                     *)
(*                                                                         *)
(* browseAllLeaves is recursive in the code.  Here its pending calls are a *)
(* stack of folders, the next one first; one step is the part of a call    *)
(* that concerns its own folder.  A child that cannot be browsed           *)
(* contributes nothing, and neither the code nor the model remembers which *)
(* folders have been visited.                                              *)
(***************************************************************************)
EXTENDS Naturals, Sequences, FiniteSets, Functions

CONSTANTS
    Variables, Folders,  \* the nodes of the server
    Hidden,              \* those whose browse name starts with "_"
    Garbage,             \* configured ids that do not parse
    MaxBrowses           \* bound: folders browsed

Nodes == Variables \cup Folders
Entries == [node : Nodes \cup Garbage, recursive : BOOLEAN]

VARIABLES
    space,       \* the address space: what each node has as components, and what it organizes
    entries,     \* subscription_nodes
    todo,        \* the entries not yet resolved; the first one is being worked on
    stack,       \* the nodes still to be browsed for it
    leaves,      \* the variables found for it
    resolved,    \* the list that ResolveNodes returns
    browses,     \* nodes browsed so far
    failed       \* history: nodes that could not be browsed, or not completely

resolutionVars == <<space, entries, todo, stack, leaves, resolved, browses, failed>>

Spaces == [components : [Nodes -> Seq(Variables)], organizes : [Nodes -> Seq(Folders)]]

-----------------------------------------------------------------------------
(* Browsing one node *)

Visible(nodes) == SelectSeq(nodes, LAMBDA n : n \notin Hidden)

WithHidden(f) == space.components[f]    \* mutant: variables named "_..." are kept
Leaves(f) == Visible(space.components[f])

(* Mutant: references are followed in both directions.                     *)
SubfoldersAndParents(f) ==
    LET parents == {g \in Folders : f \in Range(space.organizes[g])}
    IN  Visible(space.organizes[f])
        \o (IF parents = {} THEN <<>> ELSE <<CHOOSE g \in parents : TRUE>>)
Subfolders(f) == Visible(space.organizes[f])

-----------------------------------------------------------------------------
Root(list) == IF list = <<>> THEN <<>> ELSE <<Head(list).node>>

(* Mutant: the entry is kept with its suffix.                              *)
RawId(e) == IF e.recursive THEN "raw" ELSE e.node
CleanId(e) == e.node

(* The variables found for the current entry and the folders still pending.*)
Continue(found, pending) ==
    IF pending # <<>>
    THEN /\ leaves' = found /\ stack' = pending
         /\ UNCHANGED <<todo, resolved>>
    ELSE /\ resolved' = resolved \o (IF found = <<>> THEN <<CleanId(Head(todo))>> ELSE found)
         /\ todo' = Tail(todo)
         /\ stack' = Root(Tail(todo)) /\ leaves' = <<>>

(* ResolveNodes begins.                                                    *)
Begin ==
    /\ todo' = entries /\ stack' = Root(entries)
    /\ leaves' = <<>> /\ resolved' = <<>> /\ browses' = 0 /\ failed' = {}
    /\ UNCHANGED <<space, entries>>

(* ParseNodeID fails: a warning, and on to the next entry.                 *)
SkipEntry ==
    /\ todo # <<>> /\ Head(todo).node \in Garbage
    /\ todo' = Tail(todo) /\ stack' = Root(Tail(todo))
    /\ UNCHANGED <<space, entries, leaves, resolved, browses, failed>>

Visit(f) ==
    /\ todo # <<>> /\ Head(todo).node \notin Garbage
    /\ f = Head(stack)
    /\ browses < MaxBrowses /\ browses' = browses + 1
    /\ UNCHANGED <<space, entries>>

(* browseVariableLeaves, or browseAllLeaves with all its references.       *)
Browse(f) ==
    /\ Visit(f)
    /\ Continue(leaves \o Leaves(f),
                (IF Head(todo).recursive THEN Subfolders(f) ELSE <<>>) \o Tail(stack))
    /\ UNCHANGED failed

(* The second call of References fails: the variables are kept.            *)
BrowseVariablesOnly(f) ==
    /\ Visit(f) /\ Head(todo).recursive
    /\ Continue(leaves \o Leaves(f), Tail(stack))
    /\ failed' = failed \cup {f}

(* The first call fails.  For the entry itself this leaves nothing found.  *)
BrowseFails(f) ==
    /\ Visit(f)
    /\ Continue(leaves, Tail(stack))
    /\ failed' = failed \cup {f}

-----------------------------------------------------------------------------
Init ==
    /\ space \in Spaces /\ entries \in Seq(Entries)
    /\ todo = <<>> /\ stack = <<>> /\ leaves = <<>> /\ resolved = <<>>
    /\ browses = 0 /\ failed = {}

Resolve ==
    \/ SkipEntry
    \/ \E f \in Nodes : Browse(f) \/ BrowseVariablesOnly(f) \/ BrowseFails(f)

Next == Begin \/ Resolve

Spec == Init /\ [][Next]_resolutionVars

-----------------------------------------------------------------------------
(* Properties *)

TypeOK ==
    /\ space \in Spaces
    /\ entries \in Seq(Entries) /\ todo \in Seq(Entries)
    /\ stack \in Seq(Nodes \cup Garbage)
    /\ leaves \in Seq(Variables)
    /\ resolved \in Seq(Nodes)
    /\ browses \in Nat /\ failed \subseteq Nodes

Components(f) == Range(space.components[f]) \ Hidden
Organized(f) == Range(space.organizes[f]) \ Hidden

(* The folders below f, itself included, that can be reached without going *)
(* through those in avoided: the least set closed under visible references.*)
Below(f, avoided) ==
    {g \in Folders \cup {f} :
        \A S \in SUBSET (Folders \cup {f}) :
            f \in S /\ (\A h \in S \ avoided : Organized(h) \subseteq S) => g \in S}

Acyclic == \A f \in Folders : \A g \in Organized(f) : f \notin Below(g, {})

(* The variables an entry stands for, as far as they are found without     *)
(* browsing the avoided nodes.                                             *)
Meant(e, avoided) ==
    LET folders == IF e.recursive THEN Below(e.node, avoided) ELSE {e.node}
    IN  UNION {Components(f) : f \in folders \ avoided}

Valid == {e \in Range(entries) : e.node \notin Garbage}
OrItself(e, found) == IF found = {} THEN {e.node} ELSE found

(* The depth-first search with its skipped folders, hidden nodes and       *)
(* fallbacks (client.go 324-430) loses nothing but what hangs on a node    *)
(* that could not be browsed, and adds nothing but an entry itself; when   *)
(* every call succeeds it is exactly what the entries mean.  This is about *)
(* the time from Begin on; in the end, when no entry is left to be done.   *)
ResolvedBetween ==
    todo = <<>> =>
        /\ \A e \in Valid : Meant(e, failed) \subseteq Range(resolved)
        /\ Range(resolved) \subseteq UNION {Meant(e, {}) \cup {e.node} : e \in Valid}
        /\ failed = {} => Range(resolved) = UNION {OrItself(e, Meant(e, {})) : e \in Valid}
=============================================================================
