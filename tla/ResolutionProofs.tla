--------------------------- MODULE ResolutionProofs ---------------------------
(***************************************************************************)
(* What ResolveNodes returns, for every address space, every list of       *)
(* entries and whatever calls fail.                                        *)
(*                                                                         *)
(* The search keeps no record of where it has been, so the invariant has   *)
(* to supply one: some set of visited nodes, the entry among them or still *)
(* on the stack, of which every one that was browsed completely has its    *)
(* variables among the leaves and its folders visited or on the stack.     *)
(* When the stack is empty that set is closed, and what is Below an entry, *)
(* the least closed set, lies in it.                                       *)
(***************************************************************************)
EXTENDS AppProofs

(* Where the search for an entry may come to at all.                       *)
Reach(e) == IF e.recursive THEN R!Below(e.node, {}) ELSE {e.node}

(* The search for e has found these leaves and has these nodes to browse.  *)
Searching(e, found, pending, missed) ==
    /\ R!Range(pending) \subseteq Reach(e) /\ R!Range(found) \subseteq R!Meant(e, {})
    /\ \E visited \in SUBSET Reach(e) :
          /\ e.node \in visited \cup R!Range(pending)
          /\ \A h \in visited \ missed :
                /\ R!Components(h) \subseteq R!Range(found)
                /\ e.recursive => R!Organized(h) \subseteq visited \cup R!Range(pending)

(* ResolvedBetween, for the entries that are done.                         *)
Finished(done, list, missed) ==
    /\ \A e \in done : R!Meant(e, missed) \subseteq R!Range(list)
    /\ R!Range(list) \subseteq UNION {R!Meant(e, {}) \cup {e.node} : e \in done}
    /\ missed = {} => R!Range(list) = UNION {R!OrItself(e, R!Meant(e, {})) : e \in done}

Parsing(list) == {e \in R!Range(list) : e.node \notin Garbage}

EntriesDone ==
    \E done \in SUBSET R!Valid : R!Valid = done \cup Parsing(todo) /\ Finished(done, resolved, failed)

EntryUnderWay ==
    todo # <<>> =>
        IF Head(todo).node \in Garbage THEN leaves = <<>>
        ELSE Searching(Head(todo), leaves, stack, failed)

SearchInv == phase = "resolve" => EntriesDone /\ EntryUnderWay

-----------------------------------------------------------------------------
(* Ranges *)

(* R has a Range of its own.                                               *)
LEMMA SameRange == \A f : R!Range(f) = Range(f)
BY DEF R!Range, Range

LEMMA EmptyRange == R!Range(<<>>) = {}
BY DEF R!Range

LEMMA RangeOfConcat ==
    ASSUME NEW X, NEW s \in Seq(X), NEW t \in Seq(X)
    PROVE  R!Range(s) \subseteq X /\ R!Range(s \o t) = R!Range(s) \cup R!Range(t)
BY SameRange, RangeOfSeq, RangeConcatenation

LEMMA RangeOfTail ==
    ASSUME NEW X, NEW s \in Seq(X), s # <<>>
    PROVE  R!Range(s) = {Head(s)} \cup R!Range(Tail(s))
<1> DEFINE n == Len(s) - 1
           rest == Tail(s)
<1>1. n \in Nat /\ Len(s) = n + 1 /\ s[1] = Head(s)
  BY EmptySeq, LenProperties, HeadTailProperties
<1>2. Len(rest) = n /\ (\A i \in 1..n : rest[i] = s[i + 1]) /\ rest \in Seq(X)
  BY HeadTailProperties
<1>3. R!Range(s) = {s[i] : i \in 1..(n + 1)} /\ R!Range(rest) = {rest[i] : i \in 1..n}
  BY <1>1, <1>2, SameRange, RangeEquality
<1> HIDE DEF n, rest
<1>4. ASSUME NEW i \in 1..(n + 1)
      PROVE  s[i] = s[1] \/ s[i] \in {rest[j] : j \in 1..n}
  <2>1. CASE i = 1
    BY <2>1
  <2>2. CASE i # 1
    <3>1. i - 1 \in 1..n /\ rest[i - 1] = s[(i - 1) + 1] /\ (i - 1) + 1 = i
      BY <1>1, <1>2, <2>2
    <3> QED
      BY <3>1
  <2> QED
    BY <2>1, <2>2
<1>5. \A j \in 1..n : rest[j] \in {s[i] : i \in 1..(n + 1)}
  BY <1>1, <1>2
<1>6. s[1] \in {s[i] : i \in 1..(n + 1)}
  BY <1>1
<1> QED
  BY <1>1, <1>3, <1>4, <1>5, <1>6 DEF rest

-----------------------------------------------------------------------------
(* What entries mean *)

(* The fewer nodes are avoided the more is meant.                          *)
LEMMA MeantAntitone ==
    ASSUME NEW e, NEW fewer, NEW more, fewer \subseteq more
    PROVE  R!Meant(e, more) \subseteq R!Meant(e, fewer)
<1>1. \A closed : (\A h \in closed \ fewer : R!Organized(h) \subseteq closed)
                => (\A h \in closed \ more : R!Organized(h) \subseteq closed)
  OBVIOUS
<1>2. R!Below(e.node, more) \subseteq R!Below(e.node, fewer)
  BY <1>1 DEF R!Below
<1> QED
  BY <1>2 DEF R!Meant

LEMMA BelowBounded ==
    ASSUME NEW f, NEW avoided
    PROVE  f \in R!Below(f, avoided) /\ R!Below(f, avoided) \subseteq Folders \cup {f}
BY DEF R!Below

(* The folders of a node that is Below are Below.                          *)
LEMMA BelowClosed ==
    ASSUME NEW f, NEW g \in R!Below(f, {}), R!Organized(g) \subseteq Folders
    PROVE  R!Organized(g) \subseteq R!Below(f, {})
<1> SUFFICES ASSUME NEW k \in R!Organized(g), NEW closed \in SUBSET (Folders \cup {f}),
                    f \in closed, \A h \in closed \ {} : R!Organized(h) \subseteq closed
             PROVE  k \in closed
  BY DEF R!Below
<1>1. g \in closed
  BY DEF R!Below
<1> QED
  BY <1>1

(* What the folders and variables of a browsed node are.                   *)
LEMMA NodeContents ==
    ASSUME ResolutionInv, NEW f \in R!Nodes
    PROVE  /\ R!Leaves(f) \in Seq(Variables) /\ R!Subfolders(f) \in Seq(R!Nodes \cup Garbage)
           /\ R!Range(R!Leaves(f)) = R!Components(f)
           /\ R!Range(R!Subfolders(f)) = R!Organized(f)
           /\ R!Organized(f) \subseteq Folders
<1>1. /\ R!Range(R!Visible(space.components[f])) = R!Range(space.components[f]) \ Hidden
      /\ R!Range(R!Visible(space.organizes[f])) = R!Range(space.organizes[f]) \ Hidden
      /\ R!Visible(space.organizes[f]) \in Seq(Folders)
  BY SpacesAssumption DEF ResolutionInv
<1>2. R!Range(R!Visible(space.organizes[f])) \subseteq Folders
  BY <1>1, RangeOfConcat
<1> QED
  BY <1>1, <1>2, FoldersTyped DEF R!Leaves, R!Subfolders, R!Components, R!Organized

-----------------------------------------------------------------------------
(* The search for one entry *)

(* It begins with the entry itself.                                        *)
LEMMA SearchBegins ==
    ASSUME NEW e, NEW missed
    PROVE  Searching(e, <<>>, <<e.node>>, missed)
<1>1. R!Range(<<e.node>>) = {e.node} /\ R!Range(<<>>) = {}
  BY DEF R!Range
<1>2. e.node \in Reach(e)
  BY BelowBounded DEF Reach
<1> QED
  BY <1>1, <1>2 DEF Searching

(* A node is taken from the stack.  If it was not missed, its variables    *)
(* are found and its folders wanted.                                       *)
LEMMA SearchContinues ==
    ASSUME NEW e, NEW found, NEW pending, NEW missed, Searching(e, found, pending, missed),
           NEW f, NEW rest, R!Range(pending) = {f} \cup R!Range(rest),
           NEW more, NEW next, NEW newMissed,
           missed \subseteq newMissed,
           R!Range(found) \subseteq R!Range(more), R!Range(more) \subseteq R!Meant(e, {}),
           R!Range(rest) \subseteq R!Range(next), R!Range(next) \subseteq Reach(e),
           f \notin newMissed => /\ R!Components(f) \subseteq R!Range(more)
                                 /\ e.recursive => R!Organized(f) \subseteq R!Range(next)
    PROVE  Searching(e, more, next, newMissed)
<1>1. PICK visited \in SUBSET Reach(e) :
          /\ e.node \in visited \cup R!Range(pending)
          /\ \A h \in visited \ missed :
                /\ R!Components(h) \subseteq R!Range(found)
                /\ e.recursive => R!Organized(h) \subseteq visited \cup R!Range(pending)
  BY DEF Searching
<1> DEFINE now == visited \cup {f}
<1>2. now \in SUBSET Reach(e) /\ e.node \in now \cup R!Range(next)
  BY <1>1 DEF Searching
<1>3. visited \cup R!Range(pending) \subseteq now \cup R!Range(next)
  OBVIOUS
<1>4. ASSUME NEW h \in now \ newMissed
      PROVE  /\ R!Components(h) \subseteq R!Range(more)
             /\ e.recursive => R!Organized(h) \subseteq now \cup R!Range(next)
  <2>1. CASE h = f
    BY <1>4, <2>1
  <2>2. CASE h # f
    <3>1. h \in visited \ missed
      BY <1>4, <2>2
    <3> QED
      BY <1>1, <1>3, <3>1
  <2> QED
    BY <2>1, <2>2
<1> HIDE DEF now
<1> QED
  BY <1>2, <1>4 DEF Searching

(* When nothing is left to browse, nothing meant is missing but what hangs *)
(* on a missed node.                                                       *)
LEMMA SearchEnds ==
    ASSUME NEW e, NEW found, NEW missed, Searching(e, found, <<>>, missed)
    PROVE  R!Meant(e, missed) \subseteq R!Range(found) /\ R!Range(found) \subseteq R!Meant(e, {})
<1>1. PICK visited \in SUBSET Reach(e) :
          /\ e.node \in visited
          /\ \A h \in visited \ missed :
                /\ R!Components(h) \subseteq R!Range(found)
                /\ e.recursive => R!Organized(h) \subseteq visited
  BY EmptyRange DEF Searching
<1>2. CASE e.recursive
  <2>1. visited \in SUBSET (Folders \cup {e.node})
    BY <1>1, <1>2, BelowBounded DEF Reach
  <2>2. R!Below(e.node, missed) \subseteq visited
    BY <1>1, <1>2, <2>1 DEF R!Below
  <2> QED
    BY <1>1, <1>2, <2>2 DEF R!Meant, Searching
<1>3. CASE ~e.recursive
  BY <1>1, <1>3 DEF R!Meant, Searching
<1> QED
  BY <1>2, <1>3

-----------------------------------------------------------------------------
(* The list of what was found *)

LEMMA FinishedStill ==
    ASSUME NEW done, NEW list, NEW missed, NEW newMissed, missed \subseteq newMissed,
           Finished(done, list, missed)
    PROVE  Finished(done, list, newMissed)
<1>1. \A e \in done : R!Meant(e, newMissed) \subseteq R!Meant(e, missed)
  BY MeantAntitone
<1> QED
  BY <1>1 DEF Finished

(* An entry is done: its leaves, or else the entry, join the list.         *)
LEMMA FinishedMore ==
    ASSUME NEW done, NEW list \in Seq(R!Nodes), NEW missed, Finished(done, list, missed),
           NEW e, e.node \in R!Nodes, NEW found \in Seq(Variables),
           R!Meant(e, missed) \subseteq R!Range(found), R!Range(found) \subseteq R!Meant(e, {})
    PROVE  Finished(done \cup {e},
                    list \o (IF found = <<>> THEN <<e.node>> ELSE found), missed)
<1> DEFINE added == IF found = <<>> THEN <<e.node>> ELSE found
           longer == list \o added
<1>1. R!Range(<<e.node>>) = {e.node} /\ <<e.node>> \in Seq(R!Nodes) /\ found \in Seq(R!Nodes)
  BY DEF R!Range, R!Nodes
<1>2. R!Range(longer) = R!Range(list) \cup R!Range(added)
  <2>1. added \in Seq(R!Nodes)
    BY <1>1, Zenon
  <2> HIDE DEF added
  <2> QED
    BY <2>1, RangeOfConcat
<1>3. found = <<>> <=> R!Range(found) = {}
  <2>1. CASE found # <<>>
    BY <2>1, RangeOfTail
  <2> QED
    BY <2>1, EmptyRange
<1>4. R!Range(added) = R!OrItself(e, R!Range(found))
  BY <1>1, <1>3 DEF R!OrItself
<1>5. R!Range(found) \subseteq R!Range(added) /\ R!Range(added) \subseteq R!Meant(e, {}) \cup {e.node}
  BY <1>4 DEF R!OrItself
<1> HIDE DEF longer, added
<1>6. \A x \in done \cup {e} : R!Meant(x, missed) \subseteq R!Range(longer)
  BY <1>2, <1>5 DEF Finished
<1>7. R!Range(longer) \subseteq UNION {R!Meant(x, {}) \cup {x.node} : x \in done \cup {e}}
  BY <1>2, <1>5 DEF Finished
<1>8. ASSUME missed = {}
      PROVE  R!Range(longer) = UNION {R!OrItself(x, R!Meant(x, {})) : x \in done \cup {e}}
  <2>1. R!Range(added) = R!OrItself(e, R!Meant(e, {}))
    <3>1. R!Meant(e, {}) \subseteq R!Range(found)
      BY <1>8
    <3>2. R!Range(found) = R!Meant(e, {})
      BY <3>1
    <3> QED
      BY <1>4, <3>2
  <2>2. R!Range(list) = UNION {R!OrItself(x, R!Meant(x, {})) : x \in done}
    BY <1>8 DEF Finished
  <2> QED
    BY <1>2, <2>1, <2>2
<1> QED
  BY <1>6, <1>7, <1>8 DEF Finished, longer, added

-----------------------------------------------------------------------------
(* The steps *)

(* The address space and the entries do not change.                        *)
LEMMA SameMeaning ==
    ASSUME UNCHANGED <<space, entries>>
    PROVE  /\ R!Valid' = R!Valid
           /\ Searching(Head(todo), leaves, stack, failed)'
                  <=> Searching(Head(todo'), leaves', stack', failed')
           /\ \A done : Finished(done, resolved, failed)' <=> Finished(done, resolved', failed')
<1> USE DEF R!Meant, R!Below, R!Components, R!Organized
<1>1. R!Valid' = R!Valid
  BY DEF R!Valid
<1>2. Searching(Head(todo), leaves, stack, failed)'
          <=> Searching(Head(todo'), leaves', stack', failed')
  BY DEF Searching, Reach
<1>3. \A done : Finished(done, resolved, failed)' <=> Finished(done, resolved', failed')
  BY DEF Finished, R!OrItself
<1> QED
  BY <1>1, <1>2, <1>3

LEMMA EntryBegins ==
    ASSUME UNCHANGED <<space, entries>>, stack' = R!Root(todo'), leaves' = <<>>
    PROVE  EntryUnderWay'
<1> SUFFICES ASSUME todo' # <<>>, Head(todo').node \notin Garbage
             PROVE  Searching(Head(todo'), leaves', stack', failed')
  BY SameMeaning DEF EntryUnderWay
<1>1. stack' = <<Head(todo').node>>
  BY DEF R!Root
<1> QED
  BY <1>1, SearchBegins

LEMMA ParsingTail ==
    ASSUME ResolutionInv, todo # <<>>
    PROVE  /\ Head(todo).node \in Garbage => Parsing(todo) = Parsing(Tail(todo))
           /\ Head(todo).node \notin Garbage =>
                 Parsing(todo) = {Head(todo)} \cup Parsing(Tail(todo)) /\ Head(todo).node \in R!Nodes
<1>1. R!Range(todo) = {Head(todo)} \cup R!Range(Tail(todo)) /\ Head(todo) \in R!Entries
  BY RangeOfTail, LastOfTail DEF ResolutionInv
<1>2. Head(todo).node \in R!Nodes \cup Garbage
  BY <1>1 DEF R!Entries
<1> QED
  BY <1>1, <1>2 DEF Parsing

LEMMA BeginSearch ==
    ASSUME R!Begin
    PROVE  EntriesDone' /\ EntryUnderWay'
<1>1. /\ todo' = entries /\ stack' = R!Root(todo') /\ leaves' = <<>>
      /\ resolved' = <<>> /\ failed' = {} /\ UNCHANGED <<space, entries>>
  BY DEF R!Begin
<1>2. Finished({}, resolved', failed')
  BY <1>1, EmptyRange DEF Finished
<1>3. R!Valid' = {} \cup Parsing(todo')
  BY <1>1 DEF R!Valid, Parsing
<1>4. EntriesDone'
  BY <1>1, <1>2, <1>3, SameMeaning DEF EntriesDone
<1> QED
  BY <1>1, <1>4, EntryBegins

LEMMA SkipSearch ==
    ASSUME ResolutionInv, EntriesDone, EntryUnderWay, R!SkipEntry
    PROVE  EntriesDone' /\ EntryUnderWay'
<1>1. /\ todo # <<>> /\ Head(todo).node \in Garbage
      /\ todo' = Tail(todo) /\ stack' = R!Root(todo')
      /\ UNCHANGED <<space, entries, leaves, resolved, failed>>
  BY DEF R!SkipEntry
<1>2. leaves' = <<>>
  BY <1>1 DEF EntryUnderWay
<1>3. Parsing(todo') = Parsing(todo)
  BY <1>1, ParsingTail
<1>4. EntriesDone'
  BY <1>1, <1>3, SameMeaning DEF EntriesDone
<1> QED
  BY <1>1, <1>2, <1>4, EntryBegins

LEMMA ContinueSearch ==
    ASSUME ResolutionInv, EntriesDone, todo # <<>>, Head(todo).node \notin Garbage,
           NEW found \in Seq(Variables), NEW pending, R!Continue(found, pending),
           failed \subseteq failed', Searching(Head(todo), found, pending, failed'),
           UNCHANGED <<space, entries>>
    PROVE  EntriesDone' /\ EntryUnderWay'
<1> DEFINE e == Head(todo)
<1>1. PICK done \in SUBSET R!Valid :
          R!Valid = done \cup Parsing(todo) /\ Finished(done, resolved, failed)
  BY DEF EntriesDone
<1>2. Finished(done, resolved, failed')
  BY <1>1, FinishedStill
<1>3. CASE pending # <<>>
  <2>1. leaves' = found /\ stack' = pending /\ UNCHANGED <<todo, resolved>>
    BY <1>3 DEF R!Continue
  <2>2. EntriesDone'
    BY <1>1, <1>2, <2>1, SameMeaning DEF EntriesDone
  <2>3. EntryUnderWay'
    BY <2>1, SameMeaning DEF EntryUnderWay
  <2> QED
    BY <2>2, <2>3
<1>4. CASE pending = <<>>
  <2>1. /\ resolved' = resolved \o (IF found = <<>> THEN <<e.node>> ELSE found)
        /\ todo' = Tail(todo) /\ stack' = R!Root(todo') /\ leaves' = <<>>
    BY <1>4 DEF R!Continue, R!CleanId
  <2>2. /\ R!Meant(e, failed') \subseteq R!Range(found)
        /\ R!Range(found) \subseteq R!Meant(e, {})
    BY <1>4, SearchEnds
  <2>3. e.node \in R!Nodes /\ Parsing(todo) = {e} \cup Parsing(todo')
    BY <2>1, ParsingTail
  <2>4. resolved \in Seq(R!Nodes)
    BY DEF ResolutionInv
  <2>5. Finished(done \cup {e}, resolved', failed')
    BY <1>2, <2>1, <2>2, <2>3, <2>4, FinishedMore
  <2> HIDE DEF e
  <2>6. done \cup {e} \in SUBSET R!Valid' /\ R!Valid' = (done \cup {e}) \cup Parsing(todo')
    BY <1>1, <2>3, SameMeaning
  <2>7. EntriesDone'
    BY <2>5, <2>6, SameMeaning DEF EntriesDone
  <2> QED
    BY <2>1, <2>7, EntryBegins
<1> QED
  BY <1>3, <1>4

(* One node is browsed, wholly, in part, or not at all.                    *)
LEMMA VisitSearch ==
    ASSUME ResolutionInv, EntriesDone, EntryUnderWay,
           NEW f \in R!Nodes, R!Browse(f) \/ R!BrowseVariablesOnly(f) \/ R!BrowseFails(f)
    PROVE  EntriesDone' /\ EntryUnderWay'
<1> DEFINE e == Head(todo)
           rest == Tail(stack)
           more == leaves \o R!Leaves(f)
           below == (IF e.recursive THEN R!Subfolders(f) ELSE <<>>) \o rest
<1>1. /\ todo # <<>> /\ e.node \notin Garbage /\ f = Head(stack)
      /\ UNCHANGED <<space, entries>>
  BY DEF R!Browse, R!BrowseVariablesOnly, R!BrowseFails, R!Visit
<1>2. Searching(e, leaves, stack, failed)
  BY <1>1 DEF EntryUnderWay
<1>3. /\ stack \in Seq(R!Nodes \cup Garbage) /\ rest \in Seq(R!Nodes \cup Garbage)
      /\ leaves \in Seq(Variables) /\ R!Range(stack) = {f} \cup R!Range(rest)
  BY <1>1, LastOfTail, RangeOfTail DEF ResolutionInv
<1>4. f \in Reach(e) /\ R!Range(rest) \subseteq Reach(e) /\ R!Range(leaves) \subseteq R!Meant(e, {})
  BY <1>2, <1>3 DEF Searching
<1>5. /\ more \in Seq(Variables)
      /\ R!Range(more) = R!Range(leaves) \cup R!Components(f)
  BY <1>3, NodeContents, RangeOfConcat, ConcatProperties
<1>6. R!Range(below) = (IF e.recursive THEN R!Organized(f) ELSE {}) \cup R!Range(rest)
  <2> DEFINE front == IF e.recursive THEN R!Subfolders(f) ELSE <<>>
  <2>1. /\ front \in Seq(R!Nodes \cup Garbage)
        /\ R!Range(front) = IF e.recursive THEN R!Organized(f) ELSE {}
    BY NodeContents, EmptyRange, EmptySeqs
  <2>2. rest \in Seq(R!Nodes \cup Garbage)
    BY <1>3
  <2> HIDE DEF front, rest
  <2>3. R!Range(front \o rest) = R!Range(front) \cup R!Range(rest)
    BY <2>1, <2>2, RangeOfConcat
  <2> QED
    BY <2>1, <2>3 DEF front
<1>7. R!Range(more) \subseteq R!Meant(e, {})
  BY <1>4, <1>5 DEF R!Meant, Reach
<1>8. R!Range(below) \subseteq Reach(e)
  BY <1>4, <1>6, NodeContents, BelowClosed DEF Reach
<1> HIDE DEF e, rest, more, below
<1>9. CASE R!Browse(f)
  <2>1. R!Continue(more, below) /\ failed' = failed
    BY <1>9 DEF R!Browse, e, rest, more, below
  <2>2. Searching(e, more, below, failed')
    BY <1>2, <1>3, <1>5, <1>6, <1>7, <1>8, <2>1, SearchContinues
  <2> QED
    BY <1>1, <1>5, <2>1, <2>2, ContinueSearch DEF e
<1>10. CASE R!BrowseVariablesOnly(f)
  <2>1. R!Continue(more, rest) /\ failed' = failed \cup {f}
    BY <1>10 DEF R!BrowseVariablesOnly, rest, more
  <2>2. Searching(e, more, rest, failed')
    BY <1>2, <1>3, <1>4, <1>5, <1>7, <2>1, SearchContinues
  <2> QED
    BY <1>1, <1>5, <2>1, <2>2, ContinueSearch DEF e
<1>11. CASE R!BrowseFails(f)
  <2>1. R!Continue(leaves, rest) /\ failed' = failed \cup {f}
    BY <1>11 DEF R!BrowseFails, rest
  <2>2. Searching(e, leaves, rest, failed')
    BY <1>2, <1>3, <1>4, <2>1, SearchContinues
  <2> QED
    BY <1>1, <1>3, <2>1, <2>2, ContinueSearch DEF e
<1> QED
  BY <1>9, <1>10, <1>11

LEMMA SearchInit == Init => SearchInv
BY DEF Init, SearchInv

LEMMA SearchStep == SearchInv /\ ResolutionInv /\ [Next]_vars => SearchInv'
<1> SUFFICES ASSUME SearchInv, ResolutionInv, [Next]_vars, phase' = "resolve"
             PROVE  EntriesDone' /\ EntryUnderWay'
  BY DEF SearchInv
<1>1. CASE StartCollector
  BY <1>1, BeginSearch DEF StartCollector
<1>2. CASE ResolveNodes
  <2>1. EntriesDone /\ EntryUnderWay
    BY <1>2 DEF ResolveNodes, SearchInv
  <2> QED
    BY <1>2, <2>1, SkipSearch, VisitSearch DEF ResolveNodes, R!Resolve
<1>3. CASE phase = "resolve" /\ UNCHANGED resolutionVars
  <2>1. EntriesDone /\ EntryUnderWay
    BY <1>3 DEF SearchInv
  <2>2. UNCHANGED <<space, entries, todo, stack, leaves, resolved, failed>>
    BY <1>3 DEF resolutionVars
  <2>3. EntriesDone'
    BY <2>1, <2>2, SameMeaning DEF EntriesDone
  <2>4. EntryUnderWay'
    BY <2>1, <2>2, SameMeaning DEF EntryUnderWay
  <2> QED
    BY <2>3, <2>4
<1>4. ~(LoadConfig \/ ConnectOpcua \/ ConnectOpcuaFails \/ SubscribeNodes)
  BY DEF LoadConfig, ConnectOpcua, ConnectOpcuaFails, SubscribeNodes
<1>5. ~(SubscribeReturns \/ StartWriteback \/ TickerPanics \/ Shutdown \/ ConnectNats)
  BY DEF SubscribeReturns, StartWriteback, TickerPanics, Shutdown, ConnectNats
<1>6. Subscribing \/ Nats \/ Flow \/ Server \/ UNCHANGED vars
        => phase = "resolve" /\ UNCHANGED resolutionVars
  BY DEF Subscribing, Nats, Flow, Server, vars, mainVars
<1> QED
  BY <1>1, <1>2, <1>3, <1>4, <1>5, <1>6 DEF Next, Main

(* The depth-first search with its skipped folders, hidden nodes and       *)
(* fallbacks (client.go 324-430): for every address space, folders that    *)
(* form cycles included, what ResolveNodes returns is at least what the    *)
(* entries mean without the nodes that could not be browsed, at most what  *)
(* they mean and the entries themselves, and exactly what they mean if all *)
(* calls succeed.                                                          *)
THEOREM SearchIsRight == Spec => []ResolvedBetween
<1>1. Init => ResolutionInv /\ SearchInv
  BY ResolutionInit, SearchInit
<1>2. ResolutionInv /\ SearchInv /\ [Next]_vars => ResolutionInv' /\ SearchInv'
  BY ResolutionStep, SearchStep
<1>3. SearchInv => ResolvedBetween
  <2> SUFFICES ASSUME SearchInv, phase = "resolve", todo = <<>>
               PROVE  Finished(R!Valid, resolved, failed)
    BY DEF ResolvedBetween, R!ResolvedBetween, Finished
  <2>1. Parsing(todo) = {}
    BY EmptyRange DEF Parsing
  <2>2. PICK done \in SUBSET R!Valid :
            R!Valid = done \cup Parsing(todo) /\ Finished(done, resolved, failed)
    BY DEF SearchInv, EntriesDone
  <2>3. done = R!Valid
    BY <2>1, <2>2
  <2> QED
    BY <2>2, <2>3
<1> QED
  BY <1>1, <1>2, <1>3, PTL DEF Spec
=============================================================================
