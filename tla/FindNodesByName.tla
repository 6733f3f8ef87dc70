--------------------------- MODULE FindNodesByName ---------------------------
(***************************************************************************)
(* FindNodesByName (Driver.cpp 516-630): each target name given on the     *)
(* command line is resolved against the DAG's named-node table, in table   *)
(* order: the first entry at case-insensitive edit distance 0 wins at      *)
(* once; otherwise a unique case-insensitive prefix match is taken;        *)
(* otherwise a node declaring the name as an output file; otherwise the    *)
(* process croaks, listing the fuzzy and prefix suggestions.               *)
(* LevenshteinDistanceNoCase (476-510) is the dynamic-programming table of *)
(* the code, checked against the recursive definition of edit distance.   *)
(*                                                                         *)
(* Strings are sequences of one-character strings.  The names here hold    *)
(* letters only, for which PathInit/PathFormat return the name unchanged.  *)
(***************************************************************************)
EXTENDS Naturals, Sequences, SequencesExt

CONSTANTS
  Chars,        \* the alphabet of names
  Lower(_),     \* tolower
  NodeOutputs,  \* NodeOutputs[n]: output file paths of DAG node n
  TableSize,    \* entries of dag->m_NamedNodes
  MaxNameLen,   \* longest target name
  NamedLen,     \* longest named-node name
  MaxTargets    \* target names on the command line

Str(lo, hi) == UNION {[1 .. k -> Chars] : k \in lo .. hi}
Names == Str(1, NamedLen)
NodeIds == DOMAIN NodeOutputs

MinOf(a, b) == IF a <= b THEN a ELSE b
MaxOf(a, b) == IF a >= b THEN a ELSE b

(* Mutation of LevenshteinDistanceNoCase: characters compared with their  *)
(* case (the tolower calls dropped).                                       *)
MutLevenshteinCaseSensitive(s, t) ==
  LET n == Len(s)
      m == Len(t)
      d[x \in 0 .. n, y \in 0 .. m] ==
        IF x = 0 THEN y
        ELSE IF y = 0 THEN x
        ELSE IF s[x] = t[y] THEN d[x - 1, y - 1]
        ELSE MinOf(MinOf(d[x - 1, y] + 1, d[x, y - 1] + 1), d[x - 1, y - 1] + 1)
  IN  IF n = 0 THEN m ELSE IF m = 0 THEN n ELSE d[n, m]

(* d[x][y] of the code: the distance between the first x characters of s  *)
(* and the first y of t, compared case-insensitively.                     *)
LevenshteinDistanceNoCase(s, t) ==
  LET n == Len(s)
      m == Len(t)
      d[x \in 0 .. n, y \in 0 .. m] ==
        IF x = 0 THEN y
        ELSE IF y = 0 THEN x
        ELSE IF Lower(s[x]) = Lower(t[y]) THEN d[x - 1, y - 1]
        ELSE MinOf(MinOf(d[x - 1, y] + 1, d[x, y - 1] + 1), d[x - 1, y - 1] + 1)
  IN  IF n = 0 THEN m ELSE IF m = 0 THEN n ELSE d[n, m]

(* strncasecmp(named, name, strlen(name)) == 0: a shorter named string     *)
(* differs at its terminating NUL.                                         *)
IsCasePrefix(name, named) ==
  /\ Len(named) >= Len(name)
  /\ \A k \in 1 .. Len(name) : Lower(named[k]) = Lower(name[k])

(* std::max(0, std::min((int)strlen(name) - 2, 4))                         *)
FuzzyMatchLimit(name) == MaxOf(0, MinOf(Len(name) - 2, 4))

VARIABLES
  table,       \* dag->m_NamedNodes: sequence of [name, node]
  names,       \* the target names
  i,           \* name_i
  j,           \* the named node the scan is at
  found,
  foundMatchingPrefix,
  prefixIsAmbigious,
  prefixNode,  \* nodeDataForMatchingPrefix->m_NodeIndex
  fuzzyMatches,\* set of [score, string]
  outNodes,    \* out_nodes
  resolved,    \* history: resolved[x] is what out_nodes gained for names[x]
  pc

vars == <<table, names, i, j, found, foundMatchingPrefix, prefixIsAmbigious,
          prefixNode, fuzzyMatches, outNodes, resolved, pc>>

(* The frontend writes one named-node entry per distinct name; entry k    *)
(* names node k - 1.                                                       *)
NamedNodeTables ==
  {t \in [1 .. TableSize -> [name : Names, node : NodeIds]] :
     /\ \A x \in 1 .. TableSize : t[x].node = x - 1
     /\ \A x, y \in 1 .. TableSize : x # y => t[x].name # t[y].name}

TargetLists == UNION {[1 .. k -> Str(0, MaxNameLen)] : k \in 1 .. MaxTargets}

Init ==
  /\ table \in NamedNodeTables
  /\ names \in TargetLists
  /\ i = 1
  /\ j = 1
  /\ found = FALSE
  /\ foundMatchingPrefix = FALSE
  /\ prefixIsAmbigious = FALSE
  /\ prefixNode = 0
  /\ fuzzyMatches = {}
  /\ outNodes = <<>>
  /\ resolved = [x \in 1 .. Len(names) |-> <<>>]
  /\ pc = "scan"

Name == names[i]

(* Mutation of PrefixIsAmbigiousAfter: the assignment is made for every   *)
(* named node, outside the prefix branch.                                  *)
MutPrefixIsAmbigiousAfter(isPrefix) == foundMatchingPrefix

(* prefixIsAmbigious = foundMatchingPrefix, inside the prefix branch.      *)
PrefixIsAmbigiousAfter(isPrefix) ==
  IF isPrefix THEN foundMatchingPrefix ELSE prefixIsAmbigious

(* Mutation of PrefixScore: the lengths subtracted the other way round.    *)
MutPrefixScore(named) == Len(Name) - Len(named)

(* strlen(named_node.m_Name) - strlen(name): the score of a prefix         *)
(* suggestion.                                                             *)
PrefixScore(named) == Len(named) - Len(Name)

(* One iteration over the named nodes: an exact (case-insensitive) match   *)
(* is appended and ends the scan; otherwise a fuzzy match and a prefix     *)
(* match are noted.                                                        *)
ScanNamedNode ==
  /\ pc = "scan"
  /\ j <= Len(table)
  /\ LET named == table[j].name
         distance == LevenshteinDistanceNoCase(named, Name)
         isFuzzyMatch == distance <= FuzzyMatchLimit(Name)
         isPrefix == IsCasePrefix(Name, named)
     IN  IF distance = 0
           THEN /\ outNodes' = Append(outNodes, table[j].node)
                /\ resolved' = [resolved EXCEPT ![i] = <<table[j].node>>]
                /\ found' = TRUE
                /\ pc' = "resolve"
                /\ UNCHANGED <<j, foundMatchingPrefix, prefixIsAmbigious,
                               prefixNode, fuzzyMatches>>
           ELSE /\ fuzzyMatches' =
                     fuzzyMatches
                       \cup (IF isFuzzyMatch THEN {[score |-> distance, string |-> named]} ELSE {})
                       \cup (IF isPrefix /\ ~isFuzzyMatch
                               THEN {[score |-> PrefixScore(named), string |-> named]}
                               ELSE {})
                /\ prefixIsAmbigious' = PrefixIsAmbigiousAfter(isPrefix)
                /\ foundMatchingPrefix' = (foundMatchingPrefix \/ isPrefix)
                /\ prefixNode' = IF isPrefix /\ ~foundMatchingPrefix THEN table[j].node ELSE prefixNode
                /\ j' = j + 1
                /\ UNCHANGED <<outNodes, resolved, found, pc>>
  /\ UNCHANGED <<table, names, i>>

(* The scan ran through the table without an exact match.                  *)
EndScan ==
  /\ pc = "scan"
  /\ j > Len(table)
  /\ pc' = "resolve"
  /\ UNCHANGED <<table, names, i, j, found, foundMatchingPrefix,
                 prefixIsAmbigious, prefixNode, fuzzyMatches, outNodes, resolved>>

(* PathCompare is strcmp on a case-sensitive file system; equal strings    *)
(* have equal Djb2HashPath.                                                *)
OutputMatches(name) ==
  SelectSeq(SetToSortSeq(NodeIds, <), LAMBDA n : name \in NodeOutputs[n])

(* After the scan: an unambiguous prefix is autocompleted; a name not yet  *)
(* found is looked up among the output files of every node (the break     *)
(* leaves only the loop over one node's outputs, so every node declaring  *)
(* the file is appended).                                                  *)
ByPrefix == ~found /\ foundMatchingPrefix /\ ~prefixIsAmbigious
Gained ==
  IF found THEN <<>>
  ELSE IF ByPrefix THEN <<prefixNode>>
  ELSE OutputMatches(Name)

AppendGained ==
  /\ outNodes' = outNodes \o Gained
  /\ resolved' = [resolved EXCEPT ![i] = @ \o Gained]

(* The name is mapped and another follows: per-name state starts afresh.   *)
ResolveName ==
  /\ pc = "resolve"
  /\ found \/ Gained # <<>>
  /\ i < Len(names)
  /\ AppendGained
  /\ pc' = "scan"
  /\ i' = i + 1
  /\ j' = 1
  /\ found' = FALSE
  /\ foundMatchingPrefix' = FALSE
  /\ prefixIsAmbigious' = FALSE
  /\ prefixNode' = 0
  /\ fuzzyMatches' = {}
  /\ UNCHANGED <<table, names>>

(* The last name is mapped: FindNodesByName returns.                       *)
ResolveLastName ==
  /\ pc = "resolve"
  /\ found \/ Gained # <<>>
  /\ i = Len(names)
  /\ AppendGained
  /\ pc' = "done"
  /\ UNCHANGED <<table, names, i, j, found, foundMatchingPrefix,
                 prefixIsAmbigious, prefixNode, fuzzyMatches>>

(* No mapping: Croak prints the suggestions and ends the process.          *)
Croak ==
  /\ pc = "resolve"
  /\ ~found /\ Gained = <<>>
  /\ pc' = "croak"
  /\ UNCHANGED <<table, names, i, j, found, foundMatchingPrefix, prefixIsAmbigious,
                 prefixNode, fuzzyMatches, outNodes, resolved>>

Next == ScanNamedNode \/ EndScan \/ ResolveName \/ ResolveLastName \/ Croak

(* FindNodesByName returns, or Croak ends the process.                     *)
Spec == Init /\ [][Next]_vars

-----------------------------------------------------------------------------
Fuzzy == [score : Nat, string : Names]

TypeOK ==
  /\ table \in NamedNodeTables
  /\ names \in TargetLists
  /\ i \in 1 .. Len(names)
  /\ j \in 1 .. TableSize + 1
  /\ found \in BOOLEAN
  /\ foundMatchingPrefix \in BOOLEAN
  /\ prefixIsAmbigious \in BOOLEAN
  /\ prefixNode \in NodeIds
  /\ fuzzyMatches \subseteq Fuzzy
  /\ outNodes \in Seq(NodeIds)
  /\ resolved \in [1 .. Len(names) -> Seq(NodeIds)]
  /\ pc \in {"scan", "resolve", "done", "croak"}

(* Reference: edit distance by its recursive definition over suffixes,     *)
(* characters compared case-insensitively.                                 *)
RECURSIVE EditDistance(_, _)
EditDistance(s, t) ==
  IF s = <<>> THEN Len(t)
  ELSE IF t = <<>> THEN Len(s)
  ELSE IF Lower(Head(s)) = Lower(Head(t)) THEN EditDistance(Tail(s), Tail(t))
  ELSE 1 + MinOf(MinOf(EditDistance(Tail(s), t), EditDistance(s, Tail(t))),
                 EditDistance(Tail(s), Tail(t)))

(* The table LevenshteinDistanceNoCase fills computes the case-insensitive *)
(* edit distance for every named node and target met, empty target        *)
(* included.                                                               *)
LevenshteinMatchesReference ==
  pc = "scan" /\ j <= Len(table) =>
    LevenshteinDistanceNoCase(table[j].name, Name) = EditDistance(table[j].name, Name)

CaseEqual(a, b) == Len(a) = Len(b) /\ \A k \in 1 .. Len(a) : Lower(a[k]) = Lower(b[k])

(* Reference resolution, as the code orders it: the first named node equal *)
(* to the name ignoring case; else the only named node the name is a       *)
(* prefix of; else every node declaring the name as an output.             *)
ExpectedFor(nm) ==
  LET exact  == {k \in 1 .. Len(table) : CaseEqual(table[k].name, nm)}
      prefix == {k \in 1 .. Len(table) : IsCasePrefix(nm, table[k].name)}
  IN  IF exact # {} THEN <<table[Min(exact)].node>>
      ELSE IF Cardinality(prefix) = 1 THEN <<table[Min(prefix)].node>>
      ELSE OutputMatches(nm)

(* Each name maps to exactly the nodes the resolution order gives it; an   *)
(* ambiguous prefix is never autocompleted, and the process croaks only on *)
(* a name that has no mapping at all.                                      *)
ResolutionFollowsPrecedence ==
  /\ pc = "done" => \A x \in 1 .. Len(names) : resolved[x] = ExpectedFor(names[x])
  /\ pc = "croak" =>
       /\ ExpectedFor(Name) = <<>>
       /\ \A x \in 1 .. i - 1 : resolved[x] = ExpectedFor(names[x])

(* spec.md 4.1: an exact case-sensitive match comes before a               *)
(* case-insensitive one; a name spelled exactly as a named node maps to    *)
(* that node.                                                              *)
ExactMatchPreferred ==
  pc = "done" =>
    \A x \in 1 .. Len(names) :
      \A k \in 1 .. Len(table) :
        table[k].name = names[x] => resolved[x] = <<table[k].node>>

=============================================================================
