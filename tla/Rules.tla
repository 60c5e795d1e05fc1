------------------------------- MODULE Rules -------------------------------
(***************************************************************************)
(* The rule chain of one source: how it is matched (rules.py) and how      *)
(* administrators edit it (api/rules.py).                                  *)
(*                                                                         *)
(* A path is the sequence of its names, as is_safe_relative_path accepts   *)
(* it.  A glob is the sequence of its segments: the set of the names that  *)
(* literals, "*" and "?" match, Deep for "**", or Spanning for one such as *)
(* "a**b" that crosses "/".  A glob with such a segment is known by the    *)
(* paths it matches, and a regex by the paths it finds.                    *)
(*                                                                         *)
(* As in Organisation, a handler reads what is committed, writes in one    *)
(* transaction only the columns it changes, and may be overtaken between.  *)
(***************************************************************************)
EXTENDS Tables, SequencesExt

CONSTANTS
    Names,          \* of files and directories
    MaxDepth,       \* bound on the names in a path
    Deep, Spanning, \* the segments that are not sets of names
    Spanned,        \* the paths that each glob with a Spanning segment matches
    Regexes,
    Finds,          \* the paths that each of them finds
    Broken,         \* one RE2 rejects, saved before patterns were validated
    Texts,          \* the rules that requests ask for: a type and a pattern
    OldTexts,       \* the rules a source may have at first
    MaxOld,         \* bound on the rules at first and those pasted at once
    MaxRules,       \* bound on the ids
    MaxListed,      \* bound on the ids a reorder lists
    MaxRequests     \* bound on the requests served

ASSUME BoundsAssumption ==
    /\ MaxDepth \in Nat /\ MaxOld \in 0..MaxRules
    /\ MaxRules \in Nat /\ MaxListed \in Nat /\ MaxRequests \in Nat

\* No request brings a pattern that parse_pattern rejects.
ASSUME TextsAssumption == Texts \subseteq OldTexts /\ \A t \in Texts : t.pattern # Broken
ASSUME RegexesAssumption == Broken \in Regexes
\* What is not a regex is a glob, and splitting one at "/" leaves a segment at least.
ASSUME GlobsAssumption ==
    \A t \in OldTexts :
        t.kind \in {"glob", "regex"} /\ (t.kind = "glob" =>
            t.pattern \in Seq({Deep, Spanning} \cup SUBSET Names) /\ t.pattern # <<>>)

VARIABLES
    rules,      \* by id: order, type, kind and pattern
    waiting,    \* the request that has passed its checks and not committed
    served      \* history: of the last request served, whether it was overtaken and whether it
                \* adds an exclude; and how many were

vars == <<rules, waiting, served>>

Paths == UNION {[1..n -> Names] : n \in 1..MaxDepth}
Dirs == {d \in Paths : Len(d) < MaxDepth}
Below == [d \in Dirs |-> {p \in Paths : Len(p) > Len(d) /\ SubSeq(p, 1, Len(d)) = d}]

Nobody == [op |-> "none"]

(***************************************************************************)
(* Matching.                                                               *)
(***************************************************************************)

\* Where a walk along a glob and a path may be, past the end of either too.
Positions(glob, path) == (1..(Len(glob) + 1)) \X (1..(Len(path) + 1))

Spans(glob) == \E i \in DOMAIN glob : glob[i] = Spanning

\* _compile_glob: "**/" stands for any directories or none, and a "**" at the end for
\* the rest of the path, which is not empty.
GlobMatches(glob, path) ==
    IF Spans(glob) THEN path \in Spanned[glob] ELSE
    LET walk[at \in Positions(glob, path)] ==
            LET i == at[1]
                j == at[2]
            IN \/ i > Len(glob) /\ j > Len(path)
               \/ /\ i <= Len(glob) /\ j <= Len(path)
                  /\ \/ /\ glob[i] = Deep
                        /\ i = Len(glob) \/ walk[<<i + 1, j>>] \/ walk[<<i, j + 1>>]
                     \/ /\ glob[i] # Deep
                        /\ path[j] \in glob[i] /\ walk[<<i + 1, j + 1>>]
    IN walk[<<1, 1>>]

\* _glob_could_match_below: something is left to match a child.
CouldMatchBelow(glob, dir) ==
    Spans(glob) \/
    LET walk[at \in Positions(glob, dir)] ==
            LET i == at[1]
                j == at[2]
            IN /\ i <= Len(glob)
               /\ \/ j > Len(dir)
                  \/ /\ j <= Len(dir) /\ glob[i] = Deep
                     /\ walk[<<i + 1, j>>] \/ walk[<<i, j + 1>>]
                  \/ /\ j <= Len(dir) /\ glob[i] # Deep
                     /\ dir[j] \in glob[i] /\ walk[<<i + 1, j + 1>>]
    IN walk[<<1, 1>>]

\* _glob_matches_exactly: here a "**" at the end may also stand for nothing.
MatchesExactly(glob, dir) ==
    LET walk[at \in Positions(glob, dir)] ==
            LET i == at[1]
                j == at[2]
            IN \/ i > Len(glob) /\ j > Len(dir)
               \/ /\ i <= Len(glob) /\ glob[i] = Deep
                  /\ walk[<<i + 1, j>>] \/ (j <= Len(dir) /\ walk[<<i, j + 1>>])
               \/ /\ i <= Len(glob) /\ glob[i] # Deep
                  /\ j <= Len(dir) /\ dir[j] \in glob[i] /\ walk[<<i + 1, j + 1>>]
    IN walk[<<1, 1>>]

\* Mutant: the directory itself is tried, its ancestors are not.
CoversEverythingBelow_itself(glob, dir) ==
    /\ ~Spans(glob) /\ Last(glob) = Deep
    /\ MatchesExactly(Front(glob), dir)

\* _glob_covers_everything_below: X/** where X matches the directory or an ancestor.
CoversEverythingBelow(glob, dir) ==
    /\ ~Spans(glob) /\ Last(glob) = Deep
    /\ \E k \in 0..Len(dir) : MatchesExactly(Front(glob), SubSeq(dir, 1, k))

\* The answers for every pattern there is, as the caches of rules.py keep them.
Globs == {t.pattern : t \in {u \in OldTexts : u.kind = "glob"}}
Matched == [g \in Globs |-> {p \in Paths : GlobMatches(g, p)}]
Reaching == [g \in Globs |-> {d \in Dirs : CouldMatchBelow(g, d)}]
Covering == [g \in Globs |-> {d \in Dirs : CoversEverythingBelow(g, d)}]

\* _rule_matches: a broken include shows nothing, a broken exclude hides everything.
RuleMatches(rule, path) ==
    CASE rule.kind = "glob" -> path \in Matched[rule.pattern]
      [] rule.kind = "regex" /\ rule.pattern = Broken -> rule.type = "exclude"
      [] OTHER -> path \in Finds[rule.pattern]

\* The order of evaluation: rules of equal order come as the table has them.
Before(i, j) ==
    \/ rules[i].order < rules[j].order
    \/ rules[i].order = rules[j].order /\ i < j

\* is_visible: the last rule that matches decides.
IsVisible(path) ==
    LET matching == {i \in DOMAIN rules : RuleMatches(rules[i], path)}
    IN \E last \in matching :
        rules[last].type = "include" /\ \A i \in matching \ {last} : Before(i, last)

\* Mutant: the kind of rule is not looked at, an exclude opens a directory too.
Opens_any(rule, dir) == rule.kind = "regex" \/ dir \in Reaching[rule.pattern]

Opens(rule, dir) ==
    rule.type = "include" /\ (rule.kind = "regex" \/ dir \in Reaching[rule.pattern])
Closes(rule, dir) ==
    rule.type = "exclude" /\ rule.kind = "glob" /\ dir \in Covering[rule.pattern]

\* Mutant: an exclude covers a directory even for the includes that come after it.
IsDirVisible_anyExclude(dir) ==
    /\ \E i \in DOMAIN rules : Opens(rules[i], dir)
    /\ \A j \in DOMAIN rules : ~Closes(rules[j], dir)

\* is_dir_visible: an include may match below, and no later exclude covers it all.
IsDirVisible(dir) ==
    \E i \in DOMAIN rules :
        Opens(rules[i], dir) /\ \A j \in DOMAIN rules : Before(i, j) => ~Closes(rules[j], dir)

ShownFiles == {p \in Paths : IsVisible(p)}
ShownDirs == {d \in Dirs : IsDirVisible(d)}

(***************************************************************************)
(* The table and its requests.                                             *)
(***************************************************************************)

RowOf(text, order) ==
    [order |-> order, type |-> text.type, kind |-> text.kind, pattern |-> text.pattern]

Init ==
    /\ \E n \in 0..MaxOld : \E texts \in [1..n -> OldTexts] :
        rules = [i \in 1..n |-> RowOf(texts[i], i - 1)]
    /\ waiting = Nobody
    /\ served = [late |-> FALSE, count |-> 0, excludes |-> FALSE]

\* A new rule's id is above those of the source, others may have rules above it.
NewIds(table) == FreeId(table)..MaxRules

\* Mutant: a new rule's order is the number of rules there are.
NextOrder_count == Cardinality(DOMAIN rules)

\* A new rule comes after the last one.
NextOrder == Max({-1} \cup {rules[i].order : i \in DOMAIN rules}) + 1

\* Only the columns that change are written, and an UPDATE of a row that is gone fails.
RowsUpdated(ids, new) ==
    rules' = IF ids \subseteq DOMAIN rules
             THEN [i \in DOMAIN rules |-> IF i \in ids THEN new[i] ELSE rules[i]]
             ELSE rules

Created(c) == \E id \in NewIds(rules) : rules' = Put(rules, id, RowOf(c.text, c.order))

Updated(c) ==
    RowsUpdated({c.id}, [i \in {c.id} \cap DOMAIN rules |->
        [order |-> rules[i].order,
         type |-> IF "type" \in c.columns THEN c.text.type ELSE rules[i].type,
         kind |-> IF "pattern" \in c.columns THEN c.text.kind ELSE rules[i].kind,
         pattern |-> IF "pattern" \in c.columns THEN c.text.pattern ELSE rules[i].pattern]])

Deleted(c) == rules' = Drop(rules, {c.id})

Reordered(c) ==
    RowsUpdated(DOMAIN c.order,
        [i \in DOMAIN c.order \cap DOMAIN rules |-> [rules[i] EXCEPT !.order = c.order[i]]])

Replaced(c) ==
    LET others == Drop(rules, c.ids)
        n == Len(c.texts)
    IN \E first \in NewIds(others) :
        /\ first + n - 1 <= MaxRules
        /\ rules' = [i \in DOMAIN others \cup first..(first + n - 1) |->
                IF i >= first THEN RowOf(c.texts[i - first + 1], i - first) ELSE others[i]]

Applied(c) ==
    \/ c.op = "create" /\ Created(c)
    \/ c.op = "update" /\ Updated(c)
    \/ c.op = "delete" /\ Deleted(c)
    \/ c.op = "reorder" /\ Reordered(c)
    \/ c.op = "replace" /\ Replaced(c)

\* The request puts an exclude in the chain, or turns an include into one.
Excludes(c) ==
    /\ c.op = "create" \/ (c.op = "update" /\ c.columns = {"type"})
    /\ c.text.type = "exclude"

Serves(c, late) ==
    /\ served.count < MaxRequests
    /\ served' = [late |-> late, count |-> served.count + 1, excludes |-> Excludes(c)]

\* A request whose checks passed: served at once, or it waits.
Passed(c) ==
    \/ /\ Applied(c)
       /\ Serves(c, FALSE)
       /\ UNCHANGED waiting
    \/ /\ waiting = Nobody
       /\ waiting' = c
       /\ UNCHANGED <<rules, served>>

CommitLate ==
    /\ waiting # Nobody
    /\ Applied(waiting)
    /\ Serves(waiting, TRUE)
    /\ waiting' = Nobody

GiveUp ==
    /\ waiting # Nobody
    /\ waiting' = Nobody
    /\ UNCHANGED <<rules, served>>

CreateRule ==
    \E text \in Texts : Passed([op |-> "create", text |-> text, order |-> NextOrder])

\* A request that changes nothing writes nothing.
UpdateRule ==
    \E id \in DOMAIN rules, text \in Texts, columns \in SUBSET {"type", "pattern"} \ {{}} :
        /\ \A column \in columns : text[column] # rules[id][column]
        /\ Passed([op |-> "update", id |-> id, text |-> text, columns |-> columns])

DeleteRule == \E id \in DOMAIN rules : Passed([op |-> "delete", id |-> id])

\* A rule listed twice takes its last place, and the places in between stay empty.
Place(ids, i) == Max({k \in DOMAIN ids : ids[k] = i}) - 1

\* rule_ids must name the source's rules and no other, once or more often.  Only the
\* orders that differ are written.
ReorderRules ==
    \E n \in 0..MaxListed : \E ids \in [1..n -> DOMAIN rules] :
        /\ Range(ids) = DOMAIN rules
        /\ LET changed == {i \in DOMAIN rules : Place(ids, i) # rules[i].order}
           IN Passed([op |-> "reorder", order |-> [i \in changed |-> Place(ids, i)]])

\* Every line is parsed before anything is deleted.
ReplaceRulesRaw ==
    \E n \in 0..MaxOld : \E texts \in [1..n -> Texts] :
        Passed([op |-> "replace", ids |-> DOMAIN rules, texts |-> texts])

Next ==
    \/ CommitLate \/ GiveUp
    \/ CreateRule \/ UpdateRule \/ DeleteRule \/ ReorderRules \/ ReplaceRulesRaw

Spec == Init /\ [][Next]_vars

(***************************************************************************)
(* Properties.                                                             *)
(***************************************************************************)

\* Directories are judged without listing them, by another algorithm than files: still
\* each directory above a file that is shown is shown, so that browsing, search and the
\* index, which descend only into those, reach every visible file (is_dir_visible).
WayToEveryFile ==
    LET dirs == ShownDirs
    IN \A p \in ShownFiles : \A k \in 1..(Len(p) - 1) : SubSeq(p, 1, k) \in dirs

\* "To hide a folder reliably, use a glob exclude such as folder/**" (rules.py): where
\* such a rule, after all includes, matches everything below a directory, neither the
\* directory nor anything in it is shown.
Everything(glob, dir) == Last(glob) = Deep /\ ~Spans(glob) /\ Below[dir] \subseteq Matched[glob]
HiddenReliably ==
    \A i \in DOMAIN rules :
        /\ rules[i].type = "exclude" /\ rules[i].kind = "glob"
        /\ \A j \in DOMAIN rules : Before(i, j) => rules[j].type = "exclude"
        => \A dir \in Dirs : Everything(rules[i].pattern, dir) =>
            ~IsDirVisible(dir) /\ \A p \in Below[dir] : ~IsVisible(p)

OrdersDistinct ==
    \A i, j \in DOMAIN rules : rules[i].order = rules[j].order => i = j

\* "Last match wins" needs an order: whatever was deleted, reordered or pasted before,
\* a request that nobody overtakes gives no two rules the same place.
OrdersStayDistinct == [][OrdersDistinct => OrdersDistinct' \/ served'.late]_vars

\* An exclude never opens anything: neither a file nor a directory is shown by adding
\* one, wherever a race puts it in the chain, nor by turning an include into one.
ExcludesOnlyHide ==
    [][served' # served /\ served'.excludes =>
        ShownFiles' \subseteq ShownFiles /\ ShownDirs' \subseteq ShownDirs]_vars
=============================================================================
