--------------------------- MODULE SelfModification ---------------------------
(***************************************************************************)
(* propose_pr: how a change the program suggests to its own code reaches a *)
(* human.  The declared paths pass a guardrail and the tests, then git and *)
(* gh commands run one after the other in the operator's own checkout;     *)
(* each may raise, and nothing tidies up after one that does.  To the      *)
(* guardrail a declared path is a name; to git it is a pathspec, which a   *)
(* directory, "." or a glob makes stand for every file it matches.         *)
(*                                                                         *)
(* git is modelled by what these commands do to the working tree, the      *)
(* index and the branches; a file's content is a number, new at each edit. *)
(* Whoever edits may do so while a proposal runs, and may stage a file by  *)
(* hand; a checkout, a reset or a merge by hand comes between proposals.   *)
(***************************************************************************)
EXTENDS Integers

CONSTANTS
    Files,
    Pathspecs,      \* what may be declared as a changed path
    Matches,        \* by pathspec: the files it stands for to git
    Protected,      \* the pathspecs self_modify.is_protected refuses, by their spelling
    FlagLike,       \* those that read as --auto or --admin
    Branches,       \* acceptable names: self/...
    Rows,           \* ids a provenance may point at
    Filed,          \* the reflections and proposals rows there are
    NoRow,          \* free text, or no provenance
    MaxEdits        \* bound on the contents

ASSUME SelfModAssumption ==
    /\ Matches \in [Pathspecs -> SUBSET Files]
    /\ Protected \subseteq Pathspecs /\ FlagLike \subseteq Pathspecs
    /\ Filed \subseteq Rows /\ NoRow \notin Rows
    /\ "main" \notin Branches /\ MaxEdits \in Nat

VARIABLES
    tree, index,    \* by file: its content in the working tree, and as staged
    tip,            \* by local branch: the contents its last commit holds
    head,           \* the branch checked out
    origin,         \* by pushed branch: the contents pushed
    prs,            \* pull requests opened
    merged,         \* those of them merged
    links,          \* self_mod_prs rows
    job,            \* the propose_pr call under way
    edits,
    tested,         \* history: contents that unprotected paths stood for when tests were green
    byHand          \* history: contents staged by hand, or edited while a proposal ran

git == <<tree, index, tip, head>>
modVars == <<tree, index, tip, head, origin, prs, merged, links, job, edits, tested, byHand>>

Main == "main"
Contents == 0..MaxEdits
NoCall == [step |-> "idle"]
Goto(step) == job' = [job EXCEPT !.step = step]
Differing(a, b) == {f \in Files : a[f] # b[f]}
Covered(paths) == UNION {Matches[p] : p \in paths}

ModInit ==
    /\ tree = [f \in Files |-> 0] /\ index = tree
    /\ tip = [b \in {Main} |-> tree] /\ origin = tip /\ head = Main
    /\ prs = {} /\ merged = {} /\ links = {} /\ job = NoCall
    /\ edits = 0 /\ tested = {} /\ byHand = {}

------------------------------------------------------------------------------
(* The checks: no git or gh command has run yet. *)

\* make_provenance: an id that points at one of the two tables, or free text.
Provenances == Rows \cup {NoRow}

AcceptableBranch(branch) == branch \in Branches     \* _reject_branch

\* A refused branch or title changes nothing; both are checked before anything else.
Propose(paths, branch) ==
    /\ job = NoCall /\ AcceptableBranch(branch)
    /\ job' = [step |-> "gate", paths |-> paths, branch |-> branch, leftover |-> {}]
    /\ UNCHANGED <<git, origin, prs, merged, links, edits, tested, byHand>>

Violations(paths) == paths \cap Protected      \* the declared paths, not what they match

\* What the declared paths that are not protected stood for when the tests ran.
Green == {<<f, tree[f]>> : f \in Covered(job.paths \ Protected)}

GateAnyTests(green) ==      \* mutant: the tests are run and their result is not looked at
    /\ job.step = "gate"
    /\ IF job.paths # {} /\ Violations(job.paths) = {}
       THEN Goto("plan")
       ELSE job' = NoCall
    /\ tested' = IF green THEN tested \cup Green ELSE tested
    /\ UNCHANGED <<git, origin, prs, merged, links, edits, byHand>>

\* gate_change: the guardrail first, and tests only of a change it lets through.
Gate(green) ==
    /\ job.step = "gate"
    /\ IF job.paths # {} /\ Violations(job.paths) = {} /\ green
       THEN /\ Goto("plan") /\ tested' = tested \cup Green
       ELSE job' = NoCall /\ UNCHANGED tested
    /\ UNCHANGED <<git, origin, prs, merged, links, edits, byHand>>

Merges(paths) == paths \cap FlagLike # {}       \* _is_merge_command of the commands planned

\* A dry run (an argument that nothing has looked at so far) ends here, and
\* assert_no_merge_commands raises before anything has run.
Plan(dry) ==
    /\ job.step = "plan"
    /\ IF dry \/ Merges(job.paths)
       THEN job' = NoCall
       ELSE Goto("checkout")
    /\ UNCHANGED <<git, origin, prs, merged, links, edits, tested, byHand>>

------------------------------------------------------------------------------
(* The commands. *)

\* The branches, with a new one where the checkout stands.
Forked(branch) ==
    [b \in DOMAIN tip \cup {branch} |-> IF b = branch THEN tip[head] ELSE tip[b]]

CheckoutAnyway ==           \* mutant: a runner that does not raise when git fails
    /\ job.step = "checkout"
    /\ IF job.branch \in DOMAIN tip
       THEN UNCHANGED <<tip, head>>
       ELSE tip' = Forked(job.branch) /\ head' = job.branch
    /\ job' = [job EXCEPT !.step = "add", !.leftover = Differing(index, tip[head])]
    /\ UNCHANGED <<tree, index, origin, prs, merged, links, edits, tested, byHand>>

CheckoutAfresh ==           \* mutant: checkout -B, so that a failed proposal can be retried
    /\ job.step = "checkout"
    /\ tip' = Forked(job.branch) /\ head' = job.branch
    /\ job' = [job EXCEPT !.step = "add", !.leftover = Differing(index, tip[head])]
    /\ UNCHANGED <<tree, index, origin, prs, merged, links, edits, tested, byHand>>

\* git checkout -b: from wherever the checkout stands, with its edits and what is staged.
Checkout ==
    /\ job.step = "checkout" /\ job.branch \notin DOMAIN tip
    /\ tip' = Forked(job.branch) /\ head' = job.branch
    /\ job' = [job EXCEPT !.step = "add", !.leftover = Differing(index, tip[head])]
    /\ UNCHANGED <<tree, index, origin, prs, merged, links, edits, tested, byHand>>

AddAll ==                   \* mutant: git add -A
    /\ job.step = "add" /\ Goto("commit")
    /\ index' = tree
    /\ UNCHANGED <<tree, tip, head, origin, prs, merged, links, edits, tested, byHand>>

\* git add -- the declared paths: every file one of them matches, and an error when one
\* matches none.
Add ==
    /\ job.step = "add" /\ Goto("commit")
    /\ \A p \in job.paths : Matches[p] # {}
    /\ index' = [f \in Files |-> IF f \in Covered(job.paths) THEN tree[f] ELSE index[f]]
    /\ UNCHANGED <<tree, tip, head, origin, prs, merged, links, edits, tested, byHand>>

\* git commit -m: the whole index, and an error when there is nothing in it to commit.
\* parent is history: what the branch held before.
Commit ==
    /\ job.step = "commit" /\ index # tip[head]
    /\ tip' = [tip EXCEPT ![head] = index]
    /\ job' = [step |-> "push", paths |-> job.paths, branch |-> job.branch,
               leftover |-> job.leftover, parent |-> tip[head]]
    /\ UNCHANGED <<tree, index, head, origin, prs, merged, links, edits, tested, byHand>>

Push ==
    /\ job.step = "push" /\ Goto("pr")
    /\ origin' = [b \in DOMAIN origin \cup {job.branch} |->
                      IF b = job.branch THEN tip[job.branch] ELSE origin[b]]
    /\ UNCHANGED <<git, prs, merged, links, edits, tested, byHand>>

CreatePr ==                 \* gh pr create: an error when the branch has one already
    /\ job.step = "pr" /\ \A pr \in prs : pr.branch # job.branch
    /\ prs' = prs \cup {[branch |-> job.branch, paths |-> job.paths, parent |-> job.parent,
                         base |-> origin[Main], leftover |-> job.leftover]}
    /\ Goto("link")
    /\ UNCHANGED <<git, origin, merged, links, edits, tested, byHand>>

RecordAny(row) ==           \* mutant: it trusts the provenance it is handed
    links' = IF row = NoRow THEN links ELSE links \cup {[row |-> row, branch |-> job.branch]}

\* record_self_mod_pr looks the row up again; its failure is reported in the result only.
Record(row) == links' = IF row \in Filed THEN links \cup {[row |-> row, branch |-> job.branch]}
                                         ELSE links

\* The provenance is an argument that nothing has looked at so far.
Link(row) ==
    /\ job.step = "link" /\ Record(row) /\ job' = NoCall
    /\ UNCHANGED <<git, origin, prs, merged, edits, tested, byHand>>

LinkFails(row) ==           \* a locked ledger
    /\ job.step = "link" /\ row # NoRow /\ job' = NoCall
    /\ UNCHANGED <<git, origin, prs, merged, links, edits, tested, byHand>>

\* Tests, git or gh raise, or the process is killed: what was done stays done.
Abandon ==
    /\ job # NoCall /\ job' = NoCall
    /\ UNCHANGED <<git, origin, prs, merged, links, edits, tested, byHand>>

------------------------------------------------------------------------------
(* By hand. *)

Edit(f) ==
    /\ edits < MaxEdits /\ edits' = edits + 1
    /\ tree' = [tree EXCEPT ![f] = edits + 1]
    /\ byHand' = IF job = NoCall THEN byHand ELSE byHand \cup {<<f, edits + 1>>}
    /\ UNCHANGED <<index, tip, head, origin, prs, merged, links, job, tested>>

Stage(f) ==
    /\ index[f] # tree[f] /\ index' = [index EXCEPT ![f] = tree[f]]
    /\ byHand' = byHand \cup {<<f, tree[f]>>}
    /\ UNCHANGED <<tree, tip, head, origin, prs, merged, links, job, edits, tested>>

\* git checkout main: carries what is not committed, and refuses to overwrite any of it.
BackToMain ==
    LET moving == Differing(tip[head], tip[Main]) IN
    /\ job = NoCall /\ head # Main
    /\ \A f \in moving : tree[f] = tip[head][f] /\ index[f] = tip[head][f]
    /\ head' = Main
    /\ tree' = [f \in Files |-> IF f \in moving THEN tip[Main][f] ELSE tree[f]]
    /\ index' = [f \in Files |-> IF f \in moving THEN tip[Main][f] ELSE index[f]]
    /\ UNCHANGED <<tip, origin, prs, merged, links, job, edits, tested, byHand>>

Discard ==                  \* git reset --hard
    /\ job = NoCall /\ (tree # tip[head] \/ index # tip[head])
    /\ tree' = tip[head] /\ index' = tip[head]
    /\ UNCHANGED <<tip, head, origin, prs, merged, links, job, edits, tested, byHand>>

CiGateSatisfied(state) == state = "pass"        \* a missing check does not satisfy it

\* A human merges what CI passed and brings the local main up to it.
Merge(pr, state) ==
    LET brought == Differing(origin[pr.branch], pr.base) IN
    /\ job = NoCall /\ head # Main /\ pr \in prs \ merged /\ CiGateSatisfied(state)
    /\ \A f \in brought : origin[Main][f] \in {pr.base[f], origin[pr.branch][f]}
    /\ origin' = [origin EXCEPT ![Main] =
                      [f \in Files |-> IF f \in brought THEN origin[pr.branch][f] ELSE @[f]]]
    /\ tip' = [tip EXCEPT ![Main] = origin'[Main]]
    /\ merged' = merged \cup {pr}
    /\ UNCHANGED <<tree, index, head, prs, links, job, edits, tested, byHand>>

------------------------------------------------------------------------------
Pipeline ==
    \/ \E green \in BOOLEAN : Gate(green)
    \/ \E dry \in BOOLEAN : Plan(dry)
    \/ Checkout \/ Add \/ Commit \/ Push
    \/ CreatePr
    \/ \E row \in Provenances : Link(row) \/ LinkFails(row)
    \/ Abandon

ByHand ==
    \/ \E f \in Files : Edit(f) \/ Stage(f)
    \/ BackToMain
    \/ Discard
    \/ \E pr \in prs, state \in {"pass", "fail", "missing"} : Merge(pr, state)

ModNext ==
    \/ \E paths \in SUBSET Pathspecs, branch \in Branches \cup {Main} : Propose(paths, branch)
    \/ Pipeline
    \/ ByHand

ModSpec == ModInit /\ [][ModNext]_modVars

------------------------------------------------------------------------------
(* Properties *)

\* Whatever is on origin is main's, was matched by a path that a proposal declared and whose
\* guardrail and tests passed with that content, or was staged or edited by hand underneath
\* one: what earlier proposals left half done included.  So a protected file is there only by
\* hand, or because a declared path stands for more than itself.
OnlyGatedLeaves ==
    \A b \in DOMAIN origin, f \in Files :
        origin[b][f] # 0 => <<f, origin[b][f]>> \in tested \cup byHand

\* A pull request's own commit holds what its declared paths match, and beside that only
\* what was staged already when it started or was staged by hand since.
CommitIsDeclared ==
    \A pr \in prs :
        \A f \in Differing(origin[pr.branch], pr.parent) \ (Covered(pr.paths) \cup pr.leftover) :
            <<f, origin[pr.branch][f]>> \in byHand

\* main holds nothing but what a merged pull request brought.
MainIsReviewed ==
    \A b \in {tip[Main], origin[Main]}, f \in Files :
        b[f] # 0 => \E pr \in merged : origin[pr.branch][f] = b[f]

\* A self_mod_prs row names a row that exists and a pull request that was opened.
LinksAreReal ==
    \A link \in links : link.row \in Filed /\ \E pr \in prs : pr.branch = link.branch

\* A pushed branch never changes again, so what was reviewed and passed CI is what is merged:
\* a proposal that fails cannot be retried under its branch's name.
ReviewedIsFinal ==
    [][\A b \in DOMAIN origin \ {Main} : origin'[b] = origin[b]]_modVars

\* The promise to the reviewer: what is up for review was gated and is matched by what was
\* declared and stays as it is, what is on main was reviewed, and the links lead there.
ReviewHolds ==
    /\ [](OnlyGatedLeaves /\ CommitIsDeclared /\ MainIsReviewed /\ LinksAreReal)
    /\ ReviewedIsFinal
==============================================================================
