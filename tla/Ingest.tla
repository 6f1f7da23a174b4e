------------------------------- MODULE Ingest -------------------------------
(***************************************************************************)
(* idtrack ingest: one issue from each file (commands/ingest.go), and how  *)
(* a file is taken apart (commands/ingest_parse.go).                       *)
(*                                                                         *)
(* A file is a sequence of lines, and a line what the parser's patterns    *)
(* make of it.  The first file of the batch is modelled line by line; the  *)
(* others are plain.  A server that has the database open sees what has    *)
(* been committed.                                                         *)
(***************************************************************************)
EXTENDS Naturals, Sequences, SequencesExt, FiniteSets, Slices

CONSTANTS
  MaxLines,  \* bound: lines of the first file
  Batch,     \* files given to the command
  Projects,  \* ListProjects: a sequence of names with their components
  Finds,     \* where a name may be found: in the file's name, its title, its body
  Spellings, \* component names the operator may type, besides those there are
  Folded(_)  \* a name without its case

ASSUME IngestAssumption ==
  /\ MaxLines \in Nat /\ Batch \in Nat \ {0}
  /\ Projects \in Seq([name : STRING, components : Seq(STRING)])
  /\ \A f \in Finds : f.name \in BOOLEAN /\ f.title \in BOOLEAN /\ f.body \in Nat

VARIABLES
  file,     \* the lines of the first file
  found,    \* where every name is found in it, in whatever case
  default,  \* --default-project and --default-component
  step,     \* "edit" before the command runs, then "parse", "write", "failed", "done"
  plan,     \* the first file's ingestPlan
  pending,  \* the issues the transaction has written
  stored    \* those committed

ivars == <<file, found, default, step, plan, pending, stored>>

Line(kind, label, word) == [kind |-> kind, label |-> label, word |-> word]
Lines == {Line("blank", "", ""), Line("title", "", ""), Line("text", "", ""),
          Line("fence", "", ""), Line("label", "description", ""),
          Line("label", "severity", "High"), Line("label", "status", "Resolved"),
          Line("label", "resolution", "")}

Components(p) == ToSet(p.components)
Names == {p.name : p \in ToSet(Projects)} \cup UNION {Components(p) : p \in ToSet(Projects)}

\* Project names are matched without regard to case, and so are component names,
\* of which several of one project may differ in nothing else.
EqualFold(a, b) == Folded(a) = Folded(b)
ContainsComponentCI(p, name) == \E c \in Components(p) : EqualFold(c, name)

\* The pairs that exist, and those that do up to the case of the component.
Pairs == {pc \in Names \X Names :
            \E p \in ToSet(Projects) : pc[1] = p.name /\ pc[2] \in Components(p)}
FoldedPairs == {pc \in Names \X (Names \cup Spellings) :
                  \E p \in ToSet(Projects) : pc[1] = p.name /\ ContainsComponentCI(p, pc[2])}

\* findProject yields the first project of that name, by the name it has; the
\* component stays as it was typed.
Defaults == {pc \in FoldedPairs :
               \E i \in DOMAIN Projects :
                 /\ pc[1] = Projects[i].name /\ ContainsComponentCI(Projects[i], pc[2])
                 /\ \A j \in 1..(i - 1) : ~EqualFold(Projects[j].name, pc[1])}

Nowhere == [name |-> FALSE, title |-> FALSE, body |-> 0]
NoPlan == [description |-> <<>>, comments |-> <<>>, resolved |-> FALSE, high |-> FALSE,
           pair |-> <<>>]

\* The default pair is looked up before any file is read.
IngestInit ==
  /\ file = <<>>
  /\ found \in [{Folded(n) : n \in Names} -> Finds \cup {Nowhere}]
  /\ default \in Defaults
  /\ step = "edit" /\ plan = NoPlan /\ pending = <<>> /\ stored = <<>>

-----------------------------------------------------------------------------
(* Taking a file apart.                                                    *)

IsLine(i, kind) == file[i].kind = kind
Written(from, to) == Ascending({i \in from..to : ~IsLine(i, "blank")})

\* The first line of text; splitSections starts after it when it is the title.
First == CHOOSE i \in 1..(Len(file) + 1) :
           /\ \A j \in 1..(i - 1) : IsLine(j, "blank")
           /\ i <= Len(file) => ~IsLine(i, "blank")
Titled == First <= Len(file) /\ IsLine(First, "title")
Start == IF Titled THEN First + 1 ELSE First

\* extractTitle finds one in any line that is not in a closed code block.
FencesTo(from, i) == Cardinality({j \in from..i : IsLine(j, "fence")})
InBlock(i) ==
  LET n == FencesTo(1, i)  \* fences up to this line, and this line may be one
      opener == IF IsLine(i, "fence") /\ n % 2 = 0 THEN n - 1 ELSE n
  IN  opener % 2 = 1 /\ FencesTo(1, Len(file)) > opener
HasTitle == Titled \/ \E i \in DOMAIN file : ~IsLine(i, "blank") /\ ~InBlock(i)

\* A header, bold label or "Label:" line outside code begins a section.
BugBoundary(i) == IsLine(i, "label")
Boundary(i) == IsLine(i, "label") /\ FencesTo(Start, i) % 2 = 0
Boundaries == Ascending({i \in Start..Len(file) : Boundary(i)})

Sections ==
  LET from == Boundaries
      to == [s \in DOMAIN from |-> IF s < Len(from) THEN from[s + 1] - 1 ELSE Len(file)]
  IN  [s \in DOMAIN from |-> [label |-> file[from[s]].label, lines |-> Written(from[s], to[s])]]

PreText == IF Boundaries = <<>> THEN Written(Start, Len(file))
           ELSE Written(Start, Boundaries[1] - 1)

\* Which section is the description: 0 stands for the text before them all.
DescriptionAt ==
  LET sections == Sections
      described == {s \in DOMAIN sections : sections[s].label = "description"}
  IN  IF described # {} THEN CHOOSE s \in described : \A r \in described : s <= r
      ELSE IF PreText # <<>> \/ sections = <<>> THEN 0
      ELSE 1

Description == IF DescriptionAt = 0 THEN PreText ELSE Sections[DescriptionAt].lines
Comments == IF DescriptionAt = 0 THEN Sections ELSE RemoveAt(Sections, DescriptionAt)

\* detectStatus looks at the labels of the comments, and for a status of
\* "Resolved" on one line anywhere, code included.
DetectStatus ==
  \/ \E c \in ToSet(Comments) : c.label = "resolution"
  \/ \E i \in DOMAIN file : file[i].label = "status" /\ file[i].word = "Resolved"

DetectPriority == \E c \in ToSet(Comments) : c.label = "severity"

-----------------------------------------------------------------------------
(* Guessing the project and the component.                                 *)

FilenameWeight == 6
TitleWeight == 3
BodyOccurrenceCap == 3
MinInferScore == 6

ScoreName(n) ==
  LET f == found[Folded(n)] IN
  (IF f.name THEN FilenameWeight ELSE 0) + (IF f.title THEN TitleWeight ELSE 0)
    + (IF f.body < BodyOccurrenceCap THEN f.body ELSE BodyOccurrenceCap)

\* The first of the highest positive score, in the order of the loop.
Best(seq, score) ==
  LET top == {i \in DOMAIN seq : score[seq[i]] > 0 /\ \A j \in DOMAIN seq :
                score[seq[j]] < score[seq[i]] \/ (score[seq[j]] = score[seq[i]] /\ j >= i)}
  IN  {seq[i] : i \in top}

PairSeq == FlattenSeq([i \in DOMAIN Projects |->
             [c \in DOMAIN Projects[i].components |-> <<Projects[i], Projects[i].components[c]>>]])
PairScore == [pc \in ToSet(PairSeq) |-> ScoreName(pc[1].name) + ScoreName(pc[2])]
ProjectScore == [p \in ToSet(Projects) |-> ScoreName(p.name)]

BugKeepsDefault(p) == TRUE
KeepsDefault(p) == ContainsComponentCI(p, default[2])

\* A pair with evidence for its component; else a project that has the default
\* component, too; else the default pair.
InferProjectComponent ==
  LET pair == {pc \in Best(PairSeq, PairScore) :
                 PairScore[pc] >= MinInferScore /\ ScoreName(pc[2]) > 0}
      project == {p \in Best(Projects, ProjectScore) :
                    ProjectScore[p] >= MinInferScore /\ KeepsDefault(p)}
  IN  IF pair # {} THEN CHOOSE result \in {<<pc[1].name, pc[2]>> : pc \in pair} : TRUE
      ELSE IF project # {} THEN <<(CHOOSE p \in project : TRUE).name, default[2]>>
      ELSE default

-----------------------------------------------------------------------------
(* The command.                                                            *)

\* Bound: names are found only in files of one line of text.
AddLine ==
  /\ step = "edit" /\ Len(file) < MaxLines
  /\ \E line \in Lines :
       /\ \A n \in DOMAIN found : found[n] = Nowhere \/ (file = <<>> /\ line.kind = "text")
       /\ file' = Append(file, line)
  /\ UNCHANGED <<found, default, step, plan, pending, stored>>

\* parseIngestFiles: one file without a title or a description ends it all.
BuildIngestPlan ==
  /\ step = "edit"
  /\ IF HasTitle /\ Description # <<>>
     THEN /\ plan' = [description |-> Description,
                      comments |-> LET c == Comments IN [s \in DOMAIN c |-> c[s].lines],
                      resolved |-> DetectStatus, high |-> DetectPriority,
                      pair |-> InferProjectComponent]
          /\ step' \in {"write", "done"}   \* --test ends here
     ELSE step' = "failed" /\ UNCHANGED plan
  /\ UNCHANGED <<file, found, default, pending, stored>>

\* The other files of the batch have one line each.
Plans == [i \in 1..Batch |-> IF i = 1 THEN plan
                             ELSE [NoPlan EXCEPT !.description = <<1>>, !.pair = default]]

Current == pending[Len(pending)]
Planned == Plans[Len(pending)]
Uncommented == pending # <<>> /\ Len(Current.comments) < Len(Planned.comments)
Unresolved == pending # <<>> /\ Planned.resolved /\ ~Current.resolved

\* runIngestTx: for every plan the issue, its comments, its resolution.
CreateIssue ==
  /\ step = "write" /\ ~Uncommented /\ ~Unresolved /\ Len(pending) < Batch
  /\ pending' = Append(pending,
       [Plans[Len(pending) + 1] EXCEPT !.comments = <<>>, !.resolved = FALSE])
  /\ UNCHANGED <<file, found, default, step, plan, stored>>

CreateComment ==
  /\ step = "write" /\ Uncommented
  /\ pending' = [pending EXCEPT ![Len(pending)].comments =
       Append(@, Planned.comments[Len(@) + 1])]
  /\ UNCHANGED <<file, found, default, step, plan, stored>>

Resolve ==
  /\ step = "write" /\ ~Uncommented /\ Unresolved
  /\ pending' = [pending EXCEPT ![Len(pending)].resolved = TRUE]
  /\ UNCHANGED <<file, found, default, step, plan, stored>>

Commit ==
  /\ step = "write" /\ ~Uncommented /\ ~Unresolved /\ Len(pending) = Batch
  /\ stored' = pending /\ step' = "done"
  /\ UNCHANGED <<file, found, default, plan, pending>>

\* A statement fails, or the command is interrupted.
Rollback ==
  /\ step = "write"
  /\ pending' = <<>> /\ step' = "failed"
  /\ UNCHANGED <<file, found, default, plan, stored>>

IngestNext ==
  \/ AddLine \/ BuildIngestPlan
  \/ CreateIssue \/ CreateComment \/ Resolve \/ Commit \/ Rollback

IngestSpec == IngestInit /\ [][IngestNext]_ivars

-----------------------------------------------------------------------------
(* Properties.                                                             *)

\* What is stored is the whole batch, and of the first file every written line
\* below its title is in the issue or one of its comments, once and in order;
\* except that a section labelled "description" displaces the text before the
\* first section.  Lines in code blocks never begin a comment.
Dropped == IF DescriptionAt = 0 THEN <<>> ELSE PreText
Closed(i) == \E j, k \in Start..Len(file) :
               /\ j < i /\ i < k /\ IsLine(j, "fence") /\ IsLine(k, "fence")
               /\ FencesTo(Start, j) % 2 = 1 /\ FencesTo(Start, k) = FencesTo(Start, j) + 1
EveryLineIsFiled ==
  stored # <<>> =>
    LET issue == stored[1]
        commented == FlattenSeq(issue.comments)
        filed == issue.description \o commented
    IN  /\ Len(stored) = Batch
        /\ issue.description # <<>>
        /\ ToSet(filed) \cup ToSet(Dropped) = ToSet(Written(Start, Len(file)))
        /\ Len(filed) + Len(Dropped) = Len(Written(Start, Len(file)))
        /\ \A i, j \in DOMAIN commented : i < j => commented[i] < commented[j]
        /\ \A s \in DOMAIN issue.comments : ~Closed(issue.comments[s][1])

\* An issue's component is one of its project's, as the components table has it,
\* by which issues are counted and components deleted; or it is the default, which
\* "must name an existing project/component pair" (commands/ingest.go:65-66) and
\* does so up to case: typed in another one it is accepted, kept even under another
\* project, and stored as typed.  Project and component are guessed or defaulted
\* independently, but never into a pair of a project and another's component
\* (commands/ingest_parse.go:419-421).
Storable == Pairs \cup {pc \in FoldedPairs : pc[2] = default[2]}
StoredPairsExist == \A i \in DOMAIN stored : stored[i].pair \in Storable
=============================================================================
