---------------------------- MODULE IssuesProofs ----------------------------
(***************************************************************************)
(* Theorems about Issues, for every number of overlapping requests, every  *)
(* set of users and every bound on the tables.                             *)
(***************************************************************************)
EXTENDS Issues, DataTheorems

-----------------------------------------------------------------------------
(* The inductive invariant.  TypeOK alone does not bound the ids a request *)
(* holds by the ids issued so far, nor says that what a PUT is about to    *)
(* write has passed the checks it was begun with.                          *)

\* The steps at which a request holds the id of an issue.
IssueSteps == {"created", "update_checks", "update_refetch", "auto_comment",
               "delete_comments", "delete_attachments", "delete_row",
               "comment_insert", "attach_insert"}

\* Every id a row refers to as its own or its parent's has been issued.
IdsIssued ==
  /\ \A i \in DOMAIN issues : i < nextIssue
  /\ \A c \in DOMAIN comments : comments[c] < nextIssue
  /\ \A a \in DOMAIN attachments : attachments[a].issue < nextIssue

\* A request names an issue that was issued (n is the next id); what a PUT is
\* about to write fits its status; and the dependencies it has already looked
\* up were issued.
RequestOK(q, n) ==
  /\ q.step \in IssueSteps => q.issue \in 1..(n - 1)
  /\ q.step = "attach_insert" => q.target \in {0} \cup CommentIds
  /\ q.step = "update_checks" =>
       /\ q.status = StatusDuplicate => Cardinality(q.deps) = 1
       /\ q.status = StatusBlocked => q.deps # {}
       /\ q.status \in {StatusDuplicate, StatusBlocked} => q.issue \notin q.deps
       /\ q.status \in {StatusOpen, StatusResolved} => q.deps = {}
       /\ q.status \in {StatusBlocked, StatusDuplicate} => q.deps \ q.todo \subseteq 1..(n - 1)

RequestsOK == \A r \in DOMAIN serving : RequestOK(serving[r], nextIssue)

IInv ==
  /\ TypeOK
  /\ IdsIssued
  /\ RequestsOK
  /\ RowsConsistent
  /\ DependenciesWereFiled

ServingTypeOK == DOMAIN serving \subseteq Requests /\ serving \in [DOMAIN serving -> Serving]

-----------------------------------------------------------------------------
(* How the requests in flight change.                                      *)

\* What holds of a request goes on holding as more ids are issued.
LEMMA RequestOKMonotone ==
  ASSUME NEW q, NEW n \in Nat, NEW m \in Nat, n <= m, RequestOK(q, n)
  PROVE  RequestOK(q, m)
BY DEF RequestOK

LEMMA BeginRequest ==
  ASSUME TypeOK, RequestsOK, NEW r \in Requests, NEW q \in Serving, Begin(r, q),
         nextIssue' \in Nat, nextIssue <= nextIssue', RequestOK(q, nextIssue')
  PROVE  ServingTypeOK' /\ RequestsOK'
<1>1. /\ DOMAIN serving' = DOMAIN serving \cup {r}
      /\ serving'[r] = q
      /\ \A s \in DOMAIN serving : serving'[s] = serving[s]
  BY DEF Begin, Idle, Put
<1>2. serving' \in [DOMAIN serving \cup {r} -> Serving]
  BY PutType DEF Begin, TypeOK
<1>3. nextIssue \in Nat
  BY IssuesAssumption DEF TypeOK
<1>4. ASSUME NEW s \in DOMAIN serving'
      PROVE  RequestOK(serving'[s], nextIssue')
  <2>1. CASE s = r  BY <2>1, <1>1
  <2>2. CASE s \in DOMAIN serving
    BY <2>2, <1>1, <1>3, RequestOKMonotone DEF RequestsOK
  <2> QED  BY <2>1, <2>2, <1>1
<1> QED  BY <1>1, <1>2, <1>4 DEF ServingTypeOK, RequestsOK, TypeOK

LEMMA AnswerRequest ==
  ASSUME TypeOK, RequestsOK, NEW r, Answer(r), nextIssue' = nextIssue
  PROVE  ServingTypeOK' /\ RequestsOK'
<1>1. /\ DOMAIN serving' = DOMAIN serving \ {r}
      /\ \A s \in DOMAIN serving \ {r} : serving'[s] = serving[s]
  BY WithoutRows DEF Answer
<1>2. serving' \in [DOMAIN serving \ {r} -> Serving]
  BY WithoutType DEF Answer, TypeOK
<1> QED  BY <1>1, <1>2 DEF ServingTypeOK, RequestsOK, TypeOK

\* A request that goes on to a step which writes no PUT.
LEMMA AdvanceRequest ==
  ASSUME TypeOK, RequestsOK, NEW r \in DOMAIN serving, nextIssue' = nextIssue,
         serving[r].step \in IssueSteps,
         NEW step \in {"update_refetch", "auto_comment", "delete_attachments", "delete_row"},
         Advance(r, step)
  PROVE  ServingTypeOK' /\ RequestsOK'
<1>1. serving[r] \in Serving
  BY DEF TypeOK
<1>2. serving' = [serving EXCEPT ![r] = [serving[r] EXCEPT !.step = step]]
  BY DEF Advance
<1>3. [serving[r] EXCEPT !.step = step] \in Serving
  BY <1>1 DEF Serving
<1>4. RequestOK([serving[r] EXCEPT !.step = step], nextIssue)
  BY <1>1 DEF RequestsOK, RequestOK, IssueSteps, Serving
<1> QED  BY <1>2, <1>3, <1>4 DEF ServingTypeOK, RequestsOK, TypeOK

-----------------------------------------------------------------------------
LEMMA InitIInv == Init => IInv
BY IssuesAssumption DEF Init, IInv, TypeOK, IdsIssued, RequestsOK,
   RowsConsistent, DependenciesWereFiled, NoRows

-----------------------------------------------------------------------------
(* Steps that leave every table alone.                                     *)

LEMMA QuietStep ==
  ASSUME IInv, ServingTypeOK', RequestsOK',
         UNCHANGED <<issues, comments, attachments, nextIssue, nextComment, nextAttachment>>
  PROVE  IInv'
<1>1. TypeOK'
  BY DEF IInv, TypeOK, ServingTypeOK
<1>2. IdsIssued' /\ RowsConsistent' /\ DependenciesWereFiled'
  BY DEF IInv, IdsIssued, RowsConsistent, DependenciesWereFiled
<1> QED  BY <1>1, <1>2 DEF IInv

\* The blank request is well formed.
LEMMA AskType ==
  ASSUME NEW step \in {"created", "update_checks", "delete_comments", "comment_insert",
                       "delete_comment_row", "attach_insert", "delete_attachment_row"},
         NEW u \in Users, NEW i \in {0} \cup IssueIds,
         NEW t \in {0} \cup CommentIds \cup AttachmentIds
  PROVE  /\ Ask(step, u, i, t) \in Serving
         /\ Ask(step, u, i, t).step = step
         /\ Ask(step, u, i, t).issue = i
         /\ Ask(step, u, i, t).target = t
BY DEF Ask, Serving, Statuses, KnownStatuses

LEMMA UpdateIssueReadStep ==
  ASSUME IInv, NEW r \in Requests, UpdateIssueRead(r)
  PROVE  IInv'
<1>1. PICK u \in Users, i \in DOMAIN issues, status \in ClientStatuses,
           deps \in SUBSET IssueIds, a \in Assignees :
        /\ BodyAccepted(u, i, issues[i], status, deps)
        /\ Begin(r, [step |-> "update_checks", user |-> u, issue |-> i, target |-> 0,
                     was |-> issues[i].status, status |-> status,
                     deps |-> StoredDependencies(status, deps), assignee |-> a,
                     todo |-> DependenciesToCheck(issues[i], status, deps)])
  BY DEF UpdateIssueRead
<1> DEFINE q == [step |-> "update_checks", user |-> u, issue |-> i, target |-> 0,
                 was |-> issues[i].status, status |-> status,
                 deps |-> StoredDependencies(status, deps), assignee |-> a,
                 todo |-> DependenciesToCheck(issues[i], status, deps)]
<1>2. Begin(r, q)
  BY <1>1
<1>3. issues[i] \in IssueRow /\ i \in IssueIds /\ i < nextIssue /\ nextIssue \in Nat
  BY IssuesAssumption DEF IInv, TypeOK, IdsIssued
<1>4. /\ StoredDependencies(status, deps) \in SUBSET IssueIds
      /\ DependenciesToCheck(issues[i], status, deps) \in SUBSET IssueIds
  BY <1>3 DEF StoredDependencies, DependenciesToCheck, IssueRow
<1>5. q \in Serving
  BY <1>3, <1>4, IssuesAssumption DEF Serving, IssueRow, Statuses
<1>6. RequestOK(q, nextIssue)
  <2>1. i \in 1..(nextIssue - 1)
    BY <1>3 DEF IssueIds
  <2>2. /\ status = StatusDuplicate => Cardinality(StoredDependencies(status, deps)) = 1
        /\ status = StatusBlocked => StoredDependencies(status, deps) # {}
        /\ status \in {StatusDuplicate, StatusBlocked} => i \notin StoredDependencies(status, deps)
        /\ status \in {StatusOpen, StatusResolved} => StoredDependencies(status, deps) = {}
    BY <1>1 DEF BodyAccepted, StoredDependencies, StatusOpen, StatusResolved, StatusBlocked, StatusDuplicate
  <2>3. status \in {StatusBlocked, StatusDuplicate} =>
          StoredDependencies(status, deps) = DependenciesToCheck(issues[i], status, deps)
    BY DEF StoredDependencies, DependenciesToCheck, StatusOpen, StatusResolved, StatusBlocked, StatusDuplicate
  <2> QED  BY <2>1, <2>2, <2>3 DEF RequestOK
<1>7. UNCHANGED <<issues, comments, attachments, nextIssue, nextComment, nextAttachment>>
  BY DEF UpdateIssueRead
<1>8. ServingTypeOK' /\ RequestsOK'
  BY <1>2, <1>3, <1>5, <1>6, <1>7, BeginRequest DEF IInv
<1> QED  BY <1>7, <1>8, QuietStep

\* The other handlers that read first and write later.
LEMMA ReadStep ==
  ASSUME IInv, NEW r \in Requests,
         \/ CreateCommentRead(r) \/ CreateIssueAttachmentRead(r) \/ CreateCommentAttachmentRead(r)
         \/ DeleteAttachmentRead(r) \/ DeleteIssueRead(r)
  PROVE  IInv'
<1>1. PICK step \in {"comment_insert", "attach_insert", "delete_attachment_row", "delete_comments"},
           u \in Users, i \in {0} \cup IssueIds, t \in {0} \cup CommentIds \cup AttachmentIds :
        /\ Begin(r, Ask(step, u, i, t))
        /\ step # "delete_attachment_row" => i \in 1..(nextIssue - 1)
        /\ step = "attach_insert" => t \in {0} \cup CommentIds
  <2>1. /\ nextIssue \in Nat
        /\ \A i \in DOMAIN issues : i \in IssueIds /\ i \in 1..(nextIssue - 1)
        /\ \A c \in DOMAIN comments : comments[c] \in IssueIds /\ comments[c] \in 1..(nextIssue - 1)
        /\ DOMAIN comments \subseteq CommentIds /\ DOMAIN attachments \subseteq AttachmentIds
    BY IssuesAssumption DEF IInv, TypeOK, IdsIssued, IssueIds
  <2>2. CASE CreateCommentRead(r)  BY <2>1, <2>2 DEF CreateCommentRead
  <2>3. CASE CreateIssueAttachmentRead(r)  BY <2>1, <2>3 DEF CreateIssueAttachmentRead
  <2>4. CASE CreateCommentAttachmentRead(r)  BY <2>1, <2>4 DEF CreateCommentAttachmentRead
  <2>5. CASE DeleteAttachmentRead(r)  BY <2>1, <2>5 DEF DeleteAttachmentRead
  <2>6. CASE DeleteIssueRead(r)  BY <2>1, <2>6 DEF DeleteIssueRead
  <2> QED  BY <2>2, <2>3, <2>4, <2>5, <2>6
<1>2. UNCHANGED <<issues, comments, attachments, nextIssue, nextComment, nextAttachment>>
  BY DEF CreateCommentRead, CreateIssueAttachmentRead, CreateCommentAttachmentRead,
         DeleteAttachmentRead, DeleteIssueRead
<1>3. RequestOK(Ask(step, u, i, t), nextIssue)
  BY <1>1, AskType DEF RequestOK, IssueSteps
<1>4. nextIssue \in Nat
  BY IssuesAssumption DEF IInv, TypeOK
<1>5. ServingTypeOK' /\ RequestsOK'
  BY <1>1, <1>2, <1>3, <1>4, AskType, BeginRequest DEF IInv
<1> QED  BY <1>2, <1>5, QuietStep

LEMMA CheckDependencyStep ==
  ASSUME IInv, NEW r \in Requests, CheckDependency(r)
  PROVE  IInv'
<1>1. UNCHANGED <<issues, comments, attachments, nextIssue, nextComment, nextAttachment>>
  BY DEF CheckDependency
<1>2. PICK d \in serving[r].todo :
        IF DependencyMet(serving[r], d)
        THEN serving' = [serving EXCEPT ![r].todo = @ \ {d}]
        ELSE Answer(r)
  BY DEF CheckDependency
<1>3. CASE ~DependencyMet(serving[r], d)
  BY <1>1, <1>2, <1>3, AnswerRequest, QuietStep DEF IInv
<1>4. CASE DependencyMet(serving[r], d)
  <2> DEFINE q == [serving[r] EXCEPT !.todo = serving[r].todo \ {d}]
  <2>1. r \in DOMAIN serving /\ serving[r] \in Serving /\ serving[r].step = "update_checks"
    BY DEF CheckDependency, At, IInv, TypeOK
  <2>2. serving' = [serving EXCEPT ![r] = q]
    BY <1>2, <1>4
  <2>3. q \in Serving
    BY <2>1 DEF Serving
  <2>4. d \in 1..(nextIssue - 1)
    BY <1>4, IssuesAssumption DEF DependencyMet, IInv, IdsIssued, TypeOK, IssueIds
  <2>5. /\ q.step = serving[r].step /\ q.status = serving[r].status /\ q.deps = serving[r].deps
        /\ q.issue = serving[r].issue /\ q.target = serving[r].target
        /\ q.todo = serving[r].todo \ {d}
    BY <2>1 DEF Serving
  <2>6. RequestOK(q, nextIssue)
    BY <2>1, <2>4, <2>5 DEF RequestOK, RequestsOK, IInv
  <2>7. ServingTypeOK' /\ RequestsOK'
    BY <1>1, <2>2, <2>3, <2>6 DEF ServingTypeOK, RequestsOK, TypeOK, IInv
  <2> QED  BY <1>1, <2>7, QuietStep
<1> QED  BY <1>3, <1>4

LEMMA QuietAnswerStep ==
  ASSUME IInv, NEW r \in Requests,
         CreateIssueRefetch(r) \/ UpdateIssueRefetch(r) \/ Abort(r)
  PROVE  IInv'
<1>1. UNCHANGED <<issues, comments, attachments, nextIssue, nextComment, nextAttachment>>
  BY DEF CreateIssueRefetch, UpdateIssueRefetch, Abort
<1>2. Answer(r) \/ (At(r, "update_refetch") /\ Advance(r, "auto_comment"))
  BY DEF CreateIssueRefetch, UpdateIssueRefetch, Abort
<1>3. CASE Answer(r)
  BY <1>1, <1>3, AnswerRequest, QuietStep DEF IInv
<1>4. CASE At(r, "update_refetch") /\ Advance(r, "auto_comment")
  <2>1. ServingTypeOK' /\ RequestsOK'
    BY <1>1, <1>4, AdvanceRequest DEF IInv, At, IssueSteps
  <2> QED  BY <1>1, <2>1, QuietStep
<1> QED  BY <1>2, <1>3, <1>4

-----------------------------------------------------------------------------
(* Steps that write a table.                                               *)

LEMMA CreateIssueStep ==
  ASSUME IInv, NEW r \in Requests, CreateIssueInsert(r)
  PROVE  IInv'
<1>1. PICK u \in Users, a \in Assignees :
        /\ issues' = Put(issues, nextIssue, [status |-> StatusOpen, deps |-> {}, reporter |-> u,
                                             assignee |-> a, resolved |-> FALSE])
        /\ Begin(r, Ask("created", u, nextIssue, 0))
  BY DEF CreateIssueInsert, FreshIssueId
<1> DEFINE row == [status |-> StatusOpen, deps |-> {}, reporter |-> u,
                   assignee |-> a, resolved |-> FALSE]
<1>2. /\ nextIssue \in IssueIds /\ nextIssue \in Nat /\ nextIssue' = nextIssue + 1
      /\ nextIssue' \in 1..(MaxIssues + 1)
      /\ UNCHANGED <<comments, attachments, nextComment, nextAttachment>>
  BY IssuesAssumption DEF CreateIssueInsert, IssueIds
<1>3. row \in IssueRow
  BY IssuesAssumption DEF IssueRow, Statuses, KnownStatuses
<1>4. /\ DOMAIN issues' = DOMAIN issues \cup {nextIssue}
      /\ issues'[nextIssue] = row
      /\ \A i \in DOMAIN issues : i # nextIssue => issues'[i] = issues[i]
  BY <1>1 DEF Put
<1>5. issues' \in [DOMAIN issues \cup {nextIssue} -> IssueRow]
  BY <1>1, <1>3, PutType DEF IInv, TypeOK
<1>6. \A i \in DOMAIN issues : i \in Nat /\ i < nextIssue
  BY IssuesAssumption DEF IInv, TypeOK, IdsIssued, IssueIds
<1>7. ServingTypeOK' /\ RequestsOK'
  <2>1. RequestOK(Ask("created", u, nextIssue, 0), nextIssue')
    BY <1>2 DEF RequestOK, Ask, IssueIds
  <2> QED  BY <1>1, <1>2, <2>1, AskType, BeginRequest DEF IInv
<1>8. TypeOK'
  BY <1>2, <1>4, <1>5, <1>7 DEF IInv, TypeOK, ServingTypeOK
<1>9. IdsIssued'
  <2>1. \A i \in DOMAIN issues' : i < nextIssue'
    BY <1>2, <1>4, <1>6
  <2>2. \A c \in DOMAIN comments' : comments'[c] < nextIssue'
    BY <1>2, IssuesAssumption DEF IInv, TypeOK, IdsIssued, IssueIds
  <2>3. \A at \in DOMAIN attachments' : attachments'[at].issue < nextIssue'
    BY <1>2, IssuesAssumption DEF IInv, TypeOK, IdsIssued, IssueIds, AttachmentRow
  <2> QED  BY <2>1, <2>2, <2>3 DEF IdsIssued
<1>10. RowsConsistent'
  BY <1>4, <1>6 DEF IInv, RowsConsistent, StatusOpen, StatusResolved, StatusBlocked, StatusDuplicate
<1>11. DependenciesWereFiled'
  BY <1>2, <1>4, <1>6 DEF IInv, DependenciesWereFiled, StatusOpen, StatusBlocked, StatusDuplicate
<1> QED  BY <1>7, <1>8, <1>9, <1>10, <1>11 DEF IInv

LEMMA UpdateIssueWriteStep ==
  ASSUME IInv, NEW r \in Requests, UpdateIssueWrite(r)
  PROVE  IInv'
<1> DEFINE q == serving[r]  i == q.issue
           row == [status |-> q.status, deps |-> q.deps, reporter |-> issues[i].reporter,
                   assignee |-> q.assignee, resolved |-> ResolvedAfter(issues[i], q.status)]
<1>1. /\ r \in DOMAIN serving /\ q.step = "update_checks" /\ q.todo = {}
      /\ issues' = Update(issues, i, row)
      /\ Advance(r, "update_refetch")
      /\ UNCHANGED <<comments, attachments, nextIssue, nextComment, nextAttachment>>
  BY DEF UpdateIssueWrite, At, WriteRow
<1>2. q \in Serving
  BY <1>1 DEF IInv, TypeOK
<1>3. i \in DOMAIN issues => row \in IssueRow
  BY <1>2 DEF IInv, TypeOK, Serving, IssueRow, ResolvedAfter
<1>4. /\ DOMAIN issues' = DOMAIN issues
      /\ i \in DOMAIN issues => issues'[i] = row
      /\ \A j \in DOMAIN issues : j # i => issues'[j] = issues[j]
      /\ issues' \in [DOMAIN issues -> IssueRow]
  <2>1. issues \in [DOMAIN issues -> IssueRow]
    BY DEF IInv, TypeOK
  <2>2. CASE i \in DOMAIN issues
    <3>1. issues' = [issues EXCEPT ![i] = row]
      BY <1>1, <2>2 DEF Update
    <3> HIDE DEF row
    <3> QED  BY <2>1, <2>2, <3>1, <1>3
  <2>3. CASE i \notin DOMAIN issues
    BY <1>1, <2>1, <2>3 DEF Update
  <2> QED  BY <2>2, <2>3
<1>5. ServingTypeOK' /\ RequestsOK'
  BY <1>1, AdvanceRequest DEF IInv, IssueSteps
<1>6. TypeOK'
  BY <1>1, <1>4, <1>5 DEF IInv, TypeOK, ServingTypeOK
<1>7. IdsIssued'
  BY <1>1, <1>4 DEF IInv, IdsIssued
<1>8. RequestOK(q, nextIssue)
  BY <1>1 DEF IInv, RequestsOK
<1>9. RowsConsistent'
  <2>1. ASSUME i \in DOMAIN issues
        PROVE  /\ row.status = StatusDuplicate => Cardinality(row.deps) = 1
               /\ row.status = StatusBlocked => row.deps # {}
               /\ row.status \in {StatusDuplicate, StatusBlocked} => i \notin row.deps
               /\ row.status \in {StatusOpen, StatusResolved} => row.deps = {}
    BY <1>1, <1>8 DEF RequestOK
  <2>2. /\ row.status \in {StatusResolved, StatusDuplicate} => row.resolved
        /\ row.status \in {StatusOpen, StatusBlocked} => ~row.resolved
    BY DEF ResolvedAfter, StatusOpen, StatusResolved, StatusBlocked, StatusDuplicate
  <2> HIDE DEF row
  <2>3. ASSUME NEW j \in DOMAIN issues'
        PROVE  /\ issues'[j].status = StatusDuplicate => Cardinality(issues'[j].deps) = 1
               /\ issues'[j].status = StatusBlocked => issues'[j].deps # {}
               /\ issues'[j].status \in {StatusDuplicate, StatusBlocked} => j \notin issues'[j].deps
               /\ issues'[j].status \in {StatusOpen, StatusResolved} => issues'[j].deps = {}
               /\ issues'[j].status \in {StatusResolved, StatusDuplicate} => issues'[j].resolved
               /\ issues'[j].status \in {StatusOpen, StatusBlocked} => ~issues'[j].resolved
    <3>1. CASE j = i  BY <1>4, <2>1, <2>2, <3>1
    <3>2. CASE j # i  BY <1>4, <3>2 DEF IInv, RowsConsistent
    <3> QED  BY <3>1, <3>2
  <2> QED  BY <2>3 DEF RowsConsistent
<1>10. DependenciesWereFiled'
  <2>1. row.status \in {StatusBlocked, StatusDuplicate} => row.deps \subseteq 1..(nextIssue - 1)
    BY <1>1, <1>8 DEF RequestOK
  <2> HIDE DEF row
  <2> QED  BY <1>1, <1>4, <2>1 DEF IInv, DependenciesWereFiled
<1> QED  BY <1>5, <1>6, <1>7, <1>9, <1>10 DEF IInv

\* Steps that write comments or attachments and leave the issues alone.
LEMMA ChildStep ==
  ASSUME IInv, ServingTypeOK', RequestsOK', UNCHANGED <<issues, nextIssue>>,
         DOMAIN comments' \subseteq CommentIds, comments' \in [DOMAIN comments' -> IssueIds],
         DOMAIN attachments' \subseteq AttachmentIds,
         attachments' \in [DOMAIN attachments' -> AttachmentRow],
         nextComment' \in 1..(MaxComments + 1), nextAttachment' \in 1..(MaxAttachments + 1),
         \A c \in DOMAIN comments' : comments'[c] < nextIssue,
         \A a \in DOMAIN attachments' : attachments'[a].issue < nextIssue
  PROVE  IInv'
<1>1. TypeOK'
  BY DEF IInv, TypeOK, ServingTypeOK
<1>2. IdsIssued'
  BY DEF IInv, IdsIssued
<1>3. RowsConsistent' /\ DependenciesWereFiled'
  BY DEF IInv, RowsConsistent, DependenciesWereFiled
<1> QED  BY <1>1, <1>2, <1>3 DEF IInv

\* What IInv says of the children, in the form the steps below use.
LEMMA ChildTypes ==
  ASSUME IInv
  PROVE  /\ DOMAIN comments \subseteq CommentIds /\ comments \in [DOMAIN comments -> IssueIds]
         /\ DOMAIN attachments \subseteq AttachmentIds
         /\ attachments \in [DOMAIN attachments -> AttachmentRow]
         /\ nextComment \in 1..(MaxComments + 1) /\ nextAttachment \in 1..(MaxAttachments + 1)
         /\ nextIssue \in Nat
         /\ \A c \in DOMAIN comments : comments[c] < nextIssue
         /\ \A a \in DOMAIN attachments : attachments[a].issue < nextIssue
BY IssuesAssumption DEF IInv, TypeOK, IdsIssued

LEMMA CreateCommentStep ==
  ASSUME IInv, NEW r \in Requests, CreateComment(r)
  PROVE  IInv'
<1>1. /\ nextComment \in CommentIds /\ nextComment' = nextComment + 1
      /\ comments' = Put(comments, nextComment, serving[r].issue)
      /\ Answer(r) /\ UNCHANGED <<issues, attachments, nextIssue, nextAttachment>>
  BY DEF CreateComment
<1>2. serving[r].issue \in IssueIds /\ serving[r].issue < nextIssue
  <2>1. r \in DOMAIN serving /\ serving[r].step \in IssueSteps
    BY DEF CreateComment, At, IssueSteps
  <2> QED  BY <2>1, IssuesAssumption DEF IInv, TypeOK, RequestsOK, RequestOK, IssueIds
<1>3. /\ DOMAIN comments' = DOMAIN comments \cup {nextComment}
      /\ comments'[nextComment] = serving[r].issue
      /\ \A c \in DOMAIN comments : c # nextComment => comments'[c] = comments[c]
  BY <1>1 DEF Put
<1>4. comments' \in [DOMAIN comments \cup {nextComment} -> IssueIds]
  BY <1>1, <1>2, ChildTypes, PutType
<1>5. nextComment' \in 1..(MaxComments + 1)
  BY <1>1, IssuesAssumption DEF CommentIds
<1>6. ServingTypeOK' /\ RequestsOK'
  BY <1>1, AnswerRequest DEF IInv
<1> QED  BY <1>1, <1>2, <1>3, <1>4, <1>5, <1>6, ChildTypes, ChildStep

LEMMA CreateAttachmentStep ==
  ASSUME IInv, NEW r \in Requests, CreateAttachment(r)
  PROVE  IInv'
<1> DEFINE row == [issue |-> serving[r].issue, comment |-> serving[r].target,
                   uploader |-> serving[r].user]
<1>1. /\ nextAttachment \in AttachmentIds /\ nextAttachment' = nextAttachment + 1
      /\ attachments' = Put(attachments, nextAttachment, row)
      /\ Answer(r) /\ UNCHANGED <<issues, comments, nextIssue, nextComment>>
  BY DEF CreateAttachment
<1>2. row \in AttachmentRow /\ row.issue < nextIssue
  <2>1. r \in DOMAIN serving /\ serving[r].step = "attach_insert"
    BY DEF CreateAttachment, At
  <2>2. serving[r] \in Serving /\ RequestOK(serving[r], nextIssue) /\ nextIssue \in 1..(MaxIssues + 1)
    BY <2>1 DEF IInv, TypeOK, RequestsOK
  <2>3. serving[r].issue \in 1..(nextIssue - 1) /\ serving[r].target \in {0} \cup CommentIds
    BY <2>1, <2>2 DEF RequestOK, IssueSteps
  <2> QED  BY <2>2, <2>3, IssuesAssumption DEF AttachmentRow, Serving, IssueIds
<1> HIDE DEF row
<1>3. /\ DOMAIN attachments' = DOMAIN attachments \cup {nextAttachment}
      /\ attachments'[nextAttachment] = row
      /\ \A a \in DOMAIN attachments : a # nextAttachment => attachments'[a] = attachments[a]
  BY <1>1 DEF Put
<1>4. attachments' \in [DOMAIN attachments \cup {nextAttachment} -> AttachmentRow]
  BY <1>1, <1>2, ChildTypes, PutType
<1>5. nextAttachment' \in 1..(MaxAttachments + 1)
  BY <1>1, IssuesAssumption DEF AttachmentIds
<1>6. ServingTypeOK' /\ RequestsOK'
  BY <1>1, AnswerRequest DEF IInv
<1> QED  BY <1>1, <1>2, <1>3, <1>4, <1>5, <1>6, ChildTypes, ChildStep

\* The deletes of comments and attachments.
LEMMA DeleteChildrenStep ==
  ASSUME IInv, ServingTypeOK', RequestsOK',
         UNCHANGED <<issues, nextIssue, nextComment, nextAttachment>>,
         NEW cs, comments' = Without(comments, cs),
         NEW as, attachments' = Without(attachments, as)
  PROVE  IInv'
<1>1. /\ DOMAIN comments' = DOMAIN comments \ cs
      /\ \A c \in DOMAIN comments' : comments'[c] = comments[c]
      /\ comments' \in [DOMAIN comments' -> IssueIds]
  BY ChildTypes DEF Without, Restrict
<1>2. /\ DOMAIN attachments' = DOMAIN attachments \ as
      /\ \A a \in DOMAIN attachments' : attachments'[a] = attachments[a]
      /\ attachments' \in [DOMAIN attachments' -> AttachmentRow]
  BY ChildTypes DEF Without, Restrict
<1> QED  BY <1>1, <1>2, ChildTypes, ChildStep

\* Deleting nothing changes nothing.
LEMMA WithoutNothing ==
  ASSUME NEW S, NEW t, t \in [DOMAIN t -> S]
  PROVE  Without(t, {}) = t
BY DEF Without, Restrict

LEMMA DeleteCommentStep ==
  ASSUME IInv, NEW r \in Requests, DeleteAttachmentsByComment(r) \/ DeleteCommentRow(r)
  PROVE  IInv'
<1>1. CASE DeleteAttachmentsByComment(r)
  <2>1. PICK u \in Admins, c \in CommentIds :
          /\ attachments' = Without(attachments, {a \in DOMAIN attachments : attachments[a].comment = c})
          /\ Begin(r, Ask("delete_comment_row", u, 0, c))
    BY <1>1 DEF DeleteAttachmentsByComment
  <2>2. UNCHANGED <<issues, comments, nextIssue, nextComment, nextAttachment>>
    BY <1>1 DEF DeleteAttachmentsByComment
  <2>3. comments' = Without(comments, {})
    BY <2>2, ChildTypes, WithoutNothing
  <2>4. u \in Users
    BY IssuesAssumption
  <2>5. RequestOK(Ask("delete_comment_row", u, 0, c), nextIssue)
    BY DEF RequestOK, Ask, IssueSteps
  <2>6. ServingTypeOK' /\ RequestsOK'
    <3>1. Ask("delete_comment_row", u, 0, c) \in Serving
      BY <2>4, AskType
    <3> QED  BY <2>1, <2>2, <2>5, <3>1, ChildTypes, BeginRequest DEF IInv
  <2> QED  BY <2>1, <2>2, <2>3, <2>6, DeleteChildrenStep
<1>2. CASE DeleteCommentRow(r)
  <2>1. /\ comments' = Without(comments, {serving[r].target}) /\ Answer(r)
        /\ UNCHANGED <<issues, attachments, nextIssue, nextComment, nextAttachment>>
    BY <1>2 DEF DeleteCommentRow
  <2>2. attachments' = Without(attachments, {})
    BY <2>1, ChildTypes, WithoutNothing
  <2>3. ServingTypeOK' /\ RequestsOK'
    BY <2>1, AnswerRequest DEF IInv
  <2> QED  BY <2>1, <2>2, <2>3, DeleteChildrenStep
<1> QED  BY <1>1, <1>2

LEMMA DeleteAttachmentStep ==
  ASSUME IInv, NEW r \in Requests, DeleteAttachmentRow(r)
  PROVE  IInv'
<1>1. /\ attachments' = Without(attachments, {serving[r].target}) /\ Answer(r)
      /\ UNCHANGED <<issues, comments, nextIssue, nextComment, nextAttachment>>
  BY DEF DeleteAttachmentRow
<1>2. comments' = Without(comments, {})
  BY <1>1, ChildTypes, WithoutNothing
<1>3. ServingTypeOK' /\ RequestsOK'
  BY <1>1, AnswerRequest DEF IInv
<1> QED  BY <1>1, <1>2, <1>3, DeleteChildrenStep

LEMMA DeleteIssueStep ==
  ASSUME IInv, NEW r \in Requests,
         DeleteIssueComments(r) \/ DeleteIssueAttachments(r) \/ DeleteIssueRow(r)
  PROVE  IInv'
<1>1. CASE DeleteIssueComments(r)
  <2>1. /\ comments' = Without(comments, {c \in DOMAIN comments : comments[c] = serving[r].issue})
        /\ At(r, "delete_comments") /\ Advance(r, "delete_attachments")
        /\ UNCHANGED <<issues, attachments, nextIssue, nextComment, nextAttachment>>
    BY <1>1 DEF DeleteIssueComments
  <2>2. attachments' = Without(attachments, {})
    BY <2>1, ChildTypes, WithoutNothing
  <2>3. ServingTypeOK' /\ RequestsOK'
    BY <2>1, AdvanceRequest DEF IInv, At, IssueSteps
  <2> QED  BY <2>1, <2>2, <2>3, DeleteChildrenStep
<1>2. CASE DeleteIssueAttachments(r)
  <2>1. /\ attachments' = Without(attachments,
                            {a \in DOMAIN attachments : attachments[a].issue = serving[r].issue})
        /\ At(r, "delete_attachments") /\ Advance(r, "delete_row")
        /\ UNCHANGED <<issues, comments, nextIssue, nextComment, nextAttachment>>
    BY <1>2 DEF DeleteIssueAttachments
  <2>2. comments' = Without(comments, {})
    BY <2>1, ChildTypes, WithoutNothing
  <2>3. ServingTypeOK' /\ RequestsOK'
    BY <2>1, AdvanceRequest DEF IInv, At, IssueSteps
  <2> QED  BY <2>1, <2>2, <2>3, DeleteChildrenStep
<1>3. CASE DeleteIssueRow(r)
  <2>1. /\ issues' = Without(issues, {serving[r].issue}) /\ Answer(r)
        /\ UNCHANGED <<comments, attachments, nextIssue, nextComment, nextAttachment>>
    BY <1>3 DEF DeleteIssueRow
  <2>2. /\ DOMAIN issues' = DOMAIN issues \ {serving[r].issue}
        /\ \A i \in DOMAIN issues' : issues'[i] = issues[i]
        /\ issues' \in [DOMAIN issues' -> IssueRow]
    BY <2>1 DEF Without, Restrict, IInv, TypeOK
  <2>3. ServingTypeOK' /\ RequestsOK'
    BY <2>1, AnswerRequest DEF IInv
  <2>4. TypeOK'
    BY <2>1, <2>2, <2>3 DEF IInv, TypeOK, ServingTypeOK
  <2>5. IdsIssued' /\ RowsConsistent' /\ DependenciesWereFiled'
    BY <2>1, <2>2 DEF IInv, IdsIssued, RowsConsistent, DependenciesWereFiled
  <2> QED  BY <2>3, <2>4, <2>5 DEF IInv
<1> QED  BY <1>1, <1>2, <1>3

-----------------------------------------------------------------------------
(* The theorems.                                                           *)

LEMMA NextIInv == IInv /\ [Next]_vars => IInv'
<1> SUFFICES ASSUME IInv, [Next]_vars PROVE IInv'
  OBVIOUS
<1>1. CASE UNCHANGED vars
  <2>1. ServingTypeOK' /\ RequestsOK'
    BY <1>1 DEF vars, IInv, TypeOK, ServingTypeOK, RequestsOK
  <2> QED  BY <1>1, <2>1, QuietStep DEF vars
<1>2. CASE Next
  <2>1. PICK r \in Requests :
          \/ CreateIssueInsert(r) \/ CreateIssueRefetch(r)
          \/ UpdateIssueRead(r) \/ CheckDependency(r) \/ UpdateIssueWrite(r) \/ UpdateIssueRefetch(r)
          \/ CreateCommentRead(r) \/ CreateComment(r)
          \/ DeleteAttachmentsByComment(r) \/ DeleteCommentRow(r)
          \/ CreateIssueAttachmentRead(r) \/ CreateCommentAttachmentRead(r) \/ CreateAttachment(r)
          \/ DeleteAttachmentRead(r) \/ DeleteAttachmentRow(r)
          \/ DeleteIssueRead(r) \/ DeleteIssueComments(r) \/ DeleteIssueAttachments(r)
          \/ DeleteIssueRow(r) \/ Abort(r)
    BY <1>2 DEF Next, Step
  <2> QED
    BY <2>1, CreateIssueStep, UpdateIssueReadStep, ReadStep, CheckDependencyStep,
       QuietAnswerStep, UpdateIssueWriteStep, CreateCommentStep, CreateAttachmentStep,
       DeleteCommentStep, DeleteAttachmentStep, DeleteIssueStep
<1> QED  BY <1>1, <1>2

LEMMA Invariance == Spec => []IInv
BY InitIInv, NextIInv, PTL DEF Spec

\* Every variable keeps its type, however many requests overlap.
THEOREM TypeCorrect == Spec => []TypeOK
<1>1. IInv => TypeOK  BY DEF IInv
<1> QED  BY <1>1, Invariance, PTL

\* No interleaving of PUTs and deletes leaves a row whose dependencies or
\* resolved_at contradict its status.
THEOREM RowsStayConsistent == Spec => []RowsConsistent
<1>1. IInv => RowsConsistent  BY DEF IInv
<1> QED  BY <1>1, Invariance, PTL

\* No interleaving makes a Blocked or Duplicate issue refer to an id that has
\* not been issued.
THEOREM DependenciesFiled == Spec => []DependenciesWereFiled
<1>1. IInv => DependenciesWereFiled  BY DEF IInv
<1> QED  BY <1>1, Invariance, PTL

\* The only step that adds a row to issues is the INSERT of a create.
LEMMA RowsAreOnlyFiled ==
  ASSUME [Next]_vars, DOMAIN issues' \ DOMAIN issues # {}
  PROVE  \E r \in Requests : CreateIssueInsert(r)
<1> SUFFICES ASSUME \A r \in Requests : ~CreateIssueInsert(r)
             PROVE  DOMAIN issues' \subseteq DOMAIN issues
  OBVIOUS
<1>1. CASE UNCHANGED vars  BY <1>1 DEF vars
<1>2. ASSUME NEW r \in Requests, UpdateIssueWrite(r)
      PROVE  DOMAIN issues' \subseteq DOMAIN issues
  BY <1>2 DEF UpdateIssueWrite, WriteRow, Update
<1>3. ASSUME NEW r \in Requests, DeleteIssueRow(r)
      PROVE  DOMAIN issues' \subseteq DOMAIN issues
  BY <1>3 DEF DeleteIssueRow, Without, Restrict
<1>4. ASSUME NEW r \in Requests,
             \/ CreateIssueRefetch(r) \/ UpdateIssueRead(r) \/ CheckDependency(r)
             \/ UpdateIssueRefetch(r) \/ CreateCommentRead(r) \/ CreateComment(r)
             \/ DeleteAttachmentsByComment(r) \/ DeleteCommentRow(r)
             \/ CreateIssueAttachmentRead(r) \/ CreateCommentAttachmentRead(r)
             \/ CreateAttachment(r) \/ DeleteAttachmentRead(r) \/ DeleteAttachmentRow(r)
             \/ DeleteIssueRead(r) \/ DeleteIssueComments(r) \/ DeleteIssueAttachments(r)
             \/ Abort(r)
      PROVE  UNCHANGED issues
  BY <1>4 DEF CreateIssueRefetch, UpdateIssueRead, CheckDependency, UpdateIssueRefetch,
     CreateCommentRead, CreateComment, DeleteAttachmentsByComment, DeleteCommentRow,
     CreateIssueAttachmentRead, CreateCommentAttachmentRead, CreateAttachment,
     DeleteAttachmentRead, DeleteAttachmentRow, DeleteIssueRead, DeleteIssueComments,
     DeleteIssueAttachments, Abort
<1> QED  BY <1>1, <1>2, <1>3, <1>4 DEF Next, Step

\* A deleted issue never comes back: the write of a PUT that overlapped the
\* delete changes nothing, and ids are not issued twice.
THEOREM DeletedIssuesStayDeleted == Spec => DeletedStaysDeleted
<1>1. IInv /\ [Next]_vars =>
        [\A i \in DOMAIN issues' \ DOMAIN issues : i = nextIssue /\ nextIssue' = i + 1]_vars
  <2> SUFFICES ASSUME IInv, [Next]_vars, NEW i \in DOMAIN issues' \ DOMAIN issues
               PROVE  i = nextIssue /\ nextIssue' = i + 1
    OBVIOUS
  <2>1. PICK r \in Requests : CreateIssueInsert(r)
    BY RowsAreOnlyFiled
  <2> QED  BY <2>1 DEF CreateIssueInsert, FreshIssueId, Put
<1> QED  BY <1>1, Invariance, PTL DEF Spec, DeletedStaysDeleted

\* What an overlapped delete leaves behind never turns up under a later issue.
THEOREM IssuesAreBornBare == Spec => NewIssuesStartBare
<1>1. IInv /\ [Next]_vars =>
        [\A i \in DOMAIN issues' \ DOMAIN issues :
           /\ \A c \in DOMAIN comments' : comments'[c] # i
           /\ \A a \in DOMAIN attachments' : attachments'[a].issue # i]_vars
  <2> SUFFICES ASSUME IInv, [Next]_vars, NEW i \in DOMAIN issues' \ DOMAIN issues
               PROVE  /\ \A c \in DOMAIN comments' : comments'[c] # i
                      /\ \A a \in DOMAIN attachments' : attachments'[a].issue # i
    OBVIOUS
  <2>1. PICK r \in Requests : CreateIssueInsert(r)
    BY RowsAreOnlyFiled
  <2>2. i = nextIssue /\ UNCHANGED <<comments, attachments>>
    BY <2>1 DEF CreateIssueInsert, FreshIssueId, Put
  <2> QED  BY <2>2, ChildTypes
<1> QED  BY <1>1, Invariance, PTL DEF Spec, NewIssuesStartBare

-----------------------------------------------------------------------------
(* Orphans.  The checks the handlers make and the order in which           *)
(* db.DeleteIssue deletes keep children from outliving their issue,        *)
(* whatever statement a request is cut off at and whatever else overlaps   *)
(* it, unless the deletion of that very issue crosses the insertion.       *)

\* What a request has made sure of, where nothing has crossed: the issue it will
\* insert a child of exists, and the children it has deleted are gone.
Accounted(q) == q.issue \notin crossed =>
  /\ q.step \in Inserting => q.issue \in DOMAIN issues
  /\ q.step \in {"delete_attachments", "delete_row"} =>
       \A c \in DOMAIN comments : comments[c] # q.issue
  /\ q.step = "delete_row" => \A a \in DOMAIN attachments : attachments[a].issue # q.issue

ChildrenAccountedFor == \A r \in DOMAIN serving : Accounted(serving[r])

ParentInv == IInv /\ Crossing \subseteq crossed /\ NoOrphans /\ ChildrenAccountedFor

\* A step of r leaves what the others are doing alone.
OthersKept(r) ==
  \A s \in DOMAIN serving' \ {r} : s \in DOMAIN serving /\ serving'[s] = serving[s]

LEMMA BeginKeepsOthers ==
  ASSUME NEW r, NEW q, Begin(r, q)
  PROVE  OthersKept(r) /\ r \in DOMAIN serving' /\ serving'[r] = q
BY DEF Begin, Idle, Put, OthersKept

LEMMA AskAsks ==
  ASSUME NEW step, NEW u, NEW i, NEW t
  PROVE  Ask(step, u, i, t).step = step /\ Ask(step, u, i, t).issue = i
BY DEF Ask

LEMMA AnswerKeepsOthers ==
  ASSUME NEW r, Answer(r)
  PROVE  OthersKept(r) /\ r \notin DOMAIN serving'
BY DEF Answer, Without, Restrict, OthersKept

LEMMA AdvanceKeepsOthers ==
  ASSUME TypeOK, NEW r \in DOMAIN serving, NEW step, Advance(r, step)
  PROVE  /\ OthersKept(r) /\ r \in DOMAIN serving'
         /\ serving'[r].step = step /\ serving'[r].issue = serving[r].issue
BY DEF Advance, TypeOK, Serving, OthersKept

\* A step that removes no issue and adds no child makes no orphan and breaks
\* nothing the other requests rely on.
LEMMA NothingAdded ==
  ASSUME NoOrphans, ChildrenAccountedFor, crossed \subseteq crossed', NEW r, OthersKept(r),
         DOMAIN issues \subseteq DOMAIN issues',
         \A c \in DOMAIN comments' : c \in DOMAIN comments /\ comments'[c] = comments[c],
         \A a \in DOMAIN attachments' : a \in DOMAIN attachments /\ attachments'[a] = attachments[a],
         r \in DOMAIN serving' => Accounted(serving[r])'
  PROVE  NoOrphans' /\ ChildrenAccountedFor'
<1>1. NoOrphans'
  BY DEF NoOrphans
<1>2. ASSUME NEW s \in DOMAIN serving', s # r
      PROVE  Accounted(serving[s])'
  <2>1. s \in DOMAIN serving /\ serving'[s] = serving[s] /\ Accounted(serving[s])
    BY <1>2 DEF OthersKept, ChildrenAccountedFor
  <2> QED  BY <2>1 DEF Accounted
<1> QED  BY <1>1, <1>2 DEF ChildrenAccountedFor

\* The steps that insert a child: of a live issue, which nobody is deleting, or
\* of one whose deletion has crossed.
LEMMA ChildInserted ==
  ASSUME NoOrphans, ChildrenAccountedFor, Crossing \subseteq crossed, crossed \subseteq crossed',
         NEW r \in DOMAIN serving, serving[r].step \in Inserting, Answer(r),
         UNCHANGED issues,
         \A c \in DOMAIN comments' :
           \/ c \in DOMAIN comments /\ comments'[c] = comments[c]
           \/ comments'[c] = serving[r].issue,
         \A a \in DOMAIN attachments' :
           \/ a \in DOMAIN attachments /\ attachments'[a] = attachments[a]
           \/ attachments'[a].issue = serving[r].issue
  PROVE  NoOrphans' /\ ChildrenAccountedFor'
<1>1. serving[r].issue \in DOMAIN issues \cup crossed
  BY DEF ChildrenAccountedFor, Accounted
<1>2. NoOrphans'
  BY <1>1 DEF NoOrphans
<1>3. OthersKept(r) /\ r \notin DOMAIN serving'
  BY AnswerKeepsOthers
<1>4. ASSUME NEW s \in DOMAIN serving'
      PROVE  Accounted(serving[s])'
  <2>1. s \in DOMAIN serving /\ serving'[s] = serving[s] /\ Accounted(serving[s])
    BY <1>3 DEF OthersKept, ChildrenAccountedFor
  <2>2. serving[s].step \in Deleting /\ serving[s].issue \notin crossed
          => serving[s].issue # serving[r].issue
    BY <2>1 DEF Crossing, Handled
  <2> QED  BY <2>1, <2>2 DEF Accounted, Deleting
<1> QED  BY <1>2, <1>4 DEF ChildrenAccountedFor

LEMMA ParentStep ==
  ASSUME ParentInv, crossed \subseteq crossed', NEW r \in Requests,
         Step(r)
  PROVE  NoOrphans' /\ ChildrenAccountedFor'
<1>0. /\ TypeOK /\ Crossing \subseteq crossed /\ crossed \subseteq crossed'
      /\ NoOrphans /\ ChildrenAccountedFor
  BY DEF ParentInv, IInv
<1>1. CASE CreateIssueInsert(r)
  <2>1. PICK u \in Users, a \in Assignees :
          /\ issues' = Put(issues, FreshIssueId,
                           [status |-> StatusOpen, deps |-> {}, reporter |-> u,
                            assignee |-> a, resolved |-> FALSE])
          /\ Begin(r, Ask("created", u, FreshIssueId, 0))
    BY <1>1 DEF CreateIssueInsert
  <2>2. DOMAIN issues \subseteq DOMAIN issues' /\ UNCHANGED <<comments, attachments>>
    BY <1>1, <2>1 DEF CreateIssueInsert, Put
  <2>3. OthersKept(r) /\ serving'[r].step = "created"
    BY <2>1, BeginKeepsOthers, AskAsks
  <2> QED  BY <1>0, <2>2, <2>3, NothingAdded DEF Accounted, Inserting
<1>2. CASE CreateIssueRefetch(r) \/ Abort(r)
  BY <1>0, <1>2, AnswerKeepsOthers, NothingAdded DEF CreateIssueRefetch, Abort
<1>3. CASE UpdateIssueRead(r)
  <2>1. UNCHANGED <<issues, comments, attachments>>
    BY <1>3 DEF UpdateIssueRead
  <2>2. PICK q : Begin(r, q) /\ q.step = "update_checks"
    BY <1>3 DEF UpdateIssueRead
  <2>3. OthersKept(r) /\ serving'[r].step = "update_checks"
    BY <2>2, BeginKeepsOthers
  <2> QED  BY <1>0, <2>1, <2>3, NothingAdded DEF Accounted, Inserting
<1>4. CASE CheckDependency(r)
  <2>1. UNCHANGED <<issues, comments, attachments>>
    BY <1>4 DEF CheckDependency
  <2>2. CASE Answer(r)  BY <1>0, <2>1, <2>2, AnswerKeepsOthers, NothingAdded
  <2>3. CASE \E d \in serving[r].todo : serving' = [serving EXCEPT ![r].todo = @ \ {d}]
    <3>1. r \in DOMAIN serving /\ serving[r].step = "update_checks" /\ serving[r] \in Serving
      BY <1>0, <1>4 DEF CheckDependency, At, TypeOK
    <3>2. OthersKept(r) /\ serving'[r].step = "update_checks"
      BY <1>0, <2>3, <3>1 DEF TypeOK, Serving, OthersKept
    <3> QED  BY <1>0, <2>1, <3>2, NothingAdded DEF Accounted, Inserting
  <2> QED  BY <1>4, <2>2, <2>3 DEF CheckDependency
<1>5. CASE UpdateIssueWrite(r)
  <2>1. /\ r \in DOMAIN serving /\ Advance(r, "update_refetch")
        /\ UNCHANGED <<comments, attachments>> /\ DOMAIN issues' = DOMAIN issues
    BY <1>5 DEF UpdateIssueWrite, At, WriteRow, Update
  <2>2. OthersKept(r) /\ serving'[r].step = "update_refetch"
    BY <1>0, <2>1, AdvanceKeepsOthers
  <2> QED  BY <1>0, <2>1, <2>2, NothingAdded DEF Accounted, Inserting
<1>6. CASE UpdateIssueRefetch(r)
  <2>1. UNCHANGED <<issues, comments, attachments>> /\ r \in DOMAIN serving
    BY <1>6 DEF UpdateIssueRefetch, At
  <2>2. CASE Answer(r)  BY <1>0, <2>1, <2>2, AnswerKeepsOthers, NothingAdded
  <2>3. CASE serving[r].issue \in DOMAIN issues /\ Advance(r, "auto_comment")
    <3>1. /\ OthersKept(r) /\ serving'[r].step = "auto_comment"
          /\ serving'[r].issue = serving[r].issue
      BY <1>0, <2>1, <2>3, AdvanceKeepsOthers
    <3> QED  BY <1>0, <2>1, <2>3, <3>1, NothingAdded DEF Accounted
  <2> QED  BY <1>6, <2>2, <2>3 DEF UpdateIssueRefetch
<1>7. CASE CreateCommentRead(r) \/ CreateIssueAttachmentRead(r) \/ CreateCommentAttachmentRead(r)
  <2>1. UNCHANGED <<issues, comments, attachments>>
    BY <1>7 DEF CreateCommentRead, CreateIssueAttachmentRead, CreateCommentAttachmentRead
  <2>2. PICK step \in Inserting, i \in DOMAIN issues \cup crossed :
         \E u, t : Begin(r, Ask(step, u, i, t))
    <3>1. CASE CreateCommentRead(r)  BY <3>1 DEF CreateCommentRead, Inserting
    <3>2. CASE CreateIssueAttachmentRead(r)  BY <3>2 DEF CreateIssueAttachmentRead, Inserting
    <3>3. CASE CreateCommentAttachmentRead(r)
      BY <1>0, <3>3 DEF CreateCommentAttachmentRead, Inserting, NoOrphans
    <3> QED  BY <1>7, <3>1, <3>2, <3>3
  <2>3. OthersKept(r) /\ serving'[r].step = step /\ serving'[r].issue = i
    BY <2>2, BeginKeepsOthers, AskAsks
  <2> QED  BY <1>0, <2>1, <2>3, NothingAdded DEF Accounted, Inserting
<1>8. CASE CreateComment(r)
  <2>1. /\ r \in DOMAIN serving /\ serving[r].step \in Inserting /\ Answer(r)
        /\ UNCHANGED <<issues, attachments>> /\ comments' = Put(comments, nextComment, serving[r].issue)
    BY <1>8 DEF CreateComment, At, Inserting
  <2> QED  BY <1>0, <2>1, ChildInserted DEF Put
<1>9. CASE CreateAttachment(r)
  <2>1. /\ r \in DOMAIN serving /\ serving[r].step \in Inserting /\ Answer(r)
        /\ UNCHANGED <<issues, comments>>
    BY <1>9 DEF CreateAttachment, At, Inserting
  <2>2. \A a \in DOMAIN attachments' :
          \/ a \in DOMAIN attachments /\ attachments'[a] = attachments[a]
          \/ attachments'[a].issue = serving[r].issue
    BY <1>9 DEF CreateAttachment, Put
  <2> QED  BY <1>0, <2>1, <2>2, ChildInserted
<1>10. CASE DeleteAttachmentsByComment(r) \/ DeleteAttachmentRead(r) \/ DeleteIssueRead(r)
  <2>1. /\ UNCHANGED <<issues, comments>>
        /\ \A a \in DOMAIN attachments' : a \in DOMAIN attachments /\ attachments'[a] = attachments[a]
    BY <1>10 DEF DeleteAttachmentsByComment, DeleteAttachmentRead, DeleteIssueRead, Without, Restrict
  <2>2. PICK step \in {"delete_comment_row", "delete_attachment_row", "delete_comments"} :
          \E u, i, t : Begin(r, Ask(step, u, i, t))
    BY <1>10 DEF DeleteAttachmentsByComment, DeleteAttachmentRead, DeleteIssueRead
  <2>3. OthersKept(r) /\ serving'[r].step = step
    BY <2>2, BeginKeepsOthers, AskAsks
  <2> QED  BY <1>0, <2>1, <2>3, NothingAdded DEF Accounted, Inserting
<1>11. CASE DeleteCommentRow(r) \/ DeleteAttachmentRow(r)
  <2>1. /\ Answer(r) /\ UNCHANGED issues
        /\ \A c \in DOMAIN comments' : c \in DOMAIN comments /\ comments'[c] = comments[c]
        /\ \A a \in DOMAIN attachments' : a \in DOMAIN attachments /\ attachments'[a] = attachments[a]
    BY <1>11 DEF DeleteCommentRow, DeleteAttachmentRow, Without, Restrict
  <2> QED  BY <1>0, <2>1, AnswerKeepsOthers, NothingAdded
<1>12. CASE DeleteIssueComments(r)
  <2>1. r \in DOMAIN serving /\ Advance(r, "delete_attachments") /\ UNCHANGED <<issues, attachments>>
    BY <1>12 DEF DeleteIssueComments, At
  <2>2. /\ OthersKept(r) /\ serving'[r].step = "delete_attachments"
        /\ serving'[r].issue = serving[r].issue
    BY <1>0, <2>1, AdvanceKeepsOthers
  <2>3. \A c \in DOMAIN comments' :
          c \in DOMAIN comments /\ comments'[c] = comments[c] /\ comments'[c] # serving[r].issue
    BY <1>12 DEF DeleteIssueComments, Without, Restrict
  <2>4. Accounted(serving[r])'
    BY <2>2, <2>3 DEF Accounted, Inserting
  <2> QED  BY <1>0, <2>1, <2>2, <2>3, <2>4, NothingAdded
<1>13. CASE DeleteIssueAttachments(r)
  <2>1. /\ r \in DOMAIN serving /\ serving[r].step = "delete_attachments"
        /\ Advance(r, "delete_row") /\ UNCHANGED <<issues, comments>>
    BY <1>13 DEF DeleteIssueAttachments, At
  <2>2. /\ OthersKept(r) /\ serving'[r].step = "delete_row"
        /\ serving'[r].issue = serving[r].issue
    BY <1>0, <2>1, AdvanceKeepsOthers
  <2>3. \A a \in DOMAIN attachments' :
          /\ a \in DOMAIN attachments /\ attachments'[a] = attachments[a]
          /\ attachments'[a].issue # serving[r].issue
    BY <1>13 DEF DeleteIssueAttachments, Without, Restrict
  <2>4. Accounted(serving[r])
    BY <1>0, <2>1 DEF ChildrenAccountedFor
  <2>5. Accounted(serving[r])'
    BY <2>1, <2>2, <2>3, <2>4 DEF Accounted, Inserting
  <2> QED  BY <1>0, <2>1, <2>2, <2>3, <2>5, NothingAdded
<1>14. CASE DeleteIssueRow(r)
  <2>1. /\ r \in DOMAIN serving /\ serving[r].step = "delete_row" /\ Answer(r)
        /\ DOMAIN issues' = DOMAIN issues \ {serving[r].issue} /\ UNCHANGED <<comments, attachments>>
    BY <1>14 DEF DeleteIssueRow, At, Without, Restrict
  <2>2. Accounted(serving[r])
    BY <1>0, <2>1 DEF ChildrenAccountedFor
  <2>3. NoOrphans'
    BY <1>0, <2>1, <2>2 DEF NoOrphans, Accounted
  <2>4. OthersKept(r) /\ r \notin DOMAIN serving'
    BY <2>1, AnswerKeepsOthers
  <2>5. ASSUME NEW s \in DOMAIN serving'
        PROVE  Accounted(serving[s])'
    <3>1. s \in DOMAIN serving /\ serving'[s] = serving[s] /\ Accounted(serving[s])
      BY <1>0, <2>4 DEF OthersKept, ChildrenAccountedFor
    <3>2. serving[s].step \in Inserting /\ serving[s].issue \notin crossed
            => serving[s].issue # serving[r].issue
      BY <1>0, <2>1, <3>1 DEF Crossing, Handled, Deleting
    <3> QED  BY <2>1, <3>1, <3>2 DEF Accounted
  <2> QED  BY <2>3, <2>5 DEF ChildrenAccountedFor
<1> QED
  BY <1>1, <1>2, <1>3, <1>4, <1>5, <1>6, <1>7, <1>8, <1>9, <1>10, <1>11, <1>12, <1>13, <1>14
     DEF Step

\* Of all the ways requests overlap and die between two statements, only one
\* makes orphans: an issue deleted while a request is about to insert a comment
\* or an attachment under it, and only the children of that issue.
THEOREM OnlyCrossingsOrphan == Spec => []NoOrphans
<1>1. Init => ParentInv
  <2> SUFFICES ASSUME Init PROVE Crossing \subseteq crossed /\ NoOrphans /\ ChildrenAccountedFor
    BY InitIInv DEF ParentInv
  <2> QED  BY DEF Init, NoRows, Crossing, Handled, NoOrphans, ChildrenAccountedFor
<1>2. ParentInv /\ [Next]_vars => ParentInv'
  <2> SUFFICES ASSUME ParentInv, [Next]_vars PROVE ParentInv'
    OBVIOUS
  <2>1. IInv'
    BY NextIInv DEF ParentInv
  <2>2. CASE UNCHANGED vars
    BY <2>1, <2>2 DEF ParentInv, vars, Crossing, Handled, NoOrphans, ChildrenAccountedFor, Accounted
  <2>3. CASE Next
    <3>1. crossed \subseteq crossed' /\ Crossing' \subseteq crossed'
      BY <2>3 DEF Next
    <3>2. NoOrphans' /\ ChildrenAccountedFor'
      BY <2>3, <3>1, ParentStep DEF Next
    <3> QED  BY <2>1, <3>1, <3>2 DEF ParentInv
  <2> QED  BY <2>2, <2>3
<1>3. ParentInv => NoOrphans
  BY DEF ParentInv
<1> QED  BY <1>1, <1>2, <1>3, PTL DEF Spec
=============================================================================
