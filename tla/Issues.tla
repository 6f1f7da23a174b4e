------------------------------- MODULE Issues -------------------------------
(***************************************************************************)
(* The issue tracker proper: issues, their comments and attachments, as    *)
(* the HTTP handlers of server/issues.go, server/comments.go and           *)
(* server/attachments.go change them through package db.                   *)
(*                                                                         *)
(* net/http runs every request on a goroutine of its own.  No handler here *)
(* opens a transaction, so each SQL statement is one step and the          *)
(* statements of different requests interleave.  A request its handler     *)
(* refuses (400, 403, 404, 409) has written nothing: one refused on what   *)
(* its first statement reads is a step that is not there, its reasons are  *)
(* conjuncts of the action that begins it.                                 *)
(***************************************************************************)
EXTENDS Naturals, FiniteSets, Tables

CONSTANTS
  Requests,         \* goroutines serving requests: the concurrency allowed
  Users,            \* signed-in callers
  Admins,           \* the callers whose teams hold "admin"
  Nobody,           \* the blank assignee
  Assignees,        \* what a request may name as assignee
  ClientStatuses,   \* what a PUT may carry as status
  Ops,              \* the operations clients perform in this instance
  MaxIssues, MaxComments, MaxAttachments  \* bounds on the rows ever inserted

ASSUME IssuesAssumption ==
  /\ Admins \subseteq Users
  /\ Nobody \notin Users
  /\ Assignees \subseteq Users \cup {Nobody}
  /\ MaxIssues \in Nat /\ MaxComments \in Nat /\ MaxAttachments \in Nat

VARIABLES
  issues,         \* table issues: id -> row
  comments,       \* table comments: id -> the issue_id it belongs to
  attachments,    \* table attachments: id -> row
  nextIssue,      \* AUTOINCREMENT counter of issues
  nextComment,    \* AUTOINCREMENT counter of comments
  nextAttachment, \* stands for the UUIDs CreateAttachment draws: never reused
  serving,        \* the requests in flight: goroutine -> what it is doing
  crossed         \* history: issues deleted while a child was being inserted

vars == <<issues, comments, attachments, nextIssue, nextComment, nextAttachment, serving,
          crossed>>

IssueIds == 1..MaxIssues
CommentIds == 1..MaxComments
AttachmentIds == 1..MaxAttachments

StatusOpen == "Open"
StatusResolved == "Resolved"
StatusBlocked == "Blocked"
StatusDuplicate == "Duplicate"
KnownStatuses == {StatusOpen, StatusResolved, StatusBlocked, StatusDuplicate}
Statuses == KnownStatuses \cup ClientStatuses

\* resolved says whether resolved_at is set.
IssueRow == [status: Statuses, deps: SUBSET IssueIds, reporter: Users,
             assignee: Users \cup {Nobody}, resolved: BOOLEAN]

\* comment is 0 for an attachment of the issue's description.
AttachmentRow == [issue: IssueIds, comment: {0} \cup CommentIds, uploader: Users]

\* step is the statement the handler performs next; target the key of the
\* comment or attachment the request names; was the status it read; status,
\* deps and assignee the body of a PUT; todo the dependencies still to look up.
Serving == [step: {"created", "update_checks", "update_refetch", "auto_comment",
                   "delete_comments", "delete_attachments", "delete_row",
                   "comment_insert", "delete_comment_row",
                   "attach_insert", "delete_attachment_row"},
            user: Users, issue: {0} \cup IssueIds,
            target: {0} \cup CommentIds \cup AttachmentIds,
            was: Statuses, status: Statuses, deps: SUBSET IssueIds,
            assignee: Users \cup {Nobody}, todo: SUBSET IssueIds]

Init ==
  /\ issues = NoRows /\ comments = NoRows /\ attachments = NoRows
  /\ nextIssue = 1 /\ nextComment = 1 /\ nextAttachment = 1
  /\ serving = NoRows
  /\ crossed = {}

-----------------------------------------------------------------------------
(* A request's progress through its handler.                               *)

Idle(r) == r \notin DOMAIN serving
At(r, step) == r \in DOMAIN serving /\ serving[r].step = step

\* A request that names issue i and row t and carries no body.
Ask(step, u, i, t) ==
  [step |-> step, user |-> u, issue |-> i, target |-> t,
   was |-> StatusOpen, status |-> StatusOpen, deps |-> {}, assignee |-> Nobody, todo |-> {}]

Begin(r, request) == Idle(r) /\ serving' = Put(serving, r, request)
Advance(r, step) == serving' = [serving EXCEPT ![r].step = step]
Answer(r) == serving' = Without(serving, {r})

\* issueModifier: who may edit or delete an issue.
IssueModifier(u, row) == u \in Admins \/ u = row.reporter \/ u = row.assignee

-----------------------------------------------------------------------------
(* POST /api/issues, with a blank project (Projects models the check of a  *)
(* named one).  db.CreateIssue inserts and then reads the row back.        *)

\* The rowid AUTOINCREMENT gives out: never one given out before.
BugReusedIssueId == 1 + Cardinality(DOMAIN issues)
BugZeroIssueId == nextIssue - 1
FreshIssueId == nextIssue

CreateIssueInsert(r) ==
  /\ "create" \in Ops
  /\ nextIssue \in IssueIds
  /\ \E u \in Users, a \in Assignees :
       /\ issues' = Put(issues, FreshIssueId,
                        [status |-> StatusOpen, deps |-> {}, reporter |-> u,
                         assignee |-> a, resolved |-> FALSE])
       /\ Begin(r, Ask("created", u, FreshIssueId, 0))
  /\ nextIssue' = nextIssue + 1
  /\ UNCHANGED <<comments, attachments, nextComment, nextAttachment>>

CreateIssueRefetch(r) ==
  /\ At(r, "created")
  /\ Answer(r)
  /\ UNCHANGED <<issues, comments, attachments, nextIssue, nextComment, nextAttachment>>

-----------------------------------------------------------------------------
(* PUT /api/issues/{id}: read the row, validate the body, look up each     *)
(* dependency the new status makes relevant, write, read back, and post    *)
(* the comment of a transition to Duplicate.                               *)

\* What the switch on the new status demands of the body before any
\* dependency is looked up, and of a caller who is no admin.
BodyAccepted(u, i, row, status, deps) ==
  /\ status = StatusDuplicate => Cardinality(deps) = 1
  /\ status = StatusBlocked => deps # {}
  /\ status \in {StatusDuplicate, StatusBlocked} => i \notin deps
  /\ status = StatusBlocked /\ row.status = StatusBlocked /\ u \notin Admins
       => row.deps \subseteq deps

\* The issues the handler looks up before it writes.
DependenciesToCheck(row, status, deps) ==
  IF status \in {StatusDuplicate, StatusBlocked} THEN deps
  ELSE IF status = StatusOpen /\ row.status = StatusBlocked THEN row.deps
  ELSE {}

\* Open and Resolved clear dependent_issues; any other status keeps the body's.
StoredDependencies(status, deps) ==
  IF status \in {StatusOpen, StatusResolved} THEN {} ELSE deps

UpdateIssueRead(r) ==
  /\ "update" \in Ops
  /\ \E u \in Users, i \in DOMAIN issues, status \in ClientStatuses,
        deps \in SUBSET IssueIds, a \in Assignees :
       /\ IssueModifier(u, issues[i])
       /\ BodyAccepted(u, i, issues[i], status, deps)
       /\ Begin(r, [step |-> "update_checks", user |-> u, issue |-> i, target |-> 0,
                    was |-> issues[i].status, status |-> status,
                    deps |-> StoredDependencies(status, deps), assignee |-> a,
                    todo |-> DependenciesToCheck(issues[i], status, deps)])
  /\ UNCHANGED <<issues, comments, attachments, nextIssue, nextComment, nextAttachment>>

\* A dependency must exist; one that holds back a reopening must be Resolved.
BugDependencyMet(request, d) ==
  request.status = StatusOpen => d \in DOMAIN issues /\ issues[d].status = StatusResolved
DependencyMet(request, d) ==
  /\ d \in DOMAIN issues
  /\ request.status = StatusOpen => issues[d].status = StatusResolved

CheckDependency(r) ==
  /\ At(r, "update_checks")
  /\ \E d \in serving[r].todo :
       IF DependencyMet(serving[r], d)
       THEN serving' = [serving EXCEPT ![r].todo = @ \ {d}]
       ELSE Answer(r)
  /\ UNCHANGED <<issues, comments, attachments, nextIssue, nextComment, nextAttachment>>

\* resolved_at = CASE ... END of db.UpdateIssue.
BugResolvedAfter(row, status) ==
  \/ status \in {StatusResolved, StatusDuplicate}
  \/ status # StatusOpen /\ row.resolved
ResolvedAfter(row, status) ==
  \/ status \in {StatusResolved, StatusDuplicate}
  \/ status \notin {StatusOpen, StatusBlocked} /\ row.resolved

\* The UPDATE statement of db.UpdateIssue.
BugWriteRow(i, request) ==
  Put(issues, i, [status |-> request.status, deps |-> request.deps,
                  reporter |-> request.user, assignee |-> request.assignee,
                  resolved |-> request.status \in {StatusResolved, StatusDuplicate}])
WriteRow(i, request) ==
  Update(issues, i, [status |-> request.status, deps |-> request.deps,
                     reporter |-> issues[i].reporter, assignee |-> request.assignee,
                     resolved |-> ResolvedAfter(issues[i], request.status)])

UpdateIssueWrite(r) ==
  /\ At(r, "update_checks")
  /\ serving[r].todo = {}
  /\ issues' = WriteRow(serving[r].issue, serving[r])
  /\ Advance(r, "update_refetch")
  /\ UNCHANGED <<comments, attachments, nextIssue, nextComment, nextAttachment>>

\* The row read back: gone is 404, otherwise a transition to Duplicate goes
\* on to its comment.
UpdateIssueRefetch(r) ==
  LET request == serving[r] IN
  /\ At(r, "update_refetch")
  /\ IF /\ request.issue \in DOMAIN issues
        /\ request.was # StatusDuplicate /\ request.status = StatusDuplicate
     THEN Advance(r, "auto_comment")
     ELSE Answer(r)
  /\ UNCHANGED <<issues, comments, attachments, nextIssue, nextComment, nextAttachment>>

-----------------------------------------------------------------------------
(* Comments: POST checks the issue, then inserts, as does the comment of a *)
(* transition to Duplicate; an admin's DELETE takes two statements.        *)

CreateCommentRead(r) ==
  /\ "comment" \in Ops
  /\ \E u \in Users, i \in DOMAIN issues : Begin(r, Ask("comment_insert", u, i, 0))
  /\ UNCHANGED <<issues, comments, attachments, nextIssue, nextComment, nextAttachment>>

CreateComment(r) ==
  /\ At(r, "comment_insert") \/ At(r, "auto_comment")
  /\ nextComment \in CommentIds
  /\ comments' = Put(comments, nextComment, serving[r].issue)
  /\ nextComment' = nextComment + 1
  /\ Answer(r)
  /\ UNCHANGED <<issues, attachments, nextIssue, nextAttachment>>

\* Any comment id may be named, whether or not the comment exists.
DeleteAttachmentsByComment(r) ==
  /\ "delete_comment" \in Ops
  /\ \E u \in Admins, c \in CommentIds :
       /\ attachments' = Without(attachments, {a \in DOMAIN attachments : attachments[a].comment = c})
       /\ Begin(r, Ask("delete_comment_row", u, 0, c))
  /\ UNCHANGED <<issues, comments, nextIssue, nextComment, nextAttachment>>

DeleteCommentRow(r) ==
  /\ At(r, "delete_comment_row")
  /\ comments' = Without(comments, {serving[r].target})
  /\ Answer(r)
  /\ UNCHANGED <<issues, attachments, nextIssue, nextComment, nextAttachment>>

-----------------------------------------------------------------------------
(* Attachments.                                                            *)

CreateIssueAttachmentRead(r) ==
  /\ "attach" \in Ops
  /\ \E u \in Users, i \in DOMAIN issues : Begin(r, Ask("attach_insert", u, i, 0))
  /\ UNCHANGED <<issues, comments, attachments, nextIssue, nextComment, nextAttachment>>

\* Only the comment is looked up; that its issue exists is not checked.
CreateCommentAttachmentRead(r) ==
  /\ "attach" \in Ops
  /\ \E u \in Users, c \in DOMAIN comments :
       Begin(r, Ask("attach_insert", u, comments[c], c))
  /\ UNCHANGED <<issues, comments, attachments, nextIssue, nextComment, nextAttachment>>

CreateAttachment(r) ==
  /\ At(r, "attach_insert")
  /\ nextAttachment \in AttachmentIds
  /\ attachments' = Put(attachments, nextAttachment,
                        [issue |-> serving[r].issue, comment |-> serving[r].target,
                         uploader |-> serving[r].user])
  /\ nextAttachment' = nextAttachment + 1
  /\ Answer(r)
  /\ UNCHANGED <<issues, comments, nextIssue, nextComment>>

DeleteAttachmentRead(r) ==
  /\ "delete_attachment" \in Ops
  /\ \E u \in Users, a \in DOMAIN attachments :
       /\ u \in Admins \/ u = attachments[a].uploader
       /\ Begin(r, Ask("delete_attachment_row", u, 0, a))
  /\ UNCHANGED <<issues, comments, attachments, nextIssue, nextComment, nextAttachment>>

DeleteAttachmentRow(r) ==
  /\ At(r, "delete_attachment_row")
  /\ attachments' = Without(attachments, {serving[r].target})
  /\ Answer(r)
  /\ UNCHANGED <<issues, comments, nextIssue, nextComment, nextAttachment>>

-----------------------------------------------------------------------------
(* DELETE /api/issues/{id}: after the check, db.DeleteIssue removes the    *)
(* comments, then the attachments, then the row.                           *)

DeleteIssueRead(r) ==
  /\ "delete" \in Ops
  /\ \E u \in Users, i \in DOMAIN issues :
       /\ IssueModifier(u, issues[i])
       /\ Begin(r, Ask("delete_comments", u, i, 0))
  /\ UNCHANGED <<issues, comments, attachments, nextIssue, nextComment, nextAttachment>>

BugDeleteIssueComments(r) ==
  /\ At(r, "delete_comments")
  /\ issues' = Without(issues, {serving[r].issue})
  /\ Advance(r, "delete_attachments")
  /\ UNCHANGED <<comments, attachments, nextIssue, nextComment, nextAttachment>>
DeleteIssueComments(r) ==
  /\ At(r, "delete_comments")
  /\ comments' = Without(comments, {c \in DOMAIN comments : comments[c] = serving[r].issue})
  /\ Advance(r, "delete_attachments")
  /\ UNCHANGED <<issues, attachments, nextIssue, nextComment, nextAttachment>>

DeleteIssueAttachments(r) ==
  /\ At(r, "delete_attachments")
  /\ attachments' = Without(attachments,
                      {a \in DOMAIN attachments : attachments[a].issue = serving[r].issue})
  /\ Advance(r, "delete_row")
  /\ UNCHANGED <<issues, comments, nextIssue, nextComment, nextAttachment>>

DeleteIssueRow(r) ==
  /\ At(r, "delete_row")
  /\ issues' = Without(issues, {serving[r].issue})
  /\ Answer(r)
  /\ UNCHANGED <<comments, attachments, nextIssue, nextComment, nextAttachment>>

-----------------------------------------------------------------------------
\* The process dies, or a statement fails and the handler gives up: the
\* request is gone and what it wrote stays.
Abort(r) ==
  /\ r \in DOMAIN serving
  /\ Answer(r)
  /\ UNCHANGED <<issues, comments, attachments, nextIssue, nextComment, nextAttachment>>

\* The one overlap that makes orphans: a request has looked an issue up, to insert
\* a child under it, while another is deleting that issue.
Inserting == {"comment_insert", "auto_comment", "attach_insert"}
Deleting == {"delete_comments", "delete_attachments", "delete_row"}
Handled(steps) == {serving[r].issue : r \in {s \in DOMAIN serving : serving[s].step \in steps}}
Crossing == Handled(Inserting) \cap Handled(Deleting)

Step(r) ==
  \/ CreateIssueInsert(r) \/ CreateIssueRefetch(r)
  \/ UpdateIssueRead(r) \/ CheckDependency(r) \/ UpdateIssueWrite(r) \/ UpdateIssueRefetch(r)
  \/ CreateCommentRead(r) \/ CreateComment(r)
  \/ DeleteAttachmentsByComment(r) \/ DeleteCommentRow(r)
  \/ CreateIssueAttachmentRead(r) \/ CreateCommentAttachmentRead(r) \/ CreateAttachment(r)
  \/ DeleteAttachmentRead(r) \/ DeleteAttachmentRow(r)
  \/ DeleteIssueRead(r) \/ DeleteIssueComments(r) \/ DeleteIssueAttachments(r) \/ DeleteIssueRow(r)
  \/ Abort(r)

Next == (\E r \in Requests : Step(r)) /\ crossed' = crossed \cup Crossing'

Spec == Init /\ [][Next]_vars

-----------------------------------------------------------------------------
(* Properties.                                                             *)

TypeOK ==
  /\ DOMAIN issues \subseteq IssueIds /\ issues \in [DOMAIN issues -> IssueRow]
  /\ DOMAIN comments \subseteq CommentIds /\ comments \in [DOMAIN comments -> IssueIds]
  /\ DOMAIN attachments \subseteq AttachmentIds
  /\ attachments \in [DOMAIN attachments -> AttachmentRow]
  /\ nextIssue \in 1..(MaxIssues + 1)
  /\ nextComment \in 1..(MaxComments + 1)
  /\ nextAttachment \in 1..(MaxAttachments + 1)
  /\ DOMAIN serving \subseteq Requests /\ serving \in [DOMAIN serving -> Serving]

\* The dependency list and resolved_at of a row always agree with its status,
\* whatever overlapping PUTs and deletes do: a Duplicate has one target, a
\* Blocked issue a blocker, neither itself, and Open and Resolved carry none
\* (the switch of handleUpdateIssue and the CASE of db.UpdateIssue, one written
\* against the status the request read and the other against the row).
RowsConsistent ==
  \A i \in DOMAIN issues :
    LET row == issues[i] IN
    /\ row.status = StatusDuplicate => Cardinality(row.deps) = 1
    /\ row.status = StatusBlocked => row.deps # {}
    /\ row.status \in {StatusDuplicate, StatusBlocked} => i \notin row.deps
    /\ row.status \in {StatusOpen, StatusResolved} => row.deps = {}
    /\ row.status \in {StatusResolved, StatusDuplicate} => row.resolved
    /\ row.status \in {StatusOpen, StatusBlocked} => ~row.resolved

\* A Blocked or Duplicate issue refers only to issues that were really filed:
\* deleted ones perhaps, but never an id not yet issued, so that no issue is
\* born as somebody's blocker (the GetIssue of each dependency, against the
\* deletes and creates between that lookup and the write).
DependenciesWereFiled ==
  \A i \in DOMAIN issues :
    issues[i].status \in {StatusBlocked, StatusDuplicate} => issues[i].deps \subseteq 1..(nextIssue - 1)

\* An issue starts with no comments and no attachments: what a delete that
\* overlapped a comment or an upload left behind never turns up under a later
\* issue (AUTOINCREMENT ids, which a DELETE does not give back).
NewIssuesStartBare ==
  [][\A i \in DOMAIN issues' \ DOMAIN issues :
       /\ \A c \in DOMAIN comments' : comments'[c] # i
       /\ \A a \in DOMAIN attachments' : attachments'[a].issue # i]_vars

\* A deleted issue stays deleted: the write of a PUT that read it before the
\* delete does not bring it back (UPDATE ... WHERE id, not an upsert).
DeletedStaysDeleted ==
  [][\A i \in DOMAIN issues' \ DOMAIN issues : i = nextIssue /\ nextIssue' = i + 1]_vars

\* Every comment and every attachment belongs to an issue that exists, although
\* requests overlap and die between any two statements (the existence checks of
\* the create handlers, and DeleteIssue's order: children first).  Excepted are
\* the issues whose deletion crossed an insertion: docs/API.md promises theirs
\* too ("permanently deletes the issue and all its comments"), but what such a
\* request inserts after the children were deleted stays.
NoOrphans ==
  /\ \A c \in DOMAIN comments : comments[c] \in DOMAIN issues \cup crossed
  /\ \A a \in DOMAIN attachments : attachments[a].issue \in DOMAIN issues \cup crossed

\* What docs/API.md says of Blocked -> Open: "every ID currently in
\* dependent_issues must belong to an issue whose status is Resolved".  False of
\* Spec: the blockers are looked up one by one, before the UPDATE, in the list
\* the row had when the request began.
ReopenedWhenResolved ==
  [][\A i \in DOMAIN issues \cap DOMAIN issues' :
       issues[i].status = StatusBlocked /\ issues'[i].status = StatusOpen =>
         \A d \in issues[i].deps : d \in DOMAIN issues /\ issues[d].status = StatusResolved]_vars
=============================================================================
